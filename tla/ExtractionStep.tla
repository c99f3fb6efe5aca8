---------------------------- MODULE ExtractionStep ----------------------------
(***************************************************************************)
(* How PaperExtraction fits into Ingestion: the race of timers, thread and *)
(* chunker is, from the queue's point of view, the two steps ExtractChunks *)
(* and ParseFallback of one execution of process().  Ingestion has no more *)
(* of it than the place of the execution and the size of `chunks'.         *)
(***************************************************************************)
EXTENDS PaperExtraction

(* Where the two calls are: geminiExtractor.extractChunks, then the catch  *)
(* block with the parser and the chunker.                                  *)
Place == CASE phase = "gemini" -> "extract"
           [] phase \in {"parse", "chunk"} -> "parse"
           [] phase = "extracted" -> "embed"
           [] phase = "failed" -> "fail"

(* One node with one execution of one paper, between download and upsert. *)
Execution == [pc |-> Place, paper |-> "paper", run |-> 0,
              size |-> IF phase = "extracted" THEN count ELSE 0, next |-> 0]
Worker == [n \in {"node"} |-> Execution]

(* A PDF of w words has at most w windows, and a PDF without words one. *)
MostChunks == MaxChunks + MaxWords + 1

Step == INSTANCE Ingestion WITH
            Papers <- {"paper"}, Nodes <- {"node"}, WorkerNodes <- {"node"},
            MaxChunks <- MostChunks, Faults <- {},
            NoPaper <- "no paper", NoNode <- "no node",
            storage <- {"paper"},
            status <- [p \in {"paper"} |-> "processing"],
            errorReason <- [p \in {"paper"} |-> FALSE],
            chunks <- [p \in {"paper"} |-> {}],
            job <- [p \in {"paper"} |-> "active"],
            attemptsMade <- [p \in {"paper"} |-> 0],
            stalled <- [p \in {"paper"} |-> 0],
            owner <- [p \in {"paper"} |-> "node"],
            upload <- [p \in {"paper"} |-> [pc |-> "accepted", node |-> "no node"]],
            worker <- Worker,
            upserted <- [p \in {"paper"} |-> {}],
            pushed <- [p \in {"paper"} |-> {}]

(* However Gemini, the parser and their timers race, process() sees what   *)
(* Ingestion assumes of them: questions of Gemini's or the fallback, then  *)
(* at least one window - also of a PDF without text - or a failure; each   *)
(* outcome once, and none after another.                                   *)
ImplementsExtraction ==
    /\ Step!At("node", "extract")
    /\ [][Step!ExtractChunks("node") \/ Step!ParseFallback("node")]_Worker
=============================================================================
