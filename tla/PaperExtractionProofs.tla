------------------------ MODULE PaperExtractionProofs ------------------------
(***************************************************************************)
(* Proofs about PaperExtraction, for texts, windows and overlaps of every   *)
(* size: the timers and the thread first, then the fixed-window loop, then  *)
(* what both are for Ingestion.                                             *)
(***************************************************************************)
EXTENDS ExtractionStep, TLAPS

(* The part of TypeOK that is not about the loop. *)
RaceTypeOK ==
    /\ phase \in {"gemini", "parse", "chunk", "extracted", "failed"}
    /\ call \in {"pending", "answered", "refused", "aborted"}
    /\ abortTimer \in {"armed", "fired", "cleared"}
    /\ thread \in {"none", "running", "posted", "terminating", "dead"}
    /\ inbox \in Seq({"text", "error", "blank", "uncaught", "exit"})
    /\ workerTimer \in {"none", "armed", "fired", "cleared"}
    /\ outcome \in {"pending", "text", "error", "blank", "uncaught", "exit", "timeout"}

(* Before the fallback starts there is nothing of runWorker. *)
NoWorkerYet == phase = "gemini" => /\ thread = "none"
                                   /\ inbox = <<>>
                                   /\ workerTimer = "none"
                                   /\ outcome = "pending"

RaceInv == RaceTypeOK /\ NoWorkerYet /\ NoTimerLeft /\ ExitIsNoticed

-----------------------------------------------------------------------------
(* The race of timers and events *)

(* Both promises are pending and both timers are yet to come. *)
LEMMA RaceInit == Init => RaceInv
BY DEF Init, RaceInv, RaceTypeOK, NoWorkerYet, NoTimerLeft, ExitIsNoticed

(* The await on Gemini continues: its timer is gone, whether it fired,     *)
(* and the worker's timer starts while its outcome is open.                *)
LEMMA GeminiSettlesRace == RaceInv /\ GeminiSettles => RaceInv'
<1> SUFFICES ASSUME RaceInv, GeminiSettles PROVE RaceInv'
  OBVIOUS
<1> USE DEF RaceInv, RaceTypeOK, NoWorkerYet, NoTimerLeft, ExitIsNoticed
<1>1. abortTimer' \in {"fired", "cleared"} /\ call' = call
  BY DEF GeminiSettles, DisarmAbort, Disarm
<1>2. CASE call = "answered" /\ phase' = "extracted" /\ UNCHANGED threadVars
  BY <1>1, <1>2 DEF GeminiSettles, threadVars
<1>3. CASE StartWorker
  BY <1>1, <1>3 DEF GeminiSettles, StartWorker
<1> QED BY <1>2, <1>3 DEF GeminiSettles

(* What the thread does only adds to the inbox, and it dies with an event. *)
LEMMA EmitRace ==
    ASSUME RaceInv, phase # "gemini",
           NEW e \in Seq({"text", "error", "blank", "uncaught", "exit"}),
           NEW t \in {"posted", "dead"}, e # <<>>, Emit(e, t)
    PROVE  RaceInv'
<1> USE DEF RaceInv, RaceTypeOK, NoWorkerYet, NoTimerLeft, ExitIsNoticed
<1>1. inbox' = inbox \o e /\ thread' = t
  BY DEF Emit
<1>2. inbox' \in Seq({"text", "error", "blank", "uncaught", "exit"}) /\ inbox' # <<>>
  BY <1>1
<1> QED BY <1>1, <1>2 DEF Emit, geminiVars

LEMMA ThreadRace == RaceInv /\ (ThreadPosts \/ ThreadExits) => RaceInv'
<1> SUFFICES ASSUME RaceInv, ThreadPosts \/ ThreadExits PROVE RaceInv'
  OBVIOUS
<1> DEFINE Events == {"text", "error", "blank", "uncaught", "exit"}
<1>1. phase # "gemini"
  BY DEF ThreadPosts, ThreadExits, RaceInv, NoWorkerYet
<1>2. CASE \E m \in {"text", "error", "blank"} : Emit(<<m>>, "posted")
  <2>1. PICK m \in {"text", "error", "blank"} : Emit(<<m>>, "posted")
    BY <1>2
  <2>2. <<m>> \in Seq(Events) /\ <<m>> # <<>>
    OBVIOUS
  <2> QED BY <1>1, <2>1, <2>2, EmitRace
<1>3. CASE Emit(<<"exit">>, "dead")
  <2>1. <<"exit">> \in Seq(Events) /\ <<"exit">> # <<>>
    OBVIOUS
  <2> QED BY <1>1, <1>3, <2>1, EmitRace
<1>4. CASE Emit(<<"uncaught", "exit">>, "dead")
  <2>1. <<"uncaught", "exit">> \in Seq(Events) /\ <<"uncaught", "exit">> # <<>>
    OBVIOUS
  <2> QED BY <1>1, <1>4, <2>1, EmitRace
<1> QED BY <1>2, <1>3, <1>4 DEF ThreadPosts, Posts, ThreadExits

(* Whatever settles runWorker's promise also clears its timer. *)
LEMMA SettleRace == RaceInv /\ (HandleEvent \/ TimerFires) => RaceInv'
<1> SUFFICES ASSUME RaceInv, HandleEvent \/ TimerFires PROVE RaceInv'
  OBVIOUS
<1> USE DEF RaceInv, RaceTypeOK, NoWorkerYet, NoTimerLeft, ExitIsNoticed
<1>1. CASE HandleEvent
  <2>1. /\ Settle(Head(inbox))
        /\ workerTimer' = DisarmWorker(workerTimer)
        /\ inbox' = Tail(inbox)
        /\ inbox # <<>>
        /\ UNCHANGED <<phase, geminiVars>>
    BY <1>1 DEF HandleEvent, Settles
  <2>2. Head(inbox) \in {"text", "error", "blank", "uncaught", "exit"}
    BY <2>1
  <2>3. inbox' \in Seq({"text", "error", "blank", "uncaught", "exit"})
    BY <2>1
  <2>4. workerTimer' \in {"none", "fired", "cleared"}
    BY <2>1 DEF DisarmWorker, Disarm
  <2>5. outcome' # "pending" /\ outcome' \in {"text", "error", "blank", "uncaught", "exit", "timeout"}
    BY <2>1, <2>2 DEF Settle
  <2>6. thread' \in {"none", "running", "posted", "terminating", "dead"}
    BY <2>1 DEF Settle, Terminated
  <2>7. phase # "gemini"
    BY <2>1
  <2> QED BY <2>1, <2>3, <2>4, <2>5, <2>6, <2>7 DEF geminiVars
<1>2. CASE TimerFires
  <2>1. outcome' # "pending" /\ outcome' \in {"text", "error", "blank", "uncaught", "exit", "timeout"}
    BY <1>2 DEF TimerFires, Settle
  <2>2. thread' \in {"none", "running", "posted", "terminating", "dead"}
    BY <1>2 DEF TimerFires, Settle, Terminated
  <2> QED BY <1>2, <2>1, <2>2 DEF TimerFires, geminiVars
<1> QED BY <1>1, <1>2

(* Every step keeps the race's invariant. *)
LEMMA RaceStep == RaceInv /\ [Next]_vars => RaceInv'
<1> SUFFICES ASSUME RaceInv, [Next]_vars PROVE RaceInv'
  OBVIOUS
<1> USE DEF RaceInv, RaceTypeOK, NoWorkerYet, NoTimerLeft, ExitIsNoticed
<1>1. CASE AbortFires
  BY <1>1 DEF AbortFires, threadVars
<1>2. CASE GeminiReplies
  BY <1>2 DEF GeminiReplies, threadVars
<1>3. CASE GeminiSettles
  BY <1>3, GeminiSettlesRace
<1>4. CASE ThreadPosts \/ ThreadExits
  BY <1>4, ThreadRace
<1>5. CASE HandleEvent \/ TimerFires
  BY <1>5, SettleRace
<1>6. CASE ParseSettles
  BY <1>6 DEF ParseSettles, geminiVars, threadVars
<1>7. CASE Chunk
  BY <1>7 DEF Chunk, geminiVars, threadVars
<1>8. CASE ChunkReturns
  BY <1>8 DEF ChunkReturns, geminiVars, threadVars
<1>9. CASE UNCHANGED vars
  BY <1>9 DEF vars, geminiVars, threadVars
<1> QED BY <1>1, <1>2, <1>3, <1>4, <1>5, <1>6, <1>7, <1>8, <1>9
        DEF Next, Timers, Main, World

(* RaceInv is an invariant: the race of timers, events and the thread. *)
THEOREM RaceInvariance == Spec => []RaceInv
BY RaceInit, RaceStep, PTL DEF Spec

(* No abort timer outlives its call and no 30 s timer a settled worker. *)
THEOREM TimersAreCleared == Spec => []NoTimerLeft
<1>1. RaceInv => NoTimerLeft
  BY DEF RaceInv
<1> QED BY <1>1, RaceInvariance, PTL

(* A thread that died is never waited for once its exit was handled. *)
THEOREM ExitsAreNoticed == Spec => []ExitIsNoticed
<1>1. RaceInv => ExitIsNoticed
  BY DEF RaceInv
<1> QED BY <1>1, RaceInvariance, PTL

-----------------------------------------------------------------------------
(* The fixed-window loop *)

(* A chunk that holds word i. *)
Chunked(i) == \E k \in 1 .. Len(chunks) : chunks[k].from <= i /\ i < chunks[k].to

End == chunks[Len(chunks)].to

(* The loop never sees start past the end: a window that reaches the end   *)
(* was the last, and otherwise the next one starts overlapTokens before it. *)
LoopInv ==
    /\ loop = "before" => words = 0 /\ start = 0 /\ chunks = <<>>
    /\ loop = "in" => /\ start + overlapTokens < words
                      /\ chunks = <<>> => start = 0
                      /\ chunks # <<>> => End = start + overlapTokens
    /\ loop = "behind" => chunks # <<>> /\ End = words

(* What is chunked so far has no gap. *)
NoGap == chunks # <<>> => \A i \in Nat : i < End => Chunked(i)

WindowInv == /\ FW!WindowTypeOK
             /\ LoopInv
             /\ NoGap
             /\ NeighboursOverlap
             /\ ChunksFit

LEMMA WindowInit == Init => WindowInv
BY DEF Init, FW!Init, WindowInv, FW!WindowTypeOK, LoopInv, NoGap, NeighboursOverlap,
       FW!NeighboursOverlap, ChunksFit, FW!ChunksFit

(* A short text is one chunk, a long one starts the loop. *)
LEMMA BeginWindow ==
    ASSUME WindowInv, NEW n \in 0 .. MaxWords, FW!Begin(n)
    PROVE  WindowInv'
<1> USE ExtractionAssumption
<1>1. n \in Nat
  OBVIOUS
<1>2. CASE n <= windowTokens
  <2>1. /\ loop' = "behind"
        /\ words' = n
        /\ start' = 0
        /\ chunks' = <<[from |-> 0, to |-> n]>>
    BY <1>2 DEF FW!Begin
  <2>2. /\ Len(chunks') = 1
        /\ chunks'[1] = [from |-> 0, to |-> n]
        /\ chunks' \in Seq([from : Nat, to : Nat])
    BY <1>1, <2>1
  <2> QED BY <1>1, <1>2, <2>1, <2>2
          DEF WindowInv, FW!WindowTypeOK, LoopInv, End, NoGap, Chunked,
              NeighboursOverlap, FW!NeighboursOverlap, ChunksFit, FW!ChunksFit
<1>3. CASE ~(n <= windowTokens)
  <2>1. /\ loop' = "in"
        /\ words' = n
        /\ start' = 0
        /\ chunks' = <<>>
    BY <1>3 DEF FW!Begin
  <2> QED BY <1>1, <1>3, <2>1
          DEF WindowInv, FW!WindowTypeOK, LoopInv, NoGap,
              NeighboursOverlap, FW!NeighboursOverlap, ChunksFit, FW!ChunksFit
<1> QED BY <1>2, <1>3

(* One turn of the loop appends the window from start to the end of the    *)
(* text or of the window, whichever comes first.                           *)
LEMMA IterateWindow == ASSUME WindowInv, FW!Iterate PROVE WindowInv'
<1> USE ExtractionAssumption
<1> DEFINE c == FW!Slice(start)
<1>1. /\ start \in Nat /\ words \in Nat /\ chunks \in Seq([from : Nat, to : Nat])
      /\ loop = "in"
      /\ start + overlapTokens < words
      /\ words' = words
  BY DEF WindowInv, FW!WindowTypeOK, LoopInv, FW!Iterate
<1>2. chunks' = Append(chunks, c)
  BY <1>1 DEF FW!Iterate
<1>3. /\ c \in [from : Nat, to : Nat]
      /\ c.from = start
      /\ c.to - c.from <= windowTokens
      /\ c.to > start + overlapTokens
      /\ c.to = IF start + windowTokens < words THEN start + windowTokens ELSE words
  BY <1>1 DEF FW!Slice
<1> HIDE DEF c
<1>4. /\ chunks' \in Seq([from : Nat, to : Nat])
      /\ Len(chunks') = Len(chunks) + 1
      /\ chunks' # <<>>
      /\ chunks'[Len(chunks')] = c
      /\ \A k \in 1 .. Len(chunks) : chunks'[k] = chunks[k]
      /\ Len(chunks) \in Nat
  BY <1>1, <1>2, <1>3
<1>5. chunks = <<>> => start = 0 /\ Len(chunks) = 0
  BY <1>1 DEF WindowInv, LoopInv
<1>6. chunks # <<>> => /\ Len(chunks) \in 1 .. Len(chunks)
                       /\ chunks[Len(chunks)].to = start + overlapTokens
  BY <1>1 DEF WindowInv, LoopInv, End
<1>7. /\ loop' \in {"in", "behind"}
      /\ start' \in Nat
      /\ loop' = "in" => start' + overlapTokens < words /\ c.to = start' + overlapTokens
      /\ loop' = "behind" => c.to = words
  <2>1. CASE FW!LastWindow
    BY <1>1, <1>3, <2>1 DEF FW!Iterate, FW!LastWindow
  <2>2. CASE ~FW!LastWindow
    <3>1. start' = start + windowTokens - overlapTokens /\ loop' = "in"
      BY <1>1, <2>2 DEF FW!Iterate, FW!stride
    <3>2. start + windowTokens < words
      BY <1>1, <2>2 DEF FW!LastWindow
    <3> QED BY <1>1, <1>3, <3>1, <3>2
  <2> QED BY <2>1, <2>2
<1>8. FW!WindowTypeOK' /\ LoopInv'
  BY <1>1, <1>4, <1>7 DEF FW!WindowTypeOK, LoopInv, End
<1>9. NoGap'
  <2> SUFFICES ASSUME NEW i \in Nat, i < c.to
               PROVE  \E k \in 1 .. Len(chunks') : chunks'[k].from <= i /\ i < chunks'[k].to
    BY <1>4 DEF NoGap, End, Chunked
  <2>1. CASE start <= i
    BY <1>3, <1>4, <2>1
  <2>2. CASE i < start
    <3>1. chunks # <<>> /\ i < chunks[Len(chunks)].to
      BY <1>1, <1>5, <1>6, <2>2
    <3>2. PICK k \in 1 .. Len(chunks) : chunks[k].from <= i /\ i < chunks[k].to
      BY <3>1 DEF WindowInv, NoGap, End, Chunked
    <3>3. k \in 1 .. Len(chunks') /\ chunks'[k] = chunks[k]
      BY <1>4
    <3> QED BY <3>2, <3>3
  <2> QED BY <1>1, <2>1, <2>2
<1>10. NeighboursOverlap'
  <2> SUFFICES ASSUME NEW k \in 1 .. Len(chunks') - 1
               PROVE  /\ chunks'[k + 1].from = chunks'[k].to - overlapTokens
                      /\ chunks'[k + 1].to > chunks'[k].to
    BY DEF NeighboursOverlap, FW!NeighboursOverlap
  <2>1. CASE k = Len(chunks)
    <3>1. chunks'[k + 1] = c /\ chunks'[k] = chunks[Len(chunks)] /\ chunks # <<>>
      BY <1>4, <2>1
    <3> QED BY <1>1, <1>3, <1>6, <3>1
  <2>2. CASE k # Len(chunks)
    <3>1. k \in 1 .. Len(chunks) - 1 /\ k \in 1 .. Len(chunks) /\ k + 1 \in 1 .. Len(chunks)
      BY <1>4, <2>2
    <3>2. chunks'[k] = chunks[k] /\ chunks'[k + 1] = chunks[k + 1]
      BY <1>4, <3>1
    <3> QED BY <3>1, <3>2 DEF WindowInv, NeighboursOverlap, FW!NeighboursOverlap
  <2> QED BY <2>1, <2>2
<1>11. ChunksFit'
  <2> SUFFICES ASSUME NEW k \in 1 .. Len(chunks')
               PROVE  chunks'[k].to - chunks'[k].from <= windowTokens
    BY <1>4 DEF ChunksFit, FW!ChunksFit
  <2>1. CASE k = Len(chunks')
    BY <1>3, <1>4, <2>1
  <2>2. CASE k # Len(chunks')
    <3>1. k \in 1 .. Len(chunks) /\ chunks'[k] = chunks[k]
      BY <1>4, <2>2
    <3> QED BY <3>1 DEF WindowInv, ChunksFit, FW!ChunksFit
  <2> QED BY <2>1, <2>2
<1> QED BY <1>8, <1>9, <1>10, <1>11 DEF WindowInv

(* Only the chunker touches the loop's variables. *)
LEMMA WindowStep == WindowInv /\ [Next]_vars => WindowInv'
<1> SUFFICES ASSUME WindowInv, [Next]_vars PROVE WindowInv'
  OBVIOUS
<1>1. CASE Chunk
  <2>1. CASE FW!Iterate
    BY <2>1, IterateWindow
  <2>2. CASE \E n \in 0 .. MaxWords : FW!Begin(n)
    BY <2>2, BeginWindow
  <2> QED BY <1>1, <2>1, <2>2 DEF Chunk, FW!Next
<1>2. CASE UNCHANGED windowVars
  BY <1>2 DEF windowVars, WindowInv, FW!WindowTypeOK, LoopInv, End, NoGap, Chunked,
              NeighboursOverlap, FW!NeighboursOverlap, ChunksFit, FW!ChunksFit
<1>3. ~Chunk => UNCHANGED windowVars
  BY DEF Next, Timers, Main, World, AbortFires, TimerFires, GeminiSettles, HandleEvent,
         ParseSettles, ChunkReturns, GeminiReplies, ThreadPosts, ThreadExits, Emit,
         vars, windowVars
<1> QED BY <1>1, <1>2, <1>3

(* WindowInv is an invariant: the loop has no gap and knows its end.       *)
THEOREM WindowInvariance == Spec => []WindowInv
BY WindowInit, WindowStep, PTL DEF Spec

(* The fallback loses no word of a paper, whatever the sizes. *)
THEOREM WordsAreChunked == Spec => []EveryWordIsChunked
<1>1. WindowInv => EveryWordIsChunked
  BY DEF WindowInv, FW!WindowTypeOK, LoopInv, NoGap, Chunked, EveryWordIsChunked,
         FW!EveryWordIsChunked
<1> QED BY <1>1, WindowInvariance, PTL

(* Neighbouring chunks share overlapTokens words and each adds a new one. *)
THEOREM WindowsOverlap == Spec => []NeighboursOverlap
<1>1. WindowInv => NeighboursOverlap
  BY DEF WindowInv
<1> QED BY <1>1, WindowInvariance, PTL

(* No chunk exceeds the window, and there always is one. *)
THEOREM WindowsFit == Spec => []ChunksFit
<1>1. WindowInv => ChunksFit
  BY DEF WindowInv
<1> QED BY <1>1, WindowInvariance, PTL

-----------------------------------------------------------------------------
(* Every variable keeps its type. *)
THEOREM TypeCorrect == Spec => []TypeOK
<1> DEFINE CountInv == count \in Nat
<1>1. Init => CountInv
  BY DEF Init
<1>2. WindowInv /\ CountInv /\ [Next]_vars => CountInv'
  <2> SUFFICES ASSUME WindowInv, CountInv, [Next]_vars PROVE CountInv'
    OBVIOUS
  <2>1. CASE GeminiSettles
    BY <2>1, ExtractionAssumption DEF GeminiSettles, StartWorker
  <2>2. CASE ChunkReturns
    BY <2>2 DEF ChunkReturns, WindowInv, FW!WindowTypeOK
  <2>3. ~GeminiSettles /\ ~ChunkReturns => UNCHANGED count
    BY DEF Next, Timers, Main, World, AbortFires, TimerFires, HandleEvent, ParseSettles,
           Chunk, GeminiReplies, ThreadPosts, ThreadExits, Emit, vars
  <2> QED BY <2>1, <2>2, <2>3
<1>3. RaceInv /\ WindowInv /\ CountInv => TypeOK
  BY DEF RaceInv, RaceTypeOK, WindowInv, TypeOK
<1> QED BY <1>1, <1>2, <1>3, RaceInvariance, WindowInvariance, PTL DEF Spec

-----------------------------------------------------------------------------
(* The extraction is two steps of Ingestion *)

(* Every turn of the loop moves start by one word at least. *)
SizeInv == /\ words <= MaxWords
           /\ loop = "in" => Len(chunks) <= start
           /\ loop = "behind" => Len(chunks) <= words + 1

LEMMA SizeStep == WindowInv /\ SizeInv /\ [Next]_vars => SizeInv'
<1> SUFFICES ASSUME WindowInv, SizeInv, [Next]_vars PROVE SizeInv'
  OBVIOUS
<1> USE ExtractionAssumption DEF SizeInv
<1>1. ASSUME NEW n \in 0 .. MaxWords, FW!Begin(n) PROVE SizeInv'
  <2>1. words' = n /\ n \in Nat /\ n <= MaxWords /\ start' = 0
    BY <1>1 DEF FW!Begin
  <2>2. CASE chunks' = <<[from |-> 0, to |-> n]>>
    <3>1. Len(chunks') = 1 /\ loop' = "behind"
      BY <1>1, <2>2 DEF FW!Begin
    <3> QED BY <2>1, <3>1
  <2>3. CASE chunks' = <<>>
    <3>1. Len(chunks') = 0
      BY <2>3
    <3> QED BY <2>1, <3>1
  <2> QED BY <1>1, <2>2, <2>3 DEF FW!Begin
<1>2. CASE FW!Iterate
  <2>1. /\ loop = "in" /\ start \in Nat /\ words' = words /\ words \in Nat
        /\ start + overlapTokens < words
        /\ chunks \in Seq([from : Nat, to : Nat])
        /\ chunks' = Append(chunks, FW!Slice(start))
    BY <1>2 DEF WindowInv, FW!WindowTypeOK, LoopInv, FW!Iterate
  <2>2. Len(chunks') = Len(chunks) + 1 /\ Len(chunks) \in Nat
    BY <2>1
  <2>3. CASE FW!LastWindow
    BY <1>2, <2>1, <2>2, <2>3 DEF FW!Iterate
  <2>4. CASE ~FW!LastWindow
    BY <1>2, <2>1, <2>2, <2>4 DEF FW!Iterate, FW!stride
  <2> QED BY <2>3, <2>4
<1>3. CASE Chunk
  BY <1>1, <1>2, <1>3 DEF Chunk, FW!Next
<1>4. CASE UNCHANGED windowVars
  BY <1>4 DEF windowVars
<1>5. ~Chunk => UNCHANGED windowVars
  BY DEF Next, Timers, Main, World, AbortFires, TimerFires, GeminiSettles, HandleEvent,
         ParseSettles, ChunkReturns, GeminiReplies, ThreadPosts, ThreadExits, Emit,
         vars, windowVars
<1> QED BY <1>3, <1>4, <1>5

(* Ingestion's execution moves to l, or starts its loop over k chunks. *)
LEMMA StepMoves ==
    ASSUME NEW l \in {"parse", "fail"}, phase # "extracted", Place' = l, phase' # "extracted"
    PROVE  Step!Goto("node", l)
BY DEF Step!Goto, Step!Ending, Step!Execution, Worker, Execution

LEMMA StepGotChunks ==
    ASSUME phase # "extracted", phase' = "extracted"
    PROVE  Step!GotChunks("node", count')
BY DEF Step!GotChunks, Step!Paper, Step!Execution, Worker, Execution, Place

LEMMA ExtractionStepRefines ==
    RaceInv /\ WindowInv /\ SizeInv /\ [Next]_vars =>
        [Step!ExtractChunks("node") \/ Step!ParseFallback("node")]_Worker
<1> SUFFICES ASSUME RaceInv, WindowInv, SizeInv, [Next]_vars
             PROVE  \/ Step!ExtractChunks("node") \/ Step!ParseFallback("node")
                    \/ UNCHANGED Worker
  OBVIOUS
<1>1. CASE GeminiSettles
  <2>1. phase = "gemini" /\ Step!At("node", "extract")
    BY <1>1 DEF GeminiSettles, Step!At, Worker, Execution, Place
  <2>2. CASE phase' = "extracted" /\ count' \in 0 .. MaxChunks
    <3>1. count' \in 0 .. MostChunks
      BY <2>2, ExtractionAssumption DEF MostChunks
    <3> QED BY <2>1, <2>2, <3>1, StepGotChunks
            DEF Step!ExtractChunks, Step!dbVars, Step!queueVars, Step!history
  <2>3. CASE StartWorker
    <3>1. Place' = "parse" /\ phase' # "extracted"
      BY <2>3 DEF StartWorker, Place
    <3> QED BY <2>1, <3>1, StepMoves
            DEF Step!ExtractChunks, Step!dbVars, Step!queueVars, Step!history
  <2> QED BY <1>1, <2>2, <2>3 DEF GeminiSettles
<1>2. CASE ParseSettles
  <2>1. phase = "parse" /\ Step!At("node", "parse")
    BY <1>2 DEF ParseSettles, Step!At, Worker, Execution, Place
  <2>2. CASE phase' = "chunk"
    BY <2>1, <2>2 DEF Worker, Execution, Place
  <2>3. CASE phase' = "failed"
    <3>1. Place' = "fail"
      BY <2>3 DEF Place
    <3> QED BY <2>1, <2>3, <3>1, StepMoves
            DEF Step!ParseFallback, Step!dbVars, Step!queueVars, Step!history
  <2> QED BY <1>2, <2>2, <2>3 DEF ParseSettles
<1>3. CASE ChunkReturns
  <2>1. phase = "chunk" /\ phase' = "extracted" /\ Step!At("node", "parse")
    BY <1>3 DEF ChunkReturns, Step!At, Worker, Execution, Place
  <2>2. count' \in 1 .. MostChunks
    <3>1. /\ count' = Len(chunks) /\ chunks # <<>> /\ Len(chunks) <= words + 1
          /\ chunks \in Seq([from : Nat, to : Nat]) /\ words \in Nat /\ words <= MaxWords
      BY <1>3 DEF ChunkReturns, WindowInv, FW!WindowTypeOK, LoopInv, SizeInv
    <3>2. Len(chunks) \in Nat /\ Len(chunks) # 0
      BY <3>1
    <3> QED BY <3>1, <3>2, ExtractionAssumption DEF MostChunks
  <2> QED BY <2>1, <2>2, StepGotChunks
          DEF Step!ParseFallback, Step!dbVars, Step!queueVars, Step!history
<1>4. CASE ~GeminiSettles /\ ~ParseSettles /\ ~ChunkReturns
  <2>1. UNCHANGED <<phase, count>>
    BY <1>4 DEF Next, Timers, Main, World, AbortFires, TimerFires, HandleEvent, Chunk,
                GeminiReplies, ThreadPosts, ThreadExits, Emit, vars
  <2> QED BY <2>1 DEF Worker, Execution, Place
<1> QED BY <1>1, <1>2, <1>3, <1>4

(* What process() sees of the whole race - timers, aborts, a thread that   *)
(* dies, posts nothing or posts too late, texts of any length - is one      *)
(* result of Gemini's or one of the fallback's, as Ingestion has them.      *)
THEOREM ExtractionImplementsSteps == Spec => ImplementsExtraction
<1>1. Init => Step!At("node", "extract") /\ SizeInv
  BY ExtractionAssumption DEF Init, FW!Init, Step!At, Worker, Execution, Place, SizeInv
<1>2. WindowInv /\ SizeInv /\ [Next]_vars => SizeInv'
  BY SizeStep
<1>3. RaceInv /\ WindowInv /\ SizeInv /\ [Next]_vars =>
          [Step!ExtractChunks("node") \/ Step!ParseFallback("node")]_Worker
  BY ExtractionStepRefines
<1> QED BY <1>1, <1>2, <1>3, RaceInvariance, WindowInvariance, PTL
        DEF Spec, ImplementsExtraction
=============================================================================
