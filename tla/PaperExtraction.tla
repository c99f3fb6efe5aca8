--------------------------- MODULE PaperExtraction ---------------------------
(***************************************************************************)
(* The extraction step of IngestionProcessor.process, seen from inside: the *)
(* Gemini call behind an abort timer (callWithAbortTimeout), then, if it    *)
(* fails, the PDF parser in a worker thread behind another timer            *)
(* (runWorker), then the fixed-window chunker.  Timers, the network and the *)
(* thread run beside the main thread, which handles one event at a time.    *)
(***************************************************************************)
EXTENDS Integers, Sequences

CONSTANTS MaxChunks,      \* BOUND: questions that Gemini finds
          MaxWords,       \* BOUND: words of a parsed PDF
          windowTokens, overlapTokens

ASSUME ExtractionAssumption ==
    /\ MaxChunks \in Nat
    /\ MaxWords \in Nat
    /\ windowTokens \in Nat \ {0}
    /\ overlapTokens \in Nat
    /\ overlapTokens < windowTokens

VARIABLES phase,       \* "gemini", "parse", "chunk", "extracted", "failed"
          call,        \* the generateContent request
          abortTimer,  \* the timer of callWithAbortTimeout
          thread,      \* the worker thread
          inbox,       \* the thread's events, in the order they are emitted
          workerTimer, \* the timer of runWorker
          outcome,     \* how runWorker's promise was settled
          count,       \* how many chunks extraction returned
          loop, words, start, chunks  \* the state of FixedWindow

geminiVars == <<call, abortTimer>>
threadVars == <<thread, inbox, workerTimer, outcome>>
windowVars == <<loop, words, start, chunks>>
vars == <<phase, geminiVars, threadVars, count, windowVars>>

FW == INSTANCE FixedWindow

Init == /\ phase = "gemini"
        /\ call = "pending"
        /\ abortTimer = "armed"
        /\ thread = "none"
        /\ inbox = <<>>
        /\ workerTimer = "none"
        /\ outcome = "pending"
        /\ count = 0
        /\ FW!Init

-----------------------------------------------------------------------------
(* GeminiExtractor.extractChunks *)

(* The server answers, or it refuses; it may also do neither for ever. *)
GeminiReplies == /\ call = "pending"
                 /\ call' \in {"answered", "refused"}
                 /\ UNCHANGED <<phase, abortTimer, threadVars, count, windowVars>>

(* Mutant: generateContent is not given the signal. *)
AbortFiresUnheard == /\ abortTimer = "armed"
                     /\ abortTimer' = "fired"
                     /\ UNCHANGED <<phase, call, threadVars, count, windowVars>>

(* EXTRACTION_TIMEOUT_MS is over: the signal makes the SDK reject. *)
AbortFires == /\ abortTimer = "armed"
              /\ abortTimer' = "fired"
              /\ call' = IF call = "pending" THEN "aborted" ELSE call
              /\ UNCHANGED <<phase, threadVars, count, windowVars>>

(* `finally': a timer that did not fire is disarmed. *)
Disarm(t) == IF t = "armed" THEN "cleared" ELSE t

(* Mutant: the timer is cleared on the success path only. *)
DisarmOnSuccess(t) == IF call = "answered" THEN "cleared" ELSE t

DisarmAbort(t) == Disarm(t)

(* The fallback starts: new Worker, and its timer. *)
StartWorker == /\ phase' = "parse"
               /\ thread' = "running"
               /\ workerTimer' = "armed"
               /\ UNCHANGED <<inbox, outcome, count>>

(* The await continues: JSON becomes chunks; anything else falls back. *)
GeminiSettles ==
    /\ phase = "gemini"
    /\ call # "pending"
    /\ abortTimer' = DisarmAbort(abortTimer)
    /\ \/ /\ call = "answered"
          /\ phase' = "extracted"
          /\ count' \in 0 .. MaxChunks
          /\ UNCHANGED threadVars
       \/ StartWorker
    /\ UNCHANGED <<call, windowVars>>

-----------------------------------------------------------------------------
(* The thread (pdf-parse.worker.ts).  It may also never do anything again. *)

Emit(e, t) == /\ inbox' = inbox \o e
              /\ thread' = t
              /\ UNCHANGED <<phase, geminiVars, workerTimer, outcome, count, windowVars>>

(* The text, or describeError of what pdf-parse threw - which is blank for *)
(* an Error without a message.                                             *)
Posts == {"text", "error", "blank"}

(* main() posts one of them. *)
ThreadPosts == thread = "running" /\ \E m \in Posts : Emit(<<m>>, "posted")

(* The thread ends, with or without an uncaught error; a terminated one too. *)
ThreadExits == /\ thread \in {"running", "posted", "terminating"}
               /\ \/ Emit(<<"exit">>, "dead")
                  \/ thread # "terminating" /\ Emit(<<"uncaught", "exit">>, "dead")

-----------------------------------------------------------------------------
(* runWorker: whichever of timer and events comes first settles. *)

(* Mutant: settle does not terminate the thread. *)
TerminatedNever(t) == t

Terminated(t) == IF t \in {"running", "posted"} THEN "terminating" ELSE t
DisarmWorker(t) == Disarm(t)

Settle(o) == IF outcome = "pending"
             THEN /\ outcome' = o
                  /\ thread' = Terminated(thread)
             ELSE UNCHANGED <<outcome, thread>>

(* Mutant: an exit without a message is not listened for. *)
SettlesOnMessage(e) == e # "exit"

Settles(e) == TRUE

HandleEvent == /\ inbox # <<>>
               /\ inbox' = Tail(inbox)
               /\ IF Settles(Head(inbox))
                  THEN Settle(Head(inbox)) /\ workerTimer' = DisarmWorker(workerTimer)
                  ELSE UNCHANGED <<outcome, thread, workerTimer>>
               /\ UNCHANGED <<phase, geminiVars, count, windowVars>>

TimerFires == /\ workerTimer = "armed"
              /\ workerTimer' = "fired"
              /\ Settle("timeout")
              /\ UNCHANGED <<phase, geminiVars, inbox, count, windowVars>>

-----------------------------------------------------------------------------
(* parsePdfInWorker and the chunker *)

(* `if (msg.error)' takes a blank error for no error; its `text ?? ""' is a *)
(* text without words.                                                      *)
Parsed == outcome \in {"text", "blank"}

ParseSettles == /\ phase = "parse"
                /\ outcome # "pending"
                /\ phase' = IF Parsed THEN "chunk" ELSE "failed"
                /\ UNCHANGED <<geminiVars, threadVars, count, windowVars>>

Chunk == /\ phase = "chunk"
         /\ FW!Next
         /\ outcome = "blank" => words' = 0
         /\ UNCHANGED <<phase, geminiVars, threadVars, count>>

ChunkReturns == /\ phase = "chunk"
                /\ loop = "behind"
                /\ phase' = "extracted"
                /\ count' = Len(chunks)
                /\ UNCHANGED <<geminiVars, threadVars, windowVars>>

Timers == AbortFires \/ TimerFires
Main == GeminiSettles \/ HandleEvent \/ ParseSettles \/ Chunk \/ ChunkReturns
World == GeminiReplies \/ ThreadPosts \/ ThreadExits

Next == Timers \/ Main \/ World

Spec == Init /\ [][Next]_vars

(* The main thread runs and Node's timers fire.  Neither Gemini nor the    *)
(* parser owes an answer; a terminated thread does end.                    *)
FairSpec == /\ Spec
            /\ WF_vars(Main)
            /\ WF_vars(AbortFires)
            /\ WF_vars(TimerFires)
            /\ WF_vars(thread = "terminating" /\ ThreadExits)

-----------------------------------------------------------------------------
(* Properties *)

TypeOK ==
    /\ phase \in {"gemini", "parse", "chunk", "extracted", "failed"}
    /\ call \in {"pending", "answered", "refused", "aborted"}
    /\ abortTimer \in {"armed", "fired", "cleared"}
    /\ thread \in {"none", "running", "posted", "terminating", "dead"}
    /\ inbox \in Seq({"text", "error", "blank", "uncaught", "exit"})
    /\ workerTimer \in {"none", "armed", "fired", "cleared"}
    /\ outcome \in {"pending", "text", "error", "blank", "uncaught", "exit", "timeout"}
    /\ count \in Nat
    /\ FW!WindowTypeOK

(* A timer does not outlive the call it guards: no abort hits a later      *)
(* request, and no 45s or 30s timer keeps the process busy.                *)
NoTimerLeft == /\ phase # "gemini" => abortTimer # "armed"
               /\ outcome # "pending" => workerTimer # "armed"

(* Extraction ends even if Gemini and the parser hang, die or race their   *)
(* timers - what the comments on callWithAbortTimeout and runWorker claim. *)
ExtractionEnds == <>(phase \in {"extracted", "failed"})

(* No parser thread outlives its job. *)
NoThreadLeft == outcome # "pending" ~> thread = "dead"

(* A thread that died silently fails the parse at once: it is not left to  *)
(* the timeout once its exit has been handled.                             *)
ExitIsNoticed == thread = "dead" /\ inbox = <<>> => outcome # "pending"

EveryWordIsChunked == FW!EveryWordIsChunked
NeighboursOverlap == FW!NeighboursOverlap
ChunksFit == FW!ChunksFit
=============================================================================
