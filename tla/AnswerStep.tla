----------------------------- MODULE AnswerStep -----------------------------
(***************************************************************************)
(* How GroundedAnswer fits into Conversation: the retrieval pipeline and   *)
(* the retry loops around Gemini are, for the handler of a question, the   *)
(* two awaits of GatewayAskService.ask that precede the two inserts.       *)
(***************************************************************************)
EXTENDS GroundedAnswer

req == [owner |-> "student", n |-> 1]

(* Where that handler is: an exception of either call ends it.             *)
Where == IF search = "failed" \/ chat = "failed" THEN "error"
         ELSE IF chat = "answered" THEN "question"
         ELSE IF search = "done" THEN "answer" ELSE "search"

place == [r \in {req} |-> Where]
waits == [s \in {"student"} |-> Where # "error"]

(* One student with one question, whose session is known. *)
Turn == INSTANCE Conversation WITH
            Devices <- {}, Students <- {"student"},
            MaxAsks <- [s \in {"student"} |-> 1],
            HistoryLimit <- 1, Faults <- {},
            asked <- [s \in {"student"} |-> 1],
            waiting <- waits,
            pc <- place,
            session <- [r \in {req} |-> 1],
            recent <- [r \in {req} |-> {}],
            sessions <- <<"student">>,
            messages <- <<>>,
            heard <- {}, overlapped <- {}

(* However often Gemini is asked, and whatever papers come and go, the      *)
(* handler sees what Conversation assumes: a search that answers or fails   *)
(* once, behind it - never beside it - an answer or a failure, once, and    *)
(* nothing stored before that.                                              *)
ImplementsAnswering ==
    /\ Turn!At(req, "search")
    /\ [][Turn!Search(req) \/ Turn!AnswerQuestion(req)]_<<place, waits>>
=============================================================================
