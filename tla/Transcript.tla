------------------------------ MODULE Transcript ------------------------------
(***************************************************************************)
(* What chat_sessions and chat_messages promise their readers - the history *)
(* of the next question, the metrics - and those who heard an answer:       *)
(* a turn is a question in a session of the robot or student_id it was      *)
(* asked under, then at most one reply behind it in the same session;       *)
(* nothing stored is changed or removed; an answer is heard when its turn   *)
(* is complete, and the only answer without a turn is the apology to a      *)
(* Sinhala speaker.                                                         *)
(***************************************************************************)
EXTENDS Integers, Sequences

CONSTANTS Owners,    \* robots and student_ids
          Requests   \* their questions: records with an owner

VARIABLES sessions,  \* chat_sessions: the owner of each row
          messages,  \* chat_messages
          heard      \* requests whose answer reached their owner

tables == <<sessions, messages, heard>>

Init == sessions = <<>> /\ messages = <<>> /\ heard = {}

Said(r, role) == {i \in DOMAIN messages : messages[i].request = r /\ messages[i].role = role}

Store(r, role, s) ==
    messages' = Append(messages, [session |-> s, role |-> role, request |-> r])

OpenSession(o) == /\ sessions' = Append(sessions, o)
                  /\ UNCHANGED <<messages, heard>>

StoreQuestion(r, s) == /\ sessions[s] = r.owner
                       /\ r \notin heard
                       /\ Said(r, "user") = {}
                       /\ Store(r, "user", s)
                       /\ UNCHANGED <<sessions, heard>>

(* The chat answers in the same step; the voice speaks later (Hear). *)
StoreReply(r, s) == /\ \E i \in Said(r, "user") : messages[i].session = s
                    /\ Said(r, "assistant") = {}
                    /\ Store(r, "assistant", s)
                    /\ heard' \in {heard, heard \union {r}}
                    /\ UNCHANGED sessions

Hear(r) == /\ Said(r, "user") # {} => Said(r, "assistant") # {}
           /\ heard' = heard \union {r}
           /\ UNCHANGED <<sessions, messages>>

Next == \/ \E o \in Owners : OpenSession(o)
        \/ \E r \in Requests, s \in DOMAIN sessions : StoreQuestion(r, s) \/ StoreReply(r, s)
        \/ \E r \in Requests : Hear(r)

Spec == Init /\ [][Next]_tables
=============================================================================
