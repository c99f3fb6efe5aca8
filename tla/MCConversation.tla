--------------------------- MODULE MCConversation ---------------------------
(***************************************************************************)
(* The finite instances of Conversation, and what SPEC-SHEET promises a    *)
(* robot that abandoned handlers break.                                     *)
(***************************************************************************)
EXTENDS Conversation

CONSTANTS VoiceAsks, ChatAsks

AsksOf == [o \in Devices \union Students |-> IF o \in Devices THEN VoiceAsks ELSE ChatAsks]

(* "server-side rolling history per device ... makes follow-ups like        *)
(* 'explain that differently' work" (SPEC-SHEET.md section 5), here without *)
(* the exception for a robot that asked again after its 30 s timeout: two   *)
(* handlers that both found no session create two, and the later row hides  *)
(* the turns of the other (getOrCreateForDevice).                           *)
EveryFollowUpKnowsHeardTurns ==
    [][\A r \in Requests : ReadsHistory(r) /\ IsAwaited(r) =>
           \A q \in heard : q.owner = r.owner => Knows(r, q)]_vars
=============================================================================
