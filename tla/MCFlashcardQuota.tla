--------------------------- MODULE MCFlashcardQuota ---------------------------
(***************************************************************************)
(* The finite instances of FlashcardQuota, and what the repository says of *)
(* the budget that a refunded answer breaks.                               *)
(***************************************************************************)
EXTENDS FlashcardQuota

(* "this feature's reserved slice of Gemini's 20-req/day account-wide cap" *)
(* (flashcards.controller.ts:11): Gemini answers at most Limit requests of *)
(* the feature a day.  An answer that is not JSON is refunded, so the slot *)
(* pays for another one.                                                   *)
AnsweredWithinSlice ==
    \A d \in Days : Cardinality({r \in Requests : answered[r] = d}) <= Limit
=============================================================================
