-------------------------- MODULE MCGroundedAnswer --------------------------
(***************************************************************************)
(* The finite instances of AnswerStep, and what SPEC-SHEET says of         *)
(* questions that the papers do not cover.                                 *)
(***************************************************************************)
EXTENDS AnswerStep, TLC

CONSTANTS p1, p2, c1, c2, c3, c4

TwoEach == (c1 :> p1) @@ (c2 :> p1) @@ (c3 :> p2) @@ (c4 :> p2)
OnePaper == (c1 :> p1) @@ (c2 :> p1)

(* "If retrieval returns nothing above threshold, Chat/LLM Service does    *)
(* not let Gemini answer from general knowledge" (SPEC-SHEET.md section 6):*)
(* a curriculum question without any chunk is not answered by Gemini.      *)
NothingFoundIsDeclined == chat = "answered" /\ result = <<>> => ~curriculum
=============================================================================
