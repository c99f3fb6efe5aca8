----------------------------- MODULE FixedWindow -----------------------------
(***************************************************************************)
(* chunkByFixedWindow: the loop that cuts the words of a parsed PDF into   *)
(* overlapping windows.  Words are positions 0 .. words - 1; a chunk is    *)
(* the half-open interval of the positions it holds.                       *)
(***************************************************************************)
EXTENDS Integers, Sequences

CONSTANTS MaxWords,       \* BOUND: words of a text
          windowTokens,   \* a window's words; the code's default is 500
          overlapTokens   \* words that neighbours share; the default is 50

VARIABLES loop,    \* where the function is: before, in or behind its loop
          words,   \* how many words the text has
          start,   \* the loop variable
          chunks   \* the chunks pushed so far

windowVars == <<loop, words, start, chunks>>

(* Mutant: consecutive windows do not overlap. *)
strideWhole == windowTokens

stride == windowTokens - overlapTokens

Slice(from) == [from |-> from,
                to |-> IF from + windowTokens < words THEN from + windowTokens ELSE words]

Init == loop = "before" /\ words = 0 /\ start = 0 /\ chunks = <<>>

(* Mutant: an empty text is no chunk at all. *)
BeginSkipsEmpty(n) ==
    /\ loop = "before"
    /\ words' = n
    /\ start' = 0
    /\ IF n <= windowTokens
       THEN loop' = "behind" /\ chunks' = IF n = 0 THEN <<>> ELSE <<[from |-> 0, to |-> n]>>
       ELSE loop' = "in" /\ chunks' = <<>>

(* A text that fits into one window - an empty one too - is one chunk. *)
Begin(n) ==
    /\ loop = "before"
    /\ words' = n
    /\ start' = 0
    /\ IF n <= windowTokens
       THEN loop' = "behind" /\ chunks' = <<[from |-> 0, to |-> n]>>
       ELSE loop' = "in" /\ chunks' = <<>>

(* Mutants of the last two lines of the loop body: the window that reaches *)
(* the end is not recognised as the last; or it is one too early.          *)
LastWindowNever == FALSE
LastWindowEarly == start + windowTokens + stride >= words

LastWindow == start + windowTokens >= words

Iterate ==
    /\ loop = "in"
    /\ IF start >= words
       THEN loop' = "behind" /\ UNCHANGED <<start, chunks>>
       ELSE /\ chunks' = Append(chunks, Slice(start))
            /\ IF LastWindow THEN loop' = "behind" /\ UNCHANGED start
                             ELSE start' = start + stride /\ UNCHANGED loop
    /\ UNCHANGED words

Next == Iterate \/ \E n \in 0 .. MaxWords : Begin(n)

Spec == Init /\ [][Next]_windowVars

-----------------------------------------------------------------------------
(* Properties *)

WindowTypeOK == /\ loop \in {"before", "in", "behind"}
                /\ words \in Nat
                /\ start \in Nat
                /\ chunks \in Seq([from : Nat, to : Nat])

(* Nothing of the paper gets lost: every word is in some chunk. *)
EveryWordIsChunked ==
    loop = "behind" =>
        \A i \in 0 .. words - 1 :
            \E k \in 1 .. Len(chunks) : chunks[k].from <= i /\ i < chunks[k].to

(* Neighbours share overlapTokens words, and no chunk only repeats words   *)
(* of the one before it.                                                   *)
NeighboursOverlap ==
    \A k \in 1 .. Len(chunks) - 1 :
        /\ chunks[k + 1].from = chunks[k].to - overlapTokens
        /\ chunks[k + 1].to > chunks[k].to

(* The embedding model never gets more than one window, and the fallback   *)
(* never returns an empty list.                                            *)
ChunksFit == /\ \A k \in 1 .. Len(chunks) : chunks[k].to - chunks[k].from <= windowTokens
             /\ loop = "behind" => chunks # <<>>
=============================================================================
