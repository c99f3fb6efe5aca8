---------------------------- MODULE HybridSearch ----------------------------
(***************************************************************************)
(* RagController.search: a vector search and a full-text search run beside *)
(* each other, reciprocal rank fusion (rrf) merges their rankings, Cohere  *)
(* re-ranks the best of them and a threshold drops the irrelevant ones.    *)
(* The two searches are two statements, so papers may become ready, or     *)
(* stop being ready, between them.                                         *)
(***************************************************************************)
EXTENDS Integers, Sequences, FiniteSets, Functions

CONSTANTS Chunks,             \* rows of paper_chunks
          Papers,
          PaperOf,            \* PaperOf[c]: paper_id of chunk c
          k,                  \* rrf's constant; the code's value is 60
          CandidatesPerList,  \* the code's value is 30
          FusedLimit,         \* FUSED_CANDIDATES_LIMIT; the code's value is 20
          topK                \* chunks asked for: 5 or 30

ASSUME SearchAssumption ==
    /\ IsFiniteSet(Chunks)
    /\ PaperOf \in [Chunks -> Papers]
    /\ k \in Nat
    /\ {CandidatesPerList, FusedLimit, topK} \subseteq Nat \ {0}
    /\ CandidatesPerList <= k + 1

VARIABLES ready,     \* papers with status = 'ready'
          wasReady,  \* history: papers that were ready since the search began
          search,    \* where the handler is
          answered,  \* which of its concurrent calls have answered
          vector,    \* vectorList, best first
          fts,       \* ftsList, best first
          fused,     \* candidates
          result     \* the chunks of the response

searchVars == <<ready, wasReady, search, answered, vector, fts, fused, result>>
lists == <<vector, fts, fused>>

Calls == {"embedding", "vector", "fts"}

Init == /\ ready \in SUBSET Papers
        /\ wasReady = ready
        /\ search = "retrieve"
        /\ answered = {}
        /\ vector = <<>> /\ fts = <<>> /\ fused = <<>> /\ result = <<>>

-----------------------------------------------------------------------------
(* What Ingestion does to the papers meanwhile: also "failed" after "ready". *)

PaperSettles(p) == /\ ready' \in {ready \union {p}, ready \ {p}}
                   /\ wasReady' = wasReady \union ready'
                   /\ UNCHANGED <<search, answered, lists, result>>

-----------------------------------------------------------------------------
(* HybridSearchService.retrieveCandidates *)

Least(m, n) == IF m < n THEN m ELSE n

(* The n best of S, in whatever order the search ranks them. *)
Rankings(S, n) == Injection(1 .. n, S)

(* Mutant: the join does not look at the paper's status. *)
SearchableAll == Chunks

Searchable == {c \in Chunks : PaperOf[c] \in ready}

(* Promise.all rejects with the first of its calls that does. *)
CallFails == /\ search = "retrieve"
             /\ answered # Calls
             /\ search' = "failed"
             /\ UNCHANGED <<ready, wasReady, answered, lists, result>>

Embed == /\ search = "retrieve"
         /\ "embedding" \notin answered
         /\ answered' = answered \union {"embedding"}
         /\ UNCHANGED <<ready, wasReady, search, lists, result>>

(* Every searchable chunk that passes the filters M is ranked by distance. *)
VectorSearch ==
    /\ search = "retrieve"
    /\ "embedding" \in answered /\ "vector" \notin answered
    /\ \E M \in SUBSET Searchable :
          vector' \in Rankings(M, Least(CandidatesPerList, Cardinality(M)))
    /\ answered' = answered \union {"vector"}
    /\ UNCHANGED <<ready, wasReady, search, fts, fused, result>>

(* Those that also match the query's words are ranked by ts_rank. *)
FullTextSearch ==
    /\ search = "retrieve"
    /\ "fts" \notin answered
    /\ \E M \in SUBSET Searchable :
          fts' \in Rankings(M, Least(CandidatesPerList, Cardinality(M)))
    /\ answered' = answered \union {"fts"}
    /\ UNCHANGED <<ready, wasReady, search, vector, fused, result>>

-----------------------------------------------------------------------------
(* rrf.  A score is the fraction <<numerator, denominator>>. *)

Rank(list, c) == CHOOSE i \in DOMAIN list : list[i] = c

Contribution(list, c) == IF c \in Range(list) THEN <<1, k + Rank(list, c)>> ELSE <<0, 1>>

(* Mutant: the second contribution replaces the first. *)
PlusReplaces(x, y) == IF y[1] = 0 THEN x ELSE y

Plus(x, y) == <<x[1] * y[2] + y[1] * x[2], x[2] * y[2]>>

Score(c) == Plus(Contribution(vector, c), Contribution(fts, c))

Exceeds(x, y) == x[1] * y[2] > y[1] * x[2]

(* Mutant: the comparator is the wrong way round. *)
SortedAscending(s) ==
    \A i, j \in DOMAIN s : i < j => ~Exceeds(Score(s[i]), Score(s[j]))

(* Equal scores stay in some order: the code adds floating point numbers.  *)
Sorted(s) == \A i, j \in DOMAIN s : i < j => ~Exceeds(Score(s[j]), Score(s[i]))

Found == Range(vector) \union Range(fts)

Fusions == {s \in Bijection(1 .. Cardinality(Found), Found) : Sorted(s)}

Fuse == /\ search = "retrieve"
        /\ answered = Calls
        /\ \E s \in Fusions : fused' = [i \in 1 .. Least(FusedLimit, Len(s)) |-> s[i]]
        /\ search' = "rerank"
        /\ UNCHANGED <<ready, wasReady, answered, vector, fts, result>>

-----------------------------------------------------------------------------
(* RerankService.rerank and the threshold: of its topN results, best first, *)
(* n are relevant enough.  Then the handler's locals go out of scope.       *)

Respond(r, l) == /\ result' = r
                 /\ search' = l
                 /\ vector' = <<>> /\ fts' = <<>> /\ fused' = <<>>
                 /\ UNCHANGED <<ready, wasReady, answered>>

Rerank == /\ search = "rerank"
          /\ \/ \E n \in 0 .. Least(topK, Len(fused)) :
                  \E r \in Rankings(Range(fused), n) : Respond(r, "done")
             \/ fused # <<>> /\ Respond(<<>>, "failed")

Retrieve == CallFails \/ Embed \/ VectorSearch \/ FullTextSearch \/ Fuse \/ Rerank

-----------------------------------------------------------------------------
(* Properties *)

SearchTypeOK ==
    /\ ready \subseteq wasReady /\ wasReady \subseteq Papers
    /\ search \in {"retrieve", "rerank", "done", "failed"}
    /\ answered \subseteq Calls
    /\ \A list \in {vector, fts, fused, result} : list \in Seq(Chunks) /\ IsInjective(list)

(* What both searches found comes before everything that only one of them   *)
(* found, whatever the ranks - since k is large enough for lists of         *)
(* CandidatesPerList.  So the cut to FusedLimit never drops it for less.    *)
InBoth == Range(vector) \intersect Range(fts)

AgreementWins ==
    search = "rerank" =>
        \A c \in InBoth : \A i \in DOMAIN fused :
            fused[i] \notin InBoth => \E j \in 1 .. i - 1 : fused[j] = c

(* c is ahead of d in every list that has d. *)
Dominates(c, d) == \A list \in {vector, fts} :
                       d \in Range(list) => /\ c \in Range(list)
                                            /\ Rank(list, c) < Rank(list, d)

(* Fusion and cut respect what the searches agree on: a chunk that is ahead *)
(* of a candidate in every list is a candidate before it.                   *)
DominationRespected ==
    search = "rerank" =>
        \A c \in Found : \A i \in DOMAIN fused :
            Dominates(c, fused[i]) => \E j \in 1 .. i - 1 : fused[j] = c
=============================================================================
