------------------------ MODULE GroundedAnswerProofs ------------------------
(***************************************************************************)
(* Proofs about GroundedAnswer and the HybridSearch in it, for all chunks, *)
(* papers and limits, as long as lists are not longer than k + 1.          *)
(***************************************************************************)
EXTENDS AnswerStep, FiniteSetTheorems, SequenceTheorems, TLAPS

-----------------------------------------------------------------------------
(* Arithmetic: k large enough makes two contributions worth more than one. *)

(* 1/a + 1/b > 1/d for a and b in k+1 .. 2k+1 and d > k. *)
LEMMA TwoBeatOne ==
    ASSUME NEW a \in Nat, NEW b \in Nat, NEW d \in Nat,
           k < a, a <= 2 * k + 1, k < b, b <= 2 * k + 1, k < d
    PROVE  (a + b) * d > a * b
<1>0. k \in Nat
  BY SearchAssumption
<1>1. (a + b) * d >= (a + b) * (k + 1)
  BY <1>0
<1>2. CASE a <= k + 1
  <2>1. b * (k + 1) >= b * a
    BY <1>0, <1>2
  <2>2. a * (k + 1) > 0
    BY <1>0
  <2> QED BY <1>0, <1>1, <2>1, <2>2
<1>3. CASE a > k + 1
  <2> DEFINE e == a - (k + 1)
  <2>1. e \in Nat /\ a = k + 1 + e /\ e <= k
    BY <1>0, <1>3
  <2>2. b * e <= (2 * k + 1) * e
    BY <1>0, <2>1
  <2>3. a * b = (k + 1) * b + b * e
    BY <1>0, <2>1
  <2>4. (a + b) * (k + 1) = a * (k + 1) + (k + 1) * b
    BY <1>0
  <2>5. a * (k + 1) > (2 * k + 1) * e
    <3>1. a * (k + 1) = (k + 1) * (k + 1) + e * (k + 1)
      BY <1>0, <2>1
    <3>2. (2 * k + 1) * e = k * e + e * (k + 1)
      BY <1>0, <2>1
    <3>3. k * e <= k * k
      BY <1>0, <2>1
    <3>4. (k + 1) * (k + 1) > k * k
      BY <1>0
    <3> QED BY <1>0, <2>1, <3>1, <3>2, <3>3, <3>4
  <2> QED BY <1>0, <1>1, <2>1, <2>2, <2>3, <2>4, <2>5
<1> QED BY <1>0, <1>2, <1>3

(* 1/a + 1/b > 1/x + 1/y if a < x and b < y. *)
LEMMA SmallerDenominators ==
    ASSUME NEW a \in Nat \ {0}, NEW b \in Nat \ {0}, NEW x \in Nat, NEW y \in Nat,
           a < x, b < y
    PROVE  (a + b) * (x * y) > (x + y) * (a * b)
<1> DEFINE e == x - a
           f == y - b
<1>1. e \in Nat \ {0} /\ f \in Nat \ {0} /\ x = a + e /\ y = b + f
  OBVIOUS
<1> HIDE DEF e, f
<1>2. (a + b) * (x * y) = a * x * y + b * x * y
  OBVIOUS
<1>3. (x + y) * (a * b) = a * x * b + b * a * y
  OBVIOUS
<1>4. a * x * y = a * x * b + a * x * f
  BY <1>1
<1>5. b * x * y = b * a * y + b * e * y
  BY <1>1
<1>6. a * x \in Nat \ {0} /\ b * e \in Nat \ {0}
  BY <1>1
<1>7. a * x * f > 0 /\ b * e * y > 0
  BY <1>1, <1>6
<1> QED BY <1>2, <1>3, <1>4, <1>5, <1>7

-----------------------------------------------------------------------------
(* Ranks and scores of two rankings. *)

(* Distinct chunks in a list of at most CandidatesPerList. *)
ListInv ==
    /\ \E n \in 0 .. CandidatesPerList : vector \in Injection(1 .. n, Chunks)
    /\ \E n \in 0 .. CandidatesPerList : fts \in Injection(1 .. n, Chunks)

LEMMA LimitsAreNumbers ==
    k \in Nat /\ CandidatesPerList \in Nat /\ FusedLimit \in Nat /\ topK \in Nat
    /\ CandidatesPerList <= k + 1
BY SearchAssumption

(* A found chunk has a rank, and that is its place. *)
LEMMA RankIsPlace ==
    ASSUME NEW n \in 0 .. CandidatesPerList, NEW list \in Injection(1 .. n, Chunks),
           NEW c \in Range(list)
    PROVE  Rank(list, c) \in 1 .. n /\ list[Rank(list, c)] = c
BY LimitsAreNumbers DEF Injection, Range, Rank

(* The two terms of a score. *)
LEMMA ContributionValue ==
    ASSUME NEW n \in 0 .. CandidatesPerList, NEW list \in Injection(1 .. n, Chunks), NEW c
    PROVE  \/ /\ c \in Range(list)
              /\ \E r \in 1 .. n : r = Rank(list, c) /\ Contribution(list, c) = <<1, k + r>>
           \/ c \notin Range(list) /\ Contribution(list, c) = <<0, 1>>
BY RankIsPlace DEF Contribution

(* A chunk in both lists has a higher score than a chunk in one of them. *)
LEMMA BothExceedsOne ==
    ASSUME ListInv, NEW c \in InBoth, NEW d \in Found \ InBoth
    PROVE  Exceeds(Score(c), Score(d))
<1>1. PICK m \in 0 .. CandidatesPerList : vector \in Injection(1 .. m, Chunks)
  BY DEF ListInv
<1>2. PICK n \in 0 .. CandidatesPerList : fts \in Injection(1 .. n, Chunks)
  BY DEF ListInv
<1>3. PICK a \in 1 .. m : Contribution(vector, c) = <<1, k + a>>
  BY <1>1, ContributionValue DEF InBoth
<1>4. PICK b \in 1 .. n : Contribution(fts, c) = <<1, k + b>>
  BY <1>2, ContributionValue DEF InBoth
<1>5. Score(c) = <<(k + b) + (k + a), (k + a) * (k + b)>>
  BY <1>1, <1>2, <1>3, <1>4, LimitsAreNumbers DEF Score, Plus
<1>6. PICK e \in 1 .. CandidatesPerList : Score(d) = <<1, k + e>>
  <2>1. CASE d \in Range(vector) /\ d \notin Range(fts)
    <3>1. PICK e \in 1 .. m : Contribution(vector, d) = <<1, k + e>>
      BY <1>1, <2>1, ContributionValue
    <3>2. Contribution(fts, d) = <<0, 1>>
      BY <2>1 DEF Contribution
    <3>3. Score(d) = <<1, k + e>> /\ e \in 1 .. CandidatesPerList
      BY <1>1, <3>1, <3>2, LimitsAreNumbers DEF Score, Plus
    <3> QED BY <3>3
  <2>2. CASE d \in Range(fts) /\ d \notin Range(vector)
    <3>1. PICK e \in 1 .. n : Contribution(fts, d) = <<1, k + e>>
      BY <1>2, <2>2, ContributionValue
    <3>2. Contribution(vector, d) = <<0, 1>>
      BY <2>2 DEF Contribution
    <3>3. Score(d) = <<1, k + e>> /\ e \in 1 .. CandidatesPerList
      BY <1>2, <3>1, <3>2, LimitsAreNumbers DEF Score, Plus
    <3> QED BY <3>3
  <2> QED BY <2>1, <2>2 DEF Found, InBoth
<1> DEFINE x == k + a
           y == k + b
           z == k + e
<1>7. /\ x \in Nat /\ y \in Nat /\ z \in Nat
      /\ k < x /\ x <= 2 * k + 1 /\ k < y /\ y <= 2 * k + 1 /\ k < z
  BY <1>1, <1>2, LimitsAreNumbers
<1>8. (x + y) * z > x * y
  BY <1>7, TwoBeatOne
<1>9. Score(c) = <<y + x, x * y>> /\ Score(d) = <<1, z>>
  BY <1>5, <1>6
<1> HIDE DEF x, y, z
<1>10. (y + x) * z > 1 * (x * y)
  BY <1>7, <1>8
<1> QED BY <1>9, <1>10 DEF Exceeds

(* A chunk that is ahead of d in every list that has d has a higher score. *)
LEMMA DominationExceeds ==
    ASSUME ListInv, NEW c, NEW d \in Found, Dominates(c, d)
    PROVE  Exceeds(Score(c), Score(d))
<1>1. PICK m \in 0 .. CandidatesPerList : vector \in Injection(1 .. m, Chunks)
  BY DEF ListInv
<1>2. PICK n \in 0 .. CandidatesPerList : fts \in Injection(1 .. n, Chunks)
  BY DEF ListInv
<1> USE LimitsAreNumbers
<1>3. ASSUME d \in Range(vector)
      PROVE  \E i, j \in 1 .. m : /\ i < j
                                  /\ Contribution(vector, c) = <<1, k + i>>
                                  /\ Contribution(vector, d) = <<1, k + j>>
  BY <1>1, <1>3, ContributionValue DEF Dominates
<1>4. ASSUME d \in Range(fts)
      PROVE  \E i, j \in 1 .. n : /\ i < j
                                  /\ Contribution(fts, c) = <<1, k + i>>
                                  /\ Contribution(fts, d) = <<1, k + j>>
  BY <1>2, <1>4, ContributionValue DEF Dominates
<1>5. CASE d \in Range(vector) /\ d \in Range(fts)
  <2>1. PICK a \in Nat \ {0}, x \in Nat : /\ a < x
                                          /\ Contribution(vector, c) = <<1, a>>
                                          /\ Contribution(vector, d) = <<1, x>>
    <3>1. PICK i, j \in 1 .. m : /\ i < j
                                 /\ Contribution(vector, c) = <<1, k + i>>
                                 /\ Contribution(vector, d) = <<1, k + j>>
      BY <1>3, <1>5
    <3>2. k + i \in Nat \ {0} /\ k + j \in Nat /\ k + i < k + j
      BY <3>1
    <3> QED BY <3>1, <3>2
  <2>2. PICK b \in Nat \ {0}, y \in Nat : /\ b < y
                                          /\ Contribution(fts, c) = <<1, b>>
                                          /\ Contribution(fts, d) = <<1, y>>
    <3>1. PICK i, j \in 1 .. n : /\ i < j
                                 /\ Contribution(fts, c) = <<1, k + i>>
                                 /\ Contribution(fts, d) = <<1, k + j>>
      BY <1>4, <1>5
    <3>2. k + i \in Nat \ {0} /\ k + j \in Nat /\ k + i < k + j
      BY <3>1
    <3> QED BY <3>1, <3>2
  <2>3. Score(c) = <<b + a, a * b>> /\ Score(d) = <<y + x, x * y>>
    BY <2>1, <2>2 DEF Score, Plus
  <2>4. (b + a) * (x * y) > (y + x) * (a * b)
    BY <2>1, <2>2, SmallerDenominators
  <2> QED BY <2>3, <2>4 DEF Exceeds
<1>6. ASSUME NEW list \in {vector, fts}, NEW other \in {vector, fts},
             NEW a \in Nat \ {0}, NEW x \in Nat, a < x,
             Contribution(list, c) = <<1, a>>, Contribution(list, d) = <<1, x>>,
             Contribution(other, d) = <<0, 1>>,
             {list, other} = {vector, fts}
      PROVE  Exceeds(Score(c), Score(d))
  <2>1. Score(d) = <<1, x>>
    BY <1>6 DEF Score, Plus
  <2>2. CASE Contribution(other, c) = <<0, 1>>
    <3>1. Score(c) = <<1, a>>
      BY <1>6, <2>2 DEF Score, Plus
    <3> QED BY <1>6, <2>1, <3>1 DEF Exceeds
  <2>3. ASSUME NEW b \in Nat \ {0}, Contribution(other, c) = <<1, b>>
        PROVE  Exceeds(Score(c), Score(d))
    <3>1. Score(c) = <<a + b, a * b>>
      BY <1>6, <2>3 DEF Score, Plus
    <3>2. (a + b) * x > 1 * (a * b)
      <4> DEFINE e == x - a
      <4>1. e \in Nat \ {0} /\ x = a + e
        BY <1>6
      <4> HIDE DEF e
      <4>2. (a + b) * x = a * x + 1 * (a * b) + b * e
        BY <1>6, <2>3, <4>1
      <4>3. a * x \in Nat \ {0} /\ b * e \in Nat \ {0} /\ a * b \in Nat
        BY <1>6, <2>3, <4>1
      <4> QED BY <4>2, <4>3
    <3> QED BY <2>1, <3>1, <3>2 DEF Exceeds
  <2>4. \/ Contribution(other, c) = <<0, 1>>
        \/ \E b \in Nat \ {0} : Contribution(other, c) = <<1, b>>
    <3>1. \/ Contribution(vector, c) = <<0, 1>>
          \/ \E r \in 1 .. m : Contribution(vector, c) = <<1, k + r>>
      BY <1>1, ContributionValue
    <3>2. \/ Contribution(fts, c) = <<0, 1>>
          \/ \E r \in 1 .. n : Contribution(fts, c) = <<1, k + r>>
      BY <1>2, ContributionValue
    <3>3. \A r \in 1 .. CandidatesPerList : k + r \in Nat \ {0}
      OBVIOUS
    <3>4. \A r \in (1 .. m) \union (1 .. n) : r \in 1 .. CandidatesPerList
      OBVIOUS
    <3> QED BY <3>1, <3>2, <3>3, <3>4
  <2> QED BY <2>2, <2>3, <2>4
<1>7. CASE d \in Range(vector) /\ d \notin Range(fts)
  <2>1. PICK i, j \in 1 .. m : /\ i < j
                               /\ Contribution(vector, c) = <<1, k + i>>
                               /\ Contribution(vector, d) = <<1, k + j>>
    BY <1>3, <1>7
  <2>2. k + i \in Nat \ {0} /\ k + j \in Nat /\ k + i < k + j
    BY <2>1
  <2>3. Contribution(fts, d) = <<0, 1>>
    BY <1>7 DEF Contribution
  <2> QED BY <1>6, <2>1, <2>2, <2>3
<1>8. CASE d \in Range(fts) /\ d \notin Range(vector)
  <2>1. PICK i, j \in 1 .. n : /\ i < j
                               /\ Contribution(fts, c) = <<1, k + i>>
                               /\ Contribution(fts, d) = <<1, k + j>>
    BY <1>4, <1>8
  <2>2. k + i \in Nat \ {0} /\ k + j \in Nat /\ k + i < k + j
    BY <2>1
  <2>3. Contribution(vector, d) = <<0, 1>>
    BY <1>8 DEF Contribution
  <2> QED BY <1>6, <2>1, <2>2, <2>3
<1> QED BY <1>5, <1>7, <1>8 DEF Found

-----------------------------------------------------------------------------
(* Lists: rankings, their fusion and its cut. *)

(* An injection of 1 .. n is a sequence without repetition, of length n. *)
LEMMA RankingIsSequence ==
    ASSUME NEW n \in Nat, NEW S, NEW list \in Injection(1 .. n, S)
    PROVE  list \in Seq(S) /\ Len(list) = n /\ IsInjective(list) /\ DOMAIN list = 1 .. n
<1>1. list \in [1 .. n -> S] /\ IsInjective(list)
  BY DEF Injection
<1>2. list \in Seq(S)
  BY <1>1, SeqDef
<1> QED BY <1>1, <1>2, LenProperties

(* What is found is a set of chunks that can be counted. *)
LEMMA FoundFinite ==
    ASSUME ListInv
    PROVE  Found \subseteq Chunks /\ Cardinality(Found) \in Nat
<1>1. Found \subseteq Chunks
  BY DEF ListInv, Injection, Found, Range
<1> QED BY <1>1, SearchAssumption, FS_Subset, FS_CardinalityType

(* What Fuse computes. *)
FusedInv ==
    search = "rerank" =>
        \E s \in Fusions : fused = [i \in 1 .. Least(FusedLimit, Len(s)) |-> s[i]]

(* The candidates are the best of a sorted enumeration of what was found. *)
LEMMA CandidatesAreBest ==
    ASSUME ListInv, FusedInv, search = "rerank"
    PROVE  \E s \in Bijection(1 .. Cardinality(Found), Found) :
              /\ Sorted(s)
              /\ DOMAIN s = 1 .. Cardinality(Found)
              /\ DOMAIN fused \subseteq DOMAIN s
              /\ \A i \in DOMAIN fused : fused[i] = s[i] /\ 1 .. i - 1 \subseteq DOMAIN fused
              /\ fused \in Seq(Chunks) /\ IsInjective(fused)
<1>1. PICK s \in Fusions : fused = [i \in 1 .. Least(FusedLimit, Len(s)) |-> s[i]]
  BY DEF FusedInv
<1>2. s \in Bijection(1 .. Cardinality(Found), Found) /\ Sorted(s)
  BY <1>1 DEF Fusions
<1>3. /\ s \in [1 .. Cardinality(Found) -> Found] /\ IsInjective(s)
      /\ Len(s) = Cardinality(Found) /\ DOMAIN s = 1 .. Cardinality(Found)
  BY <1>2, FoundFinite, RankingIsSequence DEF Bijection, Injection
<1>4. Least(FusedLimit, Len(s)) \in Nat /\ Least(FusedLimit, Len(s)) <= Cardinality(Found)
  BY <1>3, FoundFinite, LimitsAreNumbers DEF Least
<1> DEFINE n == Least(FusedLimit, Len(s))
<1> HIDE DEF n
<1>5. n \in Nat /\ n <= Cardinality(Found) /\ fused = [i \in 1 .. n |-> s[i]]
  BY <1>1, <1>4 DEF n
<1>6. fused \in [1 .. n -> Chunks] /\ IsInjective(fused)
  BY <1>3, <1>5, FoundFinite DEF IsInjective
<1>7. fused \in Seq(Chunks)
  BY <1>5, <1>6, SeqDef
<1>8. DOMAIN fused = 1 .. n /\ DOMAIN fused \subseteq DOMAIN s
  BY <1>3, <1>5, FoundFinite
<1>9. \A i \in DOMAIN fused : fused[i] = s[i] /\ 1 .. i - 1 \subseteq DOMAIN fused
  BY <1>5, <1>8
<1> QED BY <1>2, <1>3, <1>6, <1>7, <1>8, <1>9

(* A candidate with a lower score than c comes after c. *)
LEMMA BetterComesFirst ==
    ASSUME ListInv, FusedInv, search = "rerank", NEW c \in Found, NEW i \in DOMAIN fused,
           Exceeds(Score(c), Score(fused[i])), c # fused[i]
    PROVE  \E j \in 1 .. i - 1 : fused[j] = c
<1>1. PICK s \in Bijection(1 .. Cardinality(Found), Found) :
              /\ Sorted(s)
              /\ DOMAIN s = 1 .. Cardinality(Found)
              /\ DOMAIN fused \subseteq DOMAIN s
              /\ \A x \in DOMAIN fused : fused[x] = s[x] /\ 1 .. x - 1 \subseteq DOMAIN fused
              /\ fused \in Seq(Chunks) /\ IsInjective(fused)
  BY CandidatesAreBest
<1>2. PICK j \in 1 .. Cardinality(Found) : s[j] = c
  BY DEF Bijection, Surjection
<1>3. i \in 1 .. Cardinality(Found) /\ s[i] = fused[i]
  BY <1>1
<1>4. ~(i < j)
  BY <1>1, <1>2, <1>3 DEF Sorted
<1>5. j # i
  BY <1>2, <1>3
<1>6. j \in 1 .. i - 1
  BY <1>3, <1>4, <1>5, <1>2, FoundFinite
<1>7. fused[j] = s[j]
  BY <1>1, <1>6
<1> QED BY <1>2, <1>6, <1>7

(* What the fusion promises follows from the two facts about scores. *)
LEMMA FusionKeepsItsPromises ==
    ListInv /\ FusedInv => AgreementWins /\ DominationRespected
<1> SUFFICES ASSUME ListInv, FusedInv, search = "rerank"
             PROVE  AgreementWins /\ DominationRespected
  BY DEF AgreementWins, DominationRespected
<1>1. \A i \in DOMAIN fused : fused[i] \in Found
  BY CandidatesAreBest DEF Bijection, Injection
<1>2. AgreementWins
  <2> SUFFICES ASSUME NEW c \in InBoth, NEW i \in DOMAIN fused, fused[i] \notin InBoth
               PROVE  \E j \in 1 .. i - 1 : fused[j] = c
    BY DEF AgreementWins
  <2>1. c \in Found /\ fused[i] \in Found \ InBoth
    BY <1>1 DEF InBoth, Found
  <2> QED BY <2>1, BothExceedsOne, BetterComesFirst
<1>3. DominationRespected
  <2> SUFFICES ASSUME NEW c \in Found, NEW i \in DOMAIN fused, Dominates(c, fused[i])
               PROVE  \E j \in 1 .. i - 1 : fused[j] = c
    BY DEF DominationRespected
  <2>1. Exceeds(Score(c), Score(fused[i]))
    BY <1>1, DominationExceeds
  <2>2. c # fused[i]
    <3> SUFFICES ASSUME NEW list \in {vector, fts}, fused[i] \in Range(list), c = fused[i]
                 PROVE  FALSE
      BY <1>1 DEF Found
    <3>1. Rank(list, c) \in Nat
      BY RankIsPlace, LimitsAreNumbers DEF ListInv
    <3>2. Rank(list, c) < Rank(list, c)
      BY DEF Dominates
    <3> QED BY <3>1, <3>2
  <2> QED BY <2>1, <2>2, BetterComesFirst
<1> QED BY <1>2, <1>3

-----------------------------------------------------------------------------
(* The invariant. *)

(* A chunk is in a list, or cited, because its paper was ready. *)
SeenInv == \A c \in Range(vector) \union Range(fts) \union Range(fused)
                      \union Range(result) \union sources : PaperOf[c] \in wasReady

IInv == TypeOK /\ ListInv /\ FusedInv /\ SeenInv /\ UncitedOnlyIfStrict

LEMMA EmptyList ==
    /\ <<>> \in Seq(Chunks) /\ IsInjective(<<>>) /\ Range(<<>>) = {}
    /\ \E n \in 0 .. CandidatesPerList : <<>> \in Injection(1 .. n, Chunks)
<1>1. <<>> \in Seq(Chunks) /\ Len(<<>>) = 0
  BY EmptySeq
<1>2. DOMAIN <<>> = {}
  OBVIOUS
<1>3. IsInjective(<<>>) /\ Range(<<>>) = {}
  BY <1>2 DEF IsInjective, Range
<1>4. <<>> \in [1 .. 0 -> Chunks]
  BY <1>2
<1> QED BY <1>1, <1>3, <1>4, LimitsAreNumbers DEF Injection

LEMMA InitIInv == AnswerInit => IInv
<1> SUFFICES ASSUME AnswerInit PROVE IInv
  OBVIOUS
<1> USE DEF AnswerInit, Init
<1>1. TypeOK
  <2>1. SearchTypeOK
    BY EmptyList DEF SearchTypeOK
  <2>2. strict \in BOOLEAN /\ curriculum \in BOOLEAN
    OBVIOUS
  <2> QED BY <2>1, <2>2 DEF TypeOK, MaxAttempts
<1>2. ListInv
  BY EmptyList DEF ListInv
<1>3. SeenInv
  BY EmptyList DEF SeenInv
<1> QED BY <1>1, <1>2, <1>3 DEF IInv, FusedInv, UncitedOnlyIfStrict

(* A new ranking of searchable chunks is a list as the invariant wants it. *)
LEMMA NewRanking ==
    ASSUME NEW M \in SUBSET Searchable,
           NEW list \in Rankings(M, Least(CandidatesPerList, Cardinality(M)))
    PROVE  /\ list \in Seq(Chunks) /\ IsInjective(list)
           /\ \E n \in 0 .. CandidatesPerList : list \in Injection(1 .. n, Chunks)
           /\ \A c \in Range(list) : PaperOf[c] \in ready
<1> DEFINE n == Least(CandidatesPerList, Cardinality(M))
<1>1. M \subseteq Chunks /\ \A c \in M : PaperOf[c] \in ready
  BY DEF Searchable
<1>2. Cardinality(M) \in Nat
  BY <1>1, SearchAssumption, FS_Subset, FS_CardinalityType
<1>3. n \in 0 .. CandidatesPerList
  BY <1>2, LimitsAreNumbers DEF Least
<1> HIDE DEF n
<1>4. list \in Injection(1 .. n, M)
  BY DEF Rankings, n
<1>5. list \in Injection(1 .. n, Chunks)
  BY <1>1, <1>4 DEF Injection
<1>6. \A c \in Range(list) : c \in M
  BY <1>4 DEF Injection, Range
<1> QED BY <1>1, <1>3, <1>5, <1>6, RankingIsSequence

(* The search preserves the invariant. *)
LEMMA RetrieveStep == IInv /\ Retrieve /\ UNCHANGED chatVars => IInv'
<1> SUFFICES ASSUME IInv, Retrieve, UNCHANGED chatVars PROVE IInv'
  OBVIOUS
<1> USE DEF IInv, TypeOK, SearchTypeOK, lists, chatVars
<1>1. UncitedOnlyIfStrict'
  BY DEF UncitedOnlyIfStrict
<1>2. CASE CallFails \/ Embed
  <2>1. TypeOK' /\ ListInv' /\ FusedInv' /\ SeenInv'
    BY <1>2 DEF CallFails, Embed, Calls, ListInv, FusedInv, SeenInv
  <2> QED BY <1>1, <2>1
<1>3. CASE VectorSearch
  <2>1. /\ vector' \in Seq(Chunks) /\ IsInjective(vector')
        /\ \E n \in 0 .. CandidatesPerList : vector' \in Injection(1 .. n, Chunks)
        /\ \A c \in Range(vector') : PaperOf[c] \in wasReady
    BY <1>3, NewRanking DEF VectorSearch
  <2>2. TypeOK'
    BY <1>3, <2>1 DEF VectorSearch, Calls
  <2>3. ListInv' /\ FusedInv' /\ SeenInv'
    BY <1>3, <2>1 DEF VectorSearch, ListInv, FusedInv, SeenInv
  <2> QED BY <1>1, <2>2, <2>3
<1>4. CASE FullTextSearch
  <2>1. /\ fts' \in Seq(Chunks) /\ IsInjective(fts')
        /\ \E n \in 0 .. CandidatesPerList : fts' \in Injection(1 .. n, Chunks)
        /\ \A c \in Range(fts') : PaperOf[c] \in wasReady
    BY <1>4, NewRanking DEF FullTextSearch
  <2>2. TypeOK'
    BY <1>4, <2>1 DEF FullTextSearch, Calls
  <2>3. ListInv' /\ FusedInv' /\ SeenInv'
    BY <1>4, <2>1 DEF FullTextSearch, ListInv, FusedInv, SeenInv
  <2> QED BY <1>1, <2>2, <2>3
<1>5. CASE Fuse
  <2>1. ListInv'
    BY <1>5 DEF Fuse, ListInv
  <2>2. Fusions' = Fusions /\ Found' = Found
    BY <1>5 DEF Fuse, Fusions, Found, Sorted, Score, Contribution, Rank
  <2>3. FusedInv'
    BY <1>5, <2>2 DEF Fuse, FusedInv
  <2>4. /\ fused' \in Seq(Chunks) /\ IsInjective(fused')
        /\ \A c \in Range(fused') : c \in Found
    <3>1. PICK s \in Fusions : fused' = [i \in 1 .. Least(FusedLimit, Len(s)) |-> s[i]]
      BY <1>5 DEF Fuse
    <3>2. s \in Injection(1 .. Cardinality(Found), Found)
      BY <3>1 DEF Fusions, Bijection
    <3>3. s \in [1 .. Cardinality(Found) -> Found] /\ IsInjective(s) /\ Len(s) = Cardinality(Found)
      BY <3>2, FoundFinite, RankingIsSequence DEF Injection
    <3>4. PICK n \in Nat : n <= Cardinality(Found) /\ fused' = [i \in 1 .. n |-> s[i]]
      BY <3>1, <3>3, FoundFinite, LimitsAreNumbers DEF Least
    <3>5. fused' \in [1 .. n -> Found] /\ IsInjective(fused')
      <4>1. 1 .. n \subseteq 1 .. Cardinality(Found)
        BY <3>4, FoundFinite
      <4>2. fused' \in [1 .. n -> Found]
        BY <3>3, <3>4, <4>1
      <4>3. \A i, j \in 1 .. n : s[i] = s[j] => i = j
        BY <3>3, <4>1 DEF IsInjective
      <4> QED BY <3>4, <4>2, <4>3 DEF IsInjective
    <3>6. fused' \in Seq(Chunks)
      BY <3>5, FoundFinite, SeqDef
    <3> QED BY <3>5, <3>6 DEF Range
  <2>5. TypeOK'
    BY <1>5, <2>4 DEF Fuse
  <2>6. SeenInv'
    BY <1>5, <2>4 DEF Fuse, SeenInv, Found
  <2> QED BY <1>1, <2>1, <2>3, <2>5, <2>6
<1>6. CASE Rerank
  <2>1. \E r : /\ r \in Seq(Chunks) /\ IsInjective(r)
               /\ \A c \in Range(r) : c \in Range(fused)
               /\ \E l \in {"done", "failed"} : Respond(r, l)
    <3>1. CASE Respond(<<>>, "failed")
      BY <3>1, EmptyList
    <3>2. ASSUME NEW n \in 0 .. Least(topK, Len(fused)), NEW r \in Rankings(Range(fused), n),
                 Respond(r, "done")
          PROVE  /\ r \in Seq(Chunks) /\ IsInjective(r)
                 /\ \A c \in Range(r) : c \in Range(fused)
      <4>1. fused \in Seq(Chunks) /\ Range(fused) \subseteq Chunks
        BY DEF Range
      <4>2. n \in Nat
        BY <4>1, LenProperties, LimitsAreNumbers DEF Least
      <4>3. r \in Injection(1 .. n, Range(fused))
        BY <3>2 DEF Rankings
      <4>4. r \in Injection(1 .. n, Chunks) /\ \A c \in Range(r) : c \in Range(fused)
        BY <4>1, <4>3 DEF Injection, Range
      <4> QED BY <4>2, <4>4, RankingIsSequence
    <3> QED BY <1>6, <3>1, <3>2 DEF Rerank
  <2>2. PICK r, l : /\ r \in Seq(Chunks) /\ IsInjective(r)
                    /\ \A c \in Range(r) : c \in Range(fused)
                    /\ l \in {"done", "failed"} /\ Respond(r, l)
    BY <2>1
  <2>3. TypeOK'
    BY <2>2, EmptyList DEF Respond
  <2>4. ListInv' /\ FusedInv'
    BY <2>2, EmptyList DEF Respond, ListInv, FusedInv
  <2>5. SeenInv'
    BY <2>2, EmptyList DEF Respond, SeenInv
  <2> QED BY <1>1, <2>3, <2>4, <2>5
<1> QED BY <1>2, <1>3, <1>4, <1>5, <1>6 DEF Retrieve

(* The other steps leave the lists alone. *)
LEMMA ChatStep == IInv /\ Chat => IInv'
<1> SUFFICES ASSUME IInv, Chat PROVE IInv'
  OBVIOUS
<1> USE DEF IInv, searchVars, lists
<1>1. UNCHANGED searchVars
  BY DEF Chat, Ask, GeminiAnswers, TransientError, Backoff, PermanentError
<1>2. ListInv'
  BY <1>1 DEF ListInv
<1>3. Fusions' = Fusions
  BY <1>1 DEF Fusions, Found, Sorted, Score, Contribution, Rank
<1>4. FusedInv'
  BY <1>1, <1>3 DEF FusedInv
<1>5. SearchTypeOK'
  BY <1>1 DEF TypeOK, SearchTypeOK
<1>6. CASE Ask \/ Backoff \/ PermanentError
  <2>1. TypeOK'
    BY <1>5, <1>6 DEF TypeOK, Ask, Backoff, PermanentError
  <2>2. SeenInv' /\ UncitedOnlyIfStrict'
    BY <1>1, <1>6 DEF SeenInv, UncitedOnlyIfStrict, Ask, Backoff, PermanentError
  <2> QED BY <1>2, <1>4, <2>1, <2>2
<1>7. CASE TransientError
  <2>1. TypeOK'
    BY <1>5, <1>7 DEF TypeOK, TransientError, NextTry, MaxAttempts
  <2>2. SeenInv' /\ UncitedOnlyIfStrict'
    BY <1>1, <1>7 DEF SeenInv, UncitedOnlyIfStrict, TransientError
  <2> QED BY <1>2, <1>4, <2>1, <2>2
<1>8. CASE GeminiAnswers
  <2>1. PICK isCurriculum \in BOOLEAN, cited \in Citations :
          IF IsGrounded(isCurriculum, cited) \/ strict
          THEN /\ chat' = "answered"
               /\ curriculum' = isCurriculum
               /\ sources' = ResolveSources(cited)
               /\ UNCHANGED <<strict, tries>>
          ELSE /\ strict' = TRUE
               /\ tries' = 1
               /\ UNCHANGED <<chat, curriculum, sources>>
    BY <1>8 DEF GeminiAnswers
  <2>2. ResolveSources(cited) \subseteq Range(result)
    BY DEF ResolveSources, Range
  <2>3. Range(result) \subseteq Chunks
    BY DEF TypeOK, SearchTypeOK, Range
  <2>4. TypeOK'
    <3>1. strict' \in BOOLEAN /\ curriculum' \in BOOLEAN
      BY <2>1, Zenon DEF TypeOK
    <3>2. tries' \in 1 .. MaxAttempts /\ sources' \subseteq Chunks
      BY <2>1, <2>2, <2>3 DEF TypeOK, MaxAttempts
    <3>3. chat' \in {"search", "call", "backoff", "answered", "failed"}
      BY <2>1 DEF TypeOK
    <3> QED BY <1>5, <3>1, <3>2, <3>3 DEF TypeOK
  <2>5. SeenInv'
    BY <1>1, <2>1, <2>2 DEF SeenInv
  <2>6. UncitedOnlyIfStrict'
    BY <1>8, <2>1 DEF UncitedOnlyIfStrict, IsGrounded, GeminiAnswers
  <2> QED BY <1>2, <1>4, <2>4, <2>5, <2>6
<1> QED BY <1>6, <1>7, <1>8 DEF Chat

LEMMA PaperStep ==
    ASSUME IInv, NEW p \in Papers, PaperSettles(p), UNCHANGED chatVars
    PROVE  IInv'
<1> USE DEF IInv, PaperSettles, lists, chatVars
<1>1. TypeOK'
  BY DEF TypeOK, SearchTypeOK
<1>2. ListInv' /\ SeenInv' /\ UncitedOnlyIfStrict'
  BY DEF ListInv, SeenInv, UncitedOnlyIfStrict
<1>3. Fusions' = Fusions
  BY DEF Fusions, Found, Sorted, Score, Contribution, Rank
<1>4. FusedInv'
  BY <1>3 DEF FusedInv
<1> QED BY <1>1, <1>2, <1>4

(* IInv holds in every reachable state. *)
THEOREM Invariance == Spec => []IInv
<1>1. IInv /\ [Next]_vars => IInv'
  <2> SUFFICES ASSUME IInv, [Next]_vars PROVE IInv'
    OBVIOUS
  <2>1. CASE UNCHANGED vars
    <3> USE <2>1 DEF IInv, vars, searchVars, chatVars
    <3>1. TypeOK' /\ ListInv' /\ SeenInv' /\ UncitedOnlyIfStrict'
      BY DEF TypeOK, SearchTypeOK, ListInv, SeenInv, UncitedOnlyIfStrict
    <3>2. Fusions' = Fusions
      BY DEF Fusions, Found, Sorted, Score, Contribution, Rank
    <3> QED BY <3>1, <3>2 DEF FusedInv
  <2>2. CASE Next
    BY <2>2, RetrieveStep, ChatStep, PaperStep DEF Next, Handle
  <2> QED BY <2>1, <2>2
<1> QED BY <1>1, InitIInv, PTL DEF Spec

-----------------------------------------------------------------------------
(* The results. *)

(* Lists hold distinct chunks, the loop variable stays within its bound,    *)
(* and only papers that were seen ready are ready.                          *)
THEOREM TypeCorrect == Spec => []TypeOK
<1>1. IInv => TypeOK
  BY DEF IInv
<1> QED BY <1>1, Invariance, PTL

(* Fusion puts what both searches found first, for every k and every length *)
(* of the lists up to k + 1; the code's 60 and 30 are such values.          *)
THEOREM AgreementHolds == Spec => []AgreementWins
<1>1. IInv => AgreementWins
  BY FusionKeepsItsPromises DEF IInv
<1> QED BY <1>1, Invariance, PTL

(* Fusion and cut respect what the searches agree on. *)
THEOREM DominationHolds == Spec => []DominationRespected
<1>1. IInv => DominationRespected
  BY FusionKeepsItsPromises DEF IInv
<1> QED BY <1>1, Invariance, PTL

(* Only chunks of papers that were ready meanwhile are cited. *)
THEOREM CitationsHold == Spec => []CitationsWereSearchable
<1>1. IInv => CitationsWereSearchable
  BY DEF IInv, SeenInv, CitationsWereSearchable
<1> QED BY <1>1, Invariance, PTL

(* An uncited curriculum answer is the strict attempt's. *)
THEOREM StrictBeforeUncited == Spec => []UncitedOnlyIfStrict
<1>1. IInv => UncitedOnlyIfStrict
  BY DEF IInv
<1> QED BY <1>1, Invariance, PTL

-----------------------------------------------------------------------------
(* The refinement: the two awaits of the handler of a question. *)

(* Gemini is not asked before the search has answered. *)
OrderInv == chat # "search" => search = "done"

LEMMA OrderStep == OrderInv /\ [Next]_vars => OrderInv'
<1> SUFFICES ASSUME OrderInv, [Next]_vars PROVE OrderInv'
  OBVIOUS
<1> USE DEF OrderInv
<1>1. CASE Retrieve /\ UNCHANGED chatVars
  BY <1>1 DEF Retrieve, CallFails, Embed, VectorSearch, FullTextSearch, Fuse, Rerank,
              Respond, chatVars
<1>2. CASE Chat
  BY <1>2 DEF Chat, Ask, GeminiAnswers, TransientError, Backoff, PermanentError, searchVars
<1>3. CASE \E p \in Papers : PaperSettles(p) /\ UNCHANGED chatVars
  BY <1>3 DEF PaperSettles, chatVars
<1>4. CASE UNCHANGED vars
  BY <1>4 DEF vars, searchVars, chatVars
<1> QED BY <1>1, <1>2, <1>3, <1>4 DEF Next, Handle

(* Conversation's handler goes on if the call was answered; else it closes, *)
(* and its student, who still waits for this very question, is told.        *)
LEMMA CallAnswered ==
    ASSUME NEW l, Where # "error", l # "error", Where' = l
    PROVE  Turn!Proceed(req, TRUE, l)
<1>1. place' = [place EXCEPT ![req] = l]
  BY DEF place
<1>2. UNCHANGED waits
  BY DEF waits
<1> QED BY <1>1, <1>2 DEF Turn!Proceed, Turn!Goto, Turn!clientVars

LEMMA CallFailed ==
    ASSUME NEW l, Where # "error", Where' = "error"
    PROVE  Turn!Proceed(req, FALSE, l)
<1>1. place' = [place EXCEPT ![req] = "error"]
  BY DEF place
<1>2. waits' = [waits EXCEPT !["student"] = FALSE]
  BY DEF waits
<1>3. Turn!IsAwaited(req)
  BY DEF Turn!IsAwaited, Turn!Last, waits, req
<1>4. Turn!Close(req, "error")
  BY <1>1, <1>2, <1>3 DEF Turn!Close, Turn!Goto, req
<1> QED BY <1>4 DEF Turn!Proceed

(* The handler is in the search and leaves it, or stays. *)
LEMMA SearchStep ==
    ASSUME Where = "search", Where' \in {"search", "answer", "error"}
    PROVE  Turn!Search(req) \/ UNCHANGED <<place, waits>>
<1>1. Turn!At(req, "search")
  BY DEF Turn!At, place
<1>2. CASE Where' = "search"
  BY <1>2 DEF place, waits
<1>3. CASE Where' = "answer"
  <2>1. Turn!Proceed(req, TRUE, "answer")
    BY <1>3, CallAnswered
  <2> QED BY <1>1, <2>1 DEF Turn!Search
<1>4. CASE Where' = "error"
  <2>1. Turn!Proceed(req, FALSE, "answer")
    BY <1>4, CallFailed
  <2> QED BY <1>1, <2>1 DEF Turn!Search
<1> QED BY <1>2, <1>3, <1>4

(* The same for the answer. *)
LEMMA AnswerQuestionStep ==
    ASSUME Where = "answer", Where' \in {"answer", "question", "error"}
    PROVE  Turn!AnswerQuestion(req) \/ UNCHANGED <<place, waits>>
<1>1. Turn!At(req, "answer")
  BY DEF Turn!At, place
<1>2. CASE Where' = "answer"
  BY <1>2 DEF place, waits
<1>3. CASE Where' = "question"
  <2>1. Turn!Proceed(req, TRUE, "question")
    BY <1>3, CallAnswered
  <2> QED BY <1>1, <2>1 DEF Turn!AnswerQuestion
<1>4. CASE Where' = "error"
  <2>1. Turn!Proceed(req, FALSE, "question")
    BY <1>4, CallFailed
  <2> QED BY <1>1, <2>1 DEF Turn!AnswerQuestion
<1> QED BY <1>2, <1>3, <1>4

LEMMA AnsweringStepRefines ==
    TypeOK /\ OrderInv /\ [Next]_vars =>
        [Turn!Search(req) \/ Turn!AnswerQuestion(req)]_<<place, waits>>
<1> SUFFICES ASSUME TypeOK, OrderInv, [Next]_vars
             PROVE  \/ Turn!Search(req) \/ Turn!AnswerQuestion(req)
                    \/ UNCHANGED <<place, waits>>
  OBVIOUS
<1>1. CASE Retrieve /\ UNCHANGED chatVars
  <2>1. search \in {"retrieve", "rerank"} /\ search' \in {"retrieve", "rerank", "done", "failed"}
    BY <1>1 DEF Retrieve, CallFails, Embed, VectorSearch, FullTextSearch, Fuse, Rerank, Respond
  <2>2. chat = "search" /\ chat' = "search"
    BY <1>1, <2>1 DEF OrderInv, chatVars
  <2>3. Where = "search" /\ Where' \in {"search", "answer", "error"}
    BY <2>1, <2>2 DEF Where
  <2> QED BY <2>3, SearchStep
<1>2. CASE Chat
  <2>1. search = "done" /\ search' = "done" /\ chat \in {"search", "call", "backoff"}
    BY <1>2 DEF Chat, Ask, GeminiAnswers, TransientError, Backoff, PermanentError,
                OrderInv, searchVars
  <2>2. chat' \in {"call", "backoff", "answered", "failed"}
    BY <1>2 DEF Chat, Ask, GeminiAnswers, TransientError, Backoff, PermanentError
  <2>3. Where = "answer" /\ Where' \in {"answer", "question", "error"}
    BY <2>1, <2>2 DEF Where
  <2> QED BY <2>3, AnswerQuestionStep
<1>3. CASE (\E p \in Papers : PaperSettles(p) /\ UNCHANGED chatVars) \/ UNCHANGED vars
  <2>1. Where' = Where
    BY <1>3 DEF PaperSettles, chatVars, vars, searchVars, Where
  <2> QED BY <2>1 DEF place, waits
<1> QED BY <1>1, <1>2, <1>3 DEF Next, Handle

(* Retrieval and grounded answering, with all their calls, retries and     *)
(* timeouts, are the two awaits that Conversation has of them.             *)
THEOREM AnsweringImplementsTurn == Spec => ImplementsAnswering
<1>1. AnswerInit => Turn!At(req, "search") /\ OrderInv
  BY DEF AnswerInit, Init, Turn!At, place, Where, OrderInv
<1>2. TypeOK /\ OrderInv /\ [Next]_vars =>
          [Turn!Search(req) \/ Turn!AnswerQuestion(req)]_<<place, waits>>
  BY AnsweringStepRefines
<1> QED BY <1>1, <1>2, OrderStep, TypeCorrect, PTL DEF Spec, ImplementsAnswering

-----------------------------------------------------------------------------
(* The handler comes to an end. *)

LEMMA LeftIsNumber ==
    TypeOK => /\ GenerationsLeft \in Int /\ 1 <= GenerationsLeft /\ GenerationsLeft <= 6
              /\ SearchLeft \in Int /\ 0 <= SearchLeft /\ SearchLeft <= 5
BY DEF TypeOK, GenerationsLeft, SearchLeft, Pending, MaxAttempts

(* Arithmetic that the solver does not see through the definitions. *)
LEMMA SumGrows ==
    ASSUME NEW a \in Int, NEW b \in Int, NEW g \in Int, a + 1 <= b
    PROVE  a + 2 * g + 1 < b + 2 * g + 1
OBVIOUS

LEMMA TwiceGrows ==
    ASSUME NEW a \in Int, NEW b \in Int, a + 1 <= b
    PROVE  2 * a \in Int /\ 2 * b \in Int /\ 2 * a + 2 <= 2 * b
OBVIOUS

LEMMA RetrieveProgress ==
    TypeOK /\ OrderInv /\ Retrieve /\ UNCHANGED chatVars => StepsLeft' < StepsLeft
<1> SUFFICES ASSUME TypeOK, OrderInv, Retrieve, UNCHANGED chatVars
             PROVE  StepsLeft' < StepsLeft
  OBVIOUS
<1>1. chat = "search" /\ chat' = "search" /\ search # "failed"
  BY DEF Retrieve, CallFails, Embed, VectorSearch, FullTextSearch, Fuse, Rerank, OrderInv,
         chatVars
<1>2. /\ GenerationsLeft' = GenerationsLeft
      /\ GenerationsLeft \in Int /\ 1 <= GenerationsLeft
      /\ SearchLeft \in Int /\ 0 <= SearchLeft
  BY LeftIsNumber DEF chatVars, GenerationsLeft
<1>3. search' = "failed" \/ SearchLeft' + 1 <= SearchLeft
  <2>1. CASE CallFails
    BY <2>1 DEF CallFails
  <2>2. CASE Embed \/ VectorSearch \/ FullTextSearch
    BY <2>2 DEF Embed, VectorSearch, FullTextSearch, SearchLeft, Pending
  <2>3. CASE Fuse
    BY <2>3 DEF Fuse, SearchLeft, Pending
  <2>4. CASE Rerank
    BY <2>4 DEF Rerank, Respond, SearchLeft
  <2> QED BY <2>1, <2>2, <2>3, <2>4 DEF Retrieve
<1>4. SearchLeft' \in Int
  BY DEF SearchLeft, Pending
<1>5. CASE search' = "failed"
  BY <1>1, <1>2, <1>5 DEF StepsLeft
<1>6. CASE search' # "failed"
  <2>1. StepsLeft = SearchLeft + 2 * GenerationsLeft + 1
    BY <1>1, <1>2 DEF StepsLeft
  <2>2. StepsLeft' = SearchLeft' + 2 * GenerationsLeft + 1
    BY <1>1, <1>2, <1>6 DEF StepsLeft
  <2>3. SearchLeft' + 2 * GenerationsLeft + 1 < SearchLeft + 2 * GenerationsLeft + 1
    BY <1>2, <1>3, <1>4, <1>6, SumGrows
  <2> QED BY <2>1, <2>2, <2>3
<1> QED BY <1>5, <1>6

LEMMA ChatProgress == TypeOK /\ OrderInv /\ Chat => StepsLeft' < StepsLeft
<1> SUFFICES ASSUME TypeOK, OrderInv, Chat PROVE StepsLeft' < StepsLeft
  OBVIOUS
<1>1. search = "done" /\ search' = "done" /\ SearchLeft = 0 /\ SearchLeft' = 0
  BY DEF Chat, Ask, GeminiAnswers, TransientError, Backoff, PermanentError, OrderInv,
         searchVars, SearchLeft
<1>2. GenerationsLeft \in Int /\ 1 <= GenerationsLeft
  BY LeftIsNumber
<1>3. CASE Ask \/ Backoff
  <2>1. GenerationsLeft' = GenerationsLeft
    BY <1>3 DEF Ask, Backoff, GenerationsLeft
  <2> QED BY <1>1, <1>2, <1>3, <2>1 DEF Ask, Backoff, StepsLeft
<1>4. CASE chat = "call" /\ chat' \in {"answered", "failed"}
  BY <1>1, <1>2, <1>4 DEF StepsLeft
<1>5. CASE GeminiAnswers /\ chat' = "call"
  <2>1. strict = FALSE /\ strict' = TRUE /\ tries' = 1 /\ chat = "call"
    BY <1>5 DEF GeminiAnswers, TypeOK
  <2>2. GenerationsLeft' + 1 <= GenerationsLeft /\ GenerationsLeft' \in Int
    BY <2>1 DEF TypeOK, GenerationsLeft, MaxAttempts
  <2>3. /\ 2 * GenerationsLeft \in Int /\ 2 * GenerationsLeft' \in Int
        /\ 2 * GenerationsLeft' + 2 <= 2 * GenerationsLeft
    BY <1>2, <2>2, TwiceGrows
  <2>4. StepsLeft = 2 * GenerationsLeft /\ StepsLeft' = 2 * GenerationsLeft'
    BY <1>1, <1>2, <1>5, <2>1, <2>2 DEF StepsLeft
  <2> QED BY <2>3, <2>4
<1>6. CASE TransientError /\ chat' = "backoff"
  <2>1. chat = "call" /\ tries' = tries + 1 /\ strict' = strict
    BY <1>6 DEF TransientError, NextTry
  <2>2. GenerationsLeft' = GenerationsLeft - 1
    BY <2>1 DEF TypeOK, GenerationsLeft, MaxAttempts
  <2> QED BY <1>1, <1>2, <1>6, <2>1, <2>2 DEF StepsLeft
<1> QED BY <1>3, <1>4, <1>5, <1>6
        DEF Chat, GeminiAnswers, TransientError, PermanentError

(* At most 18 steps - four of the search's, six calls of Gemini, sleeps    *)
(* between them - lead from any question to its answer or failure, and     *)
(* nothing that happens meanwhile lengthens the way.                       *)
THEOREM AnswersWearOut == Spec => [](StepsLeft \in 0 .. 18) /\ EveryStepIsProgress
<1> DEFINE A == StepsLeft' <= StepsLeft /\ (Handle => StepsLeft' < StepsLeft)
<1>1. TypeOK => StepsLeft \in 0 .. 18
  BY LeftIsNumber DEF StepsLeft
<1>2. (TypeOK => StepsLeft \in 0 .. 18)'
  BY <1>1, PTL
<1>3. TypeOK /\ TypeOK' /\ OrderInv /\ [Next]_vars => A
  <2> SUFFICES ASSUME TypeOK, TypeOK', OrderInv, [Next]_vars PROVE A
    OBVIOUS
  <2>1. StepsLeft \in Int /\ StepsLeft' \in Int
    BY <1>1, <1>2
  <2>2. Handle => StepsLeft' < StepsLeft
    BY RetrieveProgress, ChatProgress DEF Handle
  <2>3. ~Handle => StepsLeft' = StepsLeft
    BY DEF Next, PaperSettles, vars, searchVars, chatVars, StepsLeft, SearchLeft, Pending,
           GenerationsLeft
  <2> QED BY <2>1, <2>2, <2>3
<1>4. AnswerInit => OrderInv
  BY DEF AnswerInit, OrderInv
<1> QED BY <1>1, <1>3, <1>4, OrderStep, TypeCorrect, PTL DEF Spec, EveryStepIsProgress
=============================================================================
