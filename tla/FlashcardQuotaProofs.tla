-------------------------- MODULE FlashcardQuotaProofs --------------------------
(***************************************************************************)
(* Proofs about FlashcardQuota, for any finite set of requests, any limit, *)
(* any number of days and all faults.                                      *)
(***************************************************************************)
EXTENDS FlashcardQuota, FiniteSetTheorems, TLAPS

(* The handler's program counter tells whether it holds a slot; slots are  *)
(* of today or of an earlier day.                                          *)
SlotInv ==
    \A r \in Requests :
        /\ pc[r] \in {"search", "reserve"} => slot[r] = NoDay
        /\ pc[r] \in {"call", "backoff", "release"} => slot[r] \in Days
        /\ slot[r] \in Days => slot[r] <= day

IInv == TypeOK /\ SlotInv /\ SlotsAccountedFor /\ FailureIsRefunded

LEMMA NoDayIsNotADay == NoDay \notin Days
BY QuotaAssumption DEF Days

LEMMA HoldersFinite ==
    ASSUME NEW d PROVE IsFiniteSet(Holders(d)) /\ Cardinality(Holders(d)) \in Nat
<1>1. IsFiniteSet(Holders(d))
  BY QuotaAssumption, FS_Subset DEF Holders
<1> QED BY <1>1, FS_CardinalityType

LEMMA InitIInv == Init => IInv
<1> SUFFICES ASSUME Init PROVE IInv
  OBVIOUS
<1>1. NoDay \notin Days
  BY QuotaAssumption DEF Days
<1>2. TypeOK
  BY QuotaAssumption DEF Init, TypeOK, Days, Open, MaxAttempts
<1>3. SlotInv /\ FailureIsRefunded
  BY <1>1 DEF Init, SlotInv, FailureIsRefunded, At
<1>4. ASSUME NEW d \in Days PROVE Holders(d) = {}
  BY <1>1, <1>4 DEF Init, Holders
<1>5. SlotsAccountedFor
  BY <1>4, FS_EmptySet, QuotaAssumption DEF Init, SlotsAccountedFor
<1> QED BY <1>2, <1>3, <1>5 DEF IInv

(* The steps that move a request without touching the budget. *)
LEMMA QuietStep ==
    ASSUME IInv, NEW r \in Requests, NEW l \in Open \union Closed, Goto(r, l),
           attempt' \in [Requests -> 1 .. MaxAttempts],
           answered' \in [Requests -> Days \union {NoDay}],
           UNCHANGED <<day, usage, slot, misplaced>>,
           l \in {"search", "reserve"} => slot[r] = NoDay,
           l \in {"call", "backoff", "release"} => slot[r] \in Days,
           l = "error" => slot[r] # day
    PROVE  IInv'
<1> USE DEF IInv
<1>1. TypeOK'
  BY DEF TypeOK, Goto
<1>2. SlotInv' /\ FailureIsRefunded'
  BY DEF SlotInv, FailureIsRefunded, At, Goto, TypeOK
<1>3. SlotsAccountedFor'
  BY DEF SlotsAccountedFor, Holders
<1> QED BY <1>1, <1>2, <1>3

LEMMA ReserveStep == ASSUME IInv, NEW r \in Requests, TryReserveSlot(r) PROVE IInv'
<1> USE DEF IInv, Goto
<1>0. /\ TypeOK /\ day \in Days /\ pc[r] = "reserve" /\ slot[r] = NoDay /\ NoDay \notin Days
      /\ UNCHANGED <<day, attempt, answered, misplaced>>
  BY NoDayIsNotADay DEF TryReserveSlot, At, TypeOK, SlotInv
<1>1. pc' \in [Requests -> Open \union Closed]
  BY <1>0 DEF TryReserveSlot, TypeOK, Open, Closed, AfterRefusal
<1>2. CASE UNCHANGED <<usage, slot>> /\ pc'[r] # "call"
  <2>1. pc'[r] \in {"dberror", "limited"} /\ \A q \in Requests \ {r} : pc'[q] = pc[q]
    BY <1>0, <1>2 DEF TryReserveSlot, TypeOK, AfterRefusal
  <2>2. TypeOK'
    BY <1>0, <1>1, <1>2 DEF TypeOK
  <2>3. SlotInv' /\ FailureIsRefunded'
    BY <1>0, <1>2, <2>1 DEF SlotInv, FailureIsRefunded, At
  <2>4. SlotsAccountedFor'
    BY <1>0, <1>2 DEF SlotsAccountedFor, Holders
  <2> QED BY <2>2, <2>3, <2>4
<1>3. CASE /\ HasRoom(day)
           /\ usage' = [usage EXCEPT ![day] = usage[day] + 1]
           /\ slot' = [slot EXCEPT ![r] = day]
  <2>1. pc'[r] \in {"dberror", "call"} /\ \A q \in Requests \ {r} : pc'[q] = pc[q]
    BY <1>0, <1>3 DEF TryReserveSlot, TypeOK
  <2>2. TypeOK'
    BY <1>0, <1>1, <1>3 DEF TypeOK
  <2>3. SlotInv' /\ FailureIsRefunded'
    BY <1>0, <1>3, <2>1 DEF SlotInv, FailureIsRefunded, At, TypeOK, Days
  <2>4. ASSUME NEW d \in Days
        PROVE  /\ usage'[d] <= Limit
               /\ usage'[d] <= Cardinality(Holders(d)')
               /\ Cardinality(Holders(d)') <= usage'[d] + misplaced'[d]
    <3>1. CASE d = day
      <4>1. Holders(d)' = Holders(d) \union {r} /\ r \notin Holders(d)
        BY <1>0, <1>3, <3>1 DEF Holders, TypeOK
      <4>2. Cardinality(Holders(d)') = Cardinality(Holders(d)) + 1
        BY <4>1, HoldersFinite, FS_AddElement
      <4>3. usage[d] < Limit /\ usage'[d] = usage[d] + 1 /\ usage[d] \in Nat /\ misplaced[d] \in Nat
        BY <1>0, <1>3, <3>1 DEF HasRoom, TypeOK
      <4>4. usage[d] <= Cardinality(Holders(d)) /\ Cardinality(Holders(d)) <= usage[d] + misplaced[d]
        BY DEF SlotsAccountedFor
      <4> QED BY <1>0, <4>2, <4>3, <4>4, HoldersFinite, QuotaAssumption
    <3>2. CASE d # day
      <4>1. Holders(d)' = Holders(d)
        BY <1>0, <1>3, <3>2 DEF Holders, TypeOK
      <4> QED BY <1>0, <1>3, <3>2, <4>1 DEF SlotsAccountedFor, TypeOK
    <3> QED BY <3>1, <3>2
  <2>5. SlotsAccountedFor'
    BY <1>0, <2>4 DEF SlotsAccountedFor
  <2> QED BY <2>2, <2>3, <2>5
<1>4. \/ UNCHANGED <<usage, slot>> /\ pc'[r] # "call"
      \/ /\ HasRoom(day)
         /\ usage' = [usage EXCEPT ![day] = usage[day] + 1]
         /\ slot' = [slot EXCEPT ![r] = day]
  BY <1>0 DEF TryReserveSlot, TypeOK, AfterRefusal, Took
<1> QED BY <1>2, <1>3, <1>4

LEMMA ReleaseStep == ASSUME IInv, NEW r \in Requests, ReleaseSlot(r) PROVE IInv'
<1> USE DEF IInv, Goto
<1>0. /\ TypeOK /\ day \in Days /\ pc[r] = "release" /\ slot[r] \in Days /\ NoDay \notin Days
      /\ UNCHANGED <<day, attempt, answered>>
      /\ Decremented(usage[day]) \in Nat
  <2>1. usage[day] \in Nat => Decremented(usage[day]) \in Nat
    BY DEF Decremented
  <2> QED BY <2>1, NoDayIsNotADay DEF ReleaseSlot, At, TypeOK, SlotInv
<1>1. pc' \in [Requests -> Open \union Closed] /\ pc'[r] \in {"error", "dberror"}
      /\ \A q \in Requests \ {r} : pc'[q] = pc[q]
  BY <1>0 DEF ReleaseSlot, TypeOK, Open, Closed
<1>2. CASE UNCHANGED <<usage, slot, misplaced>> /\ pc'[r] = "dberror"
  <2>1. TypeOK' /\ SlotInv' /\ FailureIsRefunded'
    BY <1>0, <1>1, <1>2 DEF TypeOK, SlotInv, FailureIsRefunded, At
  <2>2. SlotsAccountedFor'
    BY <1>0, <1>2 DEF SlotsAccountedFor, Holders
  <2> QED BY <2>1, <2>2
<1>3. CASE /\ slot[r] = day
           /\ usage' = [usage EXCEPT ![day] = Decremented(usage[day])]
           /\ slot' = [slot EXCEPT ![r] = NoDay]
           /\ misplaced' = misplaced
  <2>1. TypeOK' /\ SlotInv' /\ FailureIsRefunded'
    BY <1>0, <1>1, <1>3 DEF TypeOK, SlotInv, FailureIsRefunded, At
  <2>2. ASSUME NEW d \in Days
        PROVE  /\ usage'[d] <= Limit
               /\ usage'[d] <= Cardinality(Holders(d)')
               /\ Cardinality(Holders(d)') <= usage'[d] + misplaced'[d]
    <3>0. /\ usage[d] <= Limit /\ usage[d] <= Cardinality(Holders(d))
          /\ Cardinality(Holders(d)) <= usage[d] + misplaced[d]
          /\ usage[d] \in Nat /\ misplaced[d] \in Nat
      BY <1>0 DEF SlotsAccountedFor, TypeOK
    <3>1. CASE d = day
      <4>1. Holders(d)' = Holders(d) \ {r} /\ r \in Holders(d)
        BY <1>0, <1>3, <3>1 DEF Holders, TypeOK
      <4>2. Cardinality(Holders(d)') = Cardinality(Holders(d)) - 1
        BY <4>1, HoldersFinite, FS_RemoveElement
      <4>3. usage'[d] = Decremented(usage[d])
        BY <1>0, <1>3, <3>1 DEF TypeOK
      <4>4. Cardinality(Holders(d)) \in Nat \ {0}
        BY <4>1, HoldersFinite, FS_EmptySet
      <4> QED BY <1>3, <3>0, <4>2, <4>3, <4>4, QuotaAssumption DEF Decremented
    <3>2. CASE d # day
      <4>1. Holders(d)' = Holders(d)
        BY <1>0, <1>3, <3>2 DEF Holders, TypeOK
      <4> QED BY <1>0, <1>3, <3>0, <3>2, <4>1 DEF TypeOK
    <3> QED BY <3>1, <3>2
  <2>3. SlotsAccountedFor'
    BY <1>0, <2>2 DEF SlotsAccountedFor
  <2> QED BY <2>1, <2>3
<1>4. CASE /\ slot[r] # day
           /\ usage' = [usage EXCEPT ![day] = Decremented(usage[day])]
           /\ slot' = slot
           /\ misplaced' = [misplaced EXCEPT ![day] = misplaced[day] + 1]
  <2>1. TypeOK' /\ SlotInv' /\ FailureIsRefunded'
    BY <1>0, <1>1, <1>4 DEF TypeOK, SlotInv, FailureIsRefunded, At
  <2>2. ASSUME NEW d \in Days
        PROVE  /\ usage'[d] <= Limit
               /\ usage'[d] <= Cardinality(Holders(d)')
               /\ Cardinality(Holders(d)') <= usage'[d] + misplaced'[d]
    <3>0. /\ usage[d] <= Limit /\ usage[d] <= Cardinality(Holders(d))
          /\ Cardinality(Holders(d)) <= usage[d] + misplaced[d]
          /\ usage[d] \in Nat /\ misplaced[d] \in Nat
      BY <1>0 DEF SlotsAccountedFor, TypeOK
    <3>1. Holders(d)' = Holders(d)
      BY <1>4 DEF Holders
    <3>2. CASE d = day
      BY <1>0, <1>4, <3>0, <3>1, <3>2, HoldersFinite, QuotaAssumption DEF Decremented, TypeOK
    <3>3. CASE d # day
      BY <1>0, <1>4, <3>0, <3>1, <3>3 DEF TypeOK
    <3> QED BY <3>2, <3>3
  <2>3. SlotsAccountedFor'
    BY <1>0, <2>2 DEF SlotsAccountedFor
  <2> QED BY <2>1, <2>3
<1> QED BY <1>0, <1>2, <1>3, <1>4 DEF ReleaseSlot, TypeOK, Took, Replies

LEMMA IInvStep == IInv /\ [Next]_vars => IInv'
<1> SUFFICES ASSUME IInv, [Next]_vars PROVE IInv'
  OBVIOUS
<1>0. TypeOK /\ NoDay \notin Days
  BY QuotaAssumption DEF IInv, Days
<1>1. CASE UNCHANGED vars
  BY <1>1 DEF vars, IInv, TypeOK, SlotInv, SlotsAccountedFor, FailureIsRefunded, Holders, At
<1>2. CASE Midnight
  <2>1. TypeOK'
    BY <1>0, <1>2, QuotaAssumption DEF Midnight, TypeOK, Days
  <2>2. SlotInv' /\ FailureIsRefunded'
    <3>1. /\ pc' = pc /\ slot' = slot /\ day' = day + 1
          /\ \A r \in Requests : slot[r] \in Days => slot[r] <= day
      BY <1>2 DEF Midnight, IInv, SlotInv
    <3>2. day \in Nat /\ \A d \in Days : d \in Nat
      BY <1>0 DEF TypeOK, Days
    <3>3. \A r \in Requests : slot[r] \in Days => slot[r] <= day' /\ slot[r] # day'
      BY <3>1, <3>2
    <3>4. \A r \in Requests : slot[r] # day'
      BY <1>0, <2>1, <3>3 DEF TypeOK
    <3> QED BY <3>1, <3>3, <3>4 DEF IInv, SlotInv, FailureIsRefunded, At
  <2>3. SlotsAccountedFor'
    BY <1>2 DEF Midnight, IInv, SlotsAccountedFor, Holders
  <2> QED BY <2>1, <2>2, <2>3 DEF IInv
<1>3. ASSUME NEW r \in Requests, Cut(r) PROVE IInv'
  <2>1. /\ "cut" \in Open \union Closed /\ Goto(r, "cut")
        /\ UNCHANGED <<day, usage, attempt, slot, answered, misplaced>>
    BY <1>3 DEF Cut, Open, Closed
  <2> QED BY <1>0, <2>1, QuietStep DEF TypeOK
<1>4. ASSUME NEW r \in Requests, Handle(r) PROVE IInv'
  <2> USE DEF At, TypeOK
  <2>0. /\ {"reserve", "empty", "error", "call", "served", "release", "backoff"}
              \subseteq Open \union Closed
        /\ day \in Days
        /\ pc[r] = "search" => slot[r] = NoDay
        /\ pc[r] \in {"call", "backoff", "release"} => slot[r] \in Days
    BY <1>0 DEF Open, Closed, IInv, SlotInv
  <2>1. CASE Search(r)
    BY <1>0, <2>0, <2>1, QuietStep DEF Search
  <2>2. CASE CardsGenerated(r) \/ NotJson(r)
    <3>1. answered' \in [Requests -> Days \union {NoDay}]
      BY <1>0, <2>0, <2>2 DEF CardsGenerated, NotJson
    <3> QED BY <1>0, <2>0, <2>2, <3>1, QuietStep DEF CardsGenerated, NotJson
  <2>3. CASE TransientError(r)
    <3>1. attempt' \in [Requests -> 1 .. MaxAttempts]
      BY <1>0, <2>3 DEF TransientError, MaxAttempts
    <3> QED BY <1>0, <2>0, <2>3, <3>1, QuietStep DEF TransientError
  <2>4. CASE PermanentError(r) \/ Backoff(r)
    BY <1>0, <2>0, <2>4, QuietStep DEF PermanentError, Backoff
  <2> QED BY <1>4, <2>1, <2>2, <2>3, <2>4, ReserveStep, ReleaseStep DEF Handle
<1> QED BY <1>1, <1>2, <1>3, <1>4 DEF Next

(* IInv holds in every reachable state: each handler knows whether it holds *)
(* a slot, and request_count knows how many there are.                     *)
THEOREM Invariance == Spec => []IInv
BY InitIInv, IInvStep, PTL DEF Spec

(* All variables have their types; request_count never goes below zero. *)
THEOREM TypeCorrect == Spec => []TypeOK
<1>1. IInv => TypeOK
  BY DEF IInv
<1> QED BY <1>1, Invariance, PTL

(* The counter of a day is the number of slots handed out on it and not    *)
(* given back, less at most the releases that belonged to another day.     *)
THEOREM SlotsAreAccountedFor == Spec => []SlotsAccountedFor
<1>1. IInv => SlotsAccountedFor
  BY DEF IInv
<1> QED BY <1>1, Invariance, PTL

(* No day serves more than Limit requests, plus one for each request that  *)
(* was released on it after reserving on an earlier day.                   *)
THEOREM BudgetHolds == Spec => []ServedWithinBudget
<1>1. IInv => ServedWithinBudget
  <2> SUFFICES ASSUME IInv, NEW d \in Days
               PROVE  Cardinality(Served(d)) <= Limit + misplaced[d]
    BY DEF ServedWithinBudget
  <2>1. Served(d) \subseteq Holders(d)
    BY DEF Served, Holders
  <2>2. /\ Cardinality(Served(d)) <= Cardinality(Holders(d))
        /\ Cardinality(Served(d)) \in Nat
    BY <2>1, HoldersFinite, FS_Subset, FS_CardinalityType
  <2>3. /\ Cardinality(Holders(d)) <= usage[d] + misplaced[d] /\ usage[d] <= Limit
        /\ usage[d] \in Nat /\ misplaced[d] \in Nat
    BY DEF IInv, SlotsAccountedFor, TypeOK
  <2> QED BY <2>2, <2>3, HoldersFinite, QuotaAssumption
<1> QED BY <1>1, Invariance, PTL

(* A failed Gemini call never costs the current day a slot. *)
THEOREM FailuresAreRefunded == Spec => []FailureIsRefunded
<1>1. IInv => FailureIsRefunded
  BY DEF IInv
<1> QED BY <1>1, Invariance, PTL

(* A 429 is given only when at least Limit slots of the day are in use. *)
THEOREM RefusalsAreJustified == Spec => RefusedOnlyWhenFull
<1> DEFINE A == \A r \in Requests : ~At(r, "limited") /\ pc'[r] = "limited"
                                       => Cardinality(Holders(day)) >= Limit
<1>1. ASSUME IInv, [Next]_vars PROVE [A]_vars
  <2> SUFFICES ASSUME NEW r \in Requests, ~At(r, "limited"), pc'[r] = "limited", Next
               PROVE  Cardinality(Holders(day)) >= Limit
    BY <1>1 DEF vars, At
  <2>0. TypeOK
    BY <1>1 DEF IInv
  <2>1. TryReserveSlot(r)
    <3>1. PICK q \in Requests : Handle(q) \/ Cut(q)
      BY DEF Next, Midnight, At
    <3>2. q = r
      BY <2>0, <3>1 DEF Handle, Search, TryReserveSlot, CardsGenerated, NotJson, TransientError,
                        PermanentError, Backoff, ReleaseSlot, Cut, Goto, At, TypeOK
    <3> QED BY <2>0, <3>1, <3>2 DEF Handle, Search, CardsGenerated, NotJson, TransientError,
                        PermanentError, Backoff, ReleaseSlot, Cut, Goto, At, TypeOK
  <2>2. ~HasRoom(day)
    BY <2>0, <2>1 DEF TryReserveSlot, Goto, TypeOK
  <2>3. usage[day] >= Limit /\ usage[day] <= Cardinality(Holders(day)) /\ usage[day] \in Nat
    BY <1>1, <2>0, <2>2, QuotaAssumption DEF HasRoom, IInv, SlotsAccountedFor, TypeOK
  <2> QED BY <2>3, HoldersFinite, QuotaAssumption
<1> QED BY <1>1, Invariance, PTL DEF Spec, RefusedOnlyWhenFull

-----------------------------------------------------------------------------
(* Every handler comes to an end. *)

LEMMA LeftIsNumber ==
    ASSUME TypeOK, NEW r \in Requests
    PROVE  /\ StepsLeft(r) \in 0 .. 9
           /\ pc[r] \in Open => StepsLeft(r) > 0
<1>1. attempt[r] \in 1 .. MaxAttempts /\ pc[r] \in Open \union Closed
  BY DEF TypeOK
<1> QED BY <1>1 DEF StepsLeft, MaxAttempts, Open, Closed

LEMMA HandleProgress ==
    ASSUME TypeOK, NEW r \in Requests, Handle(r)
    PROVE  StepsLeft(r)' < StepsLeft(r)
<1>0. /\ pc \in [Requests -> Open \union Closed] /\ attempt \in [Requests -> 1 .. MaxAttempts]
      /\ attempt[r] \in 1 .. MaxAttempts
  BY DEF TypeOK
<1> USE DEF Goto, At, StepsLeft, MaxAttempts, Closed
<1>1. CASE Search(r)
  BY <1>0, <1>1 DEF Search
<1>2. CASE TryReserveSlot(r)
  <2>1. pc[r] = "reserve" /\ pc'[r] \in {"dberror", "call", "limited"} /\ attempt'[r] = attempt[r]
    BY <1>0, <1>2 DEF TryReserveSlot, AfterRefusal
  <2> QED BY <1>0, <2>1
<1>3. CASE CardsGenerated(r) \/ NotJson(r) \/ PermanentError(r)
  <2>1. pc[r] = "call" /\ pc'[r] \in {"served", "release"} /\ attempt'[r] = attempt[r]
    BY <1>0, <1>3 DEF CardsGenerated, NotJson, PermanentError
  <2> QED BY <1>0, <2>1
<1>4. CASE TransientError(r)
  <2>1. /\ pc[r] = "call"
        /\ \/ pc'[r] = "release"
           \/ pc'[r] = "backoff" /\ attempt'[r] = attempt[r] + 1
    BY <1>0, <1>4 DEF TransientError
  <2> QED BY <1>0, <2>1
<1>5. CASE Backoff(r)
  <2>1. pc[r] = "backoff" /\ pc'[r] = "call" /\ attempt'[r] = attempt[r]
    BY <1>0, <1>5 DEF Backoff
  <2> QED BY <1>0, <2>1
<1>6. CASE ReleaseSlot(r)
  <2>1. pc[r] = "release" /\ pc'[r] \in {"error", "dberror"}
    BY <1>0, <1>6 DEF ReleaseSlot
  <2> QED BY <1>0, <2>1
<1> QED BY <1>1, <1>2, <1>3, <1>4, <1>5, <1>6 DEF Handle

(* A step touches the handler that makes it and no other. *)
LEMMA OthersStay ==
    ASSUME TypeOK, NEW q \in Requests, NEW r \in Requests, q # r, Handle(q) \/ Cut(q)
    PROVE  StepsLeft(r)' = StepsLeft(r)
<1>1. pc'[r] = pc[r] /\ attempt'[r] = attempt[r]
  BY DEF TypeOK, Handle, Cut, Search, TryReserveSlot, CardsGenerated, NotJson, TransientError,
         PermanentError, Backoff, ReleaseSlot, Goto
<1> QED BY <1>1 DEF StepsLeft

(* At most nine steps answer a request, whatever the other requests, the    *)
(* database, Gemini and the clock do meanwhile.                             *)
THEOREM RequestsWearOut ==
    Spec => [](\A r \in Requests : StepsLeft(r) \in 0 .. 9) /\ EveryStepIsProgress
<1> DEFINE A == \A r \in Requests : /\ StepsLeft(r)' <= StepsLeft(r)
                                    /\ Handle(r) => StepsLeft(r)' < StepsLeft(r)
<1>1. TypeOK => \A r \in Requests : StepsLeft(r) \in 0 .. 9
  BY LeftIsNumber
<1>2. (TypeOK => \A r \in Requests : StepsLeft(r) \in 0 .. 9)'
  BY <1>1, PTL
<1>3. TypeOK /\ TypeOK' /\ [Next]_vars => A
  <2> SUFFICES ASSUME TypeOK, TypeOK', [Next]_vars, NEW r \in Requests
               PROVE  /\ StepsLeft(r)' <= StepsLeft(r)
                      /\ Handle(r) => StepsLeft(r)' < StepsLeft(r)
    OBVIOUS
  <2>1. StepsLeft(r) \in Int /\ StepsLeft(r)' \in Int
    BY <1>1, <1>2
  <2>2. Handle(r) => StepsLeft(r)' < StepsLeft(r)
    BY HandleProgress
  <2>3. CASE \E q \in Requests \ {r} : Handle(q) \/ Cut(q)
    BY <2>1, <2>2, <2>3, OthersStay
  <2>4. CASE Cut(r)
    <3>1. StepsLeft(r)' = 0
      BY <2>4 DEF Cut, Goto, TypeOK, StepsLeft, Closed
    <3> QED BY <2>1, <2>2, <2>4, <3>1, LeftIsNumber DEF Cut
  <2>5. CASE Midnight \/ UNCHANGED vars
    <3>1. StepsLeft(r)' = StepsLeft(r)
      BY <2>5 DEF Midnight, vars, StepsLeft
    <3> QED BY <2>1, <2>2, <3>1
  <2> QED BY <2>1, <2>2, <2>3, <2>4, <2>5 DEF Next
<1> QED BY <1>1, <1>3, TypeCorrect, PTL DEF Spec, EveryStepIsProgress
=============================================================================
