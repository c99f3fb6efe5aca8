---------------------------- MODULE FlashcardQuota ----------------------------
(***************************************************************************)
(* POST /flashcards/generate and the daily budget it draws from: a row of   *)
(* gemini_daily_usage per (day, feature), incremented before Gemini is      *)
(* called and decremented when the call fails.  The day is the database's   *)
(* current_date at each statement, so a request that waits for Gemini over  *)
(* midnight reserves on one day and gives back on another.                  *)
(***************************************************************************)
EXTENDS Integers, FiniteSets

CONSTANTS Requests,  \* requests to the endpoint, each made once
          Limit,     \* FLASHCARDS_DAILY_LIMIT
          MaxDay,    \* BOUND: days go from 0 to MaxDay
          Faults,    \* which of "crash", "db" can happen
          NoDay      \* no day

MaxAttempts == 3  \* RETRY_MAX_ATTEMPTS

ASSUME QuotaAssumption ==
    /\ IsFiniteSet(Requests)
    /\ Limit \in Nat \ {0}
    /\ MaxDay \in Nat
    /\ Faults \subseteq {"crash", "db"}
    /\ NoDay \notin Nat

Days == 0 .. MaxDay

VARIABLES day,       \* the database's current_date
          usage,     \* usage[d]: request_count of day d, 0 without a row
          pc,        \* pc[r]: where the handler of r is
          attempt,   \* attempt[r]: the loop variable of callWithRetry
          slot,      \* history: the day whose budget pays for r, or NoDay
          answered,  \* history: the day Gemini answered r, or NoDay
          misplaced  \* history: misplaced[d]: releases on d of older slots

vars == <<day, usage, pc, attempt, slot, answered, misplaced>>

Open == {"search", "reserve", "call", "backoff", "release"}
Closed == {"empty", "limited", "served", "error", "dberror", "cut"}

(* As everywhere: a statement answers, or is executed but its answer is    *)
(* lost, or fails.                                                         *)
Replies == IF "db" \in Faults THEN {"ok", "lost", "failed"} ELSE {"ok"}
Took(rep) == rep # "failed"

Init == /\ day = 0
        /\ usage = [d \in Days |-> 0]
        /\ pc = [r \in Requests |-> "search"]
        /\ attempt = [r \in Requests |-> 1]
        /\ slot = [r \in Requests |-> NoDay]
        /\ answered = [r \in Requests |-> NoDay]
        /\ misplaced = [d \in Days |-> 0]

At(r, l) == pc[r] = l
Goto(r, l) == pc' = [pc EXCEPT ![r] = l]

-----------------------------------------------------------------------------

(* The RAG search: chunks, none (answered no_content), or an error. *)
Search(r) == /\ At(r, "search")
             /\ \E l \in {"reserve", "empty", "error"} : Goto(r, l)
             /\ UNCHANGED <<day, usage, attempt, slot, answered, misplaced>>

(* Mutants of the WHERE of the upsert: off by one, in either direction. *)
HasRoomForOneMore(d) == usage[d] <= Limit
HasRoomLess(d) == usage[d] + 1 < Limit

HasRoom(d) == usage[d] < Limit

(* Mutant: the 429 is thrown inside the try block. *)
AfterRefusalRefunds == "release"

AfterRefusal == "limited"

(* One statement: check and increment cannot be interleaved. *)
TryReserveSlot(r) == \E rep \in Replies :
    /\ At(r, "reserve")
    /\ IF Took(rep) /\ HasRoom(day)
       THEN /\ usage' = [usage EXCEPT ![day] = usage[day] + 1]
            /\ slot' = [slot EXCEPT ![r] = day]
       ELSE UNCHANGED <<usage, slot>>
    /\ Goto(r, IF rep # "ok" THEN "dberror"
               ELSE IF HasRoom(day) THEN "call" ELSE AfterRefusal)
    /\ UNCHANGED <<day, attempt, answered, misplaced>>

(* Gemini answers with cards. *)
CardsGenerated(r) == /\ At(r, "call")
                     /\ Goto(r, "served")
                     /\ answered' = [answered EXCEPT ![r] = day]
                     /\ UNCHANGED <<day, usage, attempt, slot, misplaced>>

(* Mutant: the output is parsed after the try block. *)
NotJsonUncaught(r) == /\ At(r, "call")
                      /\ Goto(r, "error")
                      /\ answered' = [answered EXCEPT ![r] = day]
                      /\ UNCHANGED <<day, usage, attempt, slot, misplaced>>

(* Gemini answers with something that is not a JSON array. *)
NotJson(r) == /\ At(r, "call")
              /\ Goto(r, "release")
              /\ answered' = [answered EXCEPT ![r] = day]
              /\ UNCHANGED <<day, usage, attempt, slot, misplaced>>

(* Mutant: the attempts are not counted. *)
TransientUncounted(r) == /\ At(r, "call")
                         /\ Goto(r, "backoff")
                         /\ UNCHANGED <<day, usage, attempt, slot, answered, misplaced>>

(* A 503, or no answer within GENERATION_TIMEOUT_MS: retried after a sleep, *)
(* but not for ever.                                                        *)
TransientError(r) ==
    /\ At(r, "call")
    /\ IF attempt[r] = MaxAttempts
       THEN Goto(r, "release") /\ UNCHANGED attempt
       ELSE Goto(r, "backoff") /\ attempt' = [attempt EXCEPT ![r] = attempt[r] + 1]
    /\ UNCHANGED <<day, usage, slot, answered, misplaced>>

Backoff(r) == /\ At(r, "backoff")
              /\ Goto(r, "call")
              /\ UNCHANGED <<day, usage, attempt, slot, answered, misplaced>>

(* A 429 or any other error is not retried. *)
PermanentError(r) == /\ At(r, "call")
                     /\ Goto(r, "release")
                     /\ UNCHANGED <<day, usage, attempt, slot, answered, misplaced>>

(* greatest(request_count - 1, 0) *)
Decremented(n) == IF n > 0 THEN n - 1 ELSE 0

(* The catch block: give the slot back - on today's row - and rethrow.  A  *)
(* slot of an older day stays paid by that day.                            *)
ReleaseSlot(r) == \E rep \in Replies :
    /\ At(r, "release")
    /\ usage' = IF Took(rep) THEN [usage EXCEPT ![day] = Decremented(usage[day])] ELSE usage
    /\ slot' = IF Took(rep) /\ slot[r] = day THEN [slot EXCEPT ![r] = NoDay] ELSE slot
    /\ misplaced' = IF Took(rep) /\ slot[r] \in Days \ {day}
                    THEN [misplaced EXCEPT ![day] = misplaced[day] + 1]
                    ELSE misplaced
    /\ Goto(r, IF rep = "ok" THEN "error" ELSE "dberror")
    /\ UNCHANGED <<day, attempt, answered>>

Handle(r) == \/ Search(r) \/ TryReserveSlot(r)
             \/ CardsGenerated(r) \/ NotJson(r) \/ TransientError(r) \/ PermanentError(r)
             \/ Backoff(r) \/ ReleaseSlot(r)

(* The process that serves r dies: no catch block runs. *)
Cut(r) == /\ "crash" \in Faults
          /\ pc[r] \in Open
          /\ Goto(r, "cut")
          /\ UNCHANGED <<day, usage, attempt, slot, answered, misplaced>>

Midnight == /\ day < MaxDay
            /\ day' = day + 1
            /\ UNCHANGED <<usage, pc, attempt, slot, answered, misplaced>>

Next == Midnight \/ \E r \in Requests : Handle(r) \/ Cut(r)

Spec == Init /\ [][Next]_vars

(* Every await of the handler settles: the Gemini call is cut by its abort *)
(* timeout, the database and the RAG call by their clients.                *)
FairSpec == Spec /\ \A r \in Requests : WF_vars(Handle(r))

-----------------------------------------------------------------------------
(* Properties *)

TypeOK == /\ day \in Days
          /\ usage \in [Days -> Nat]
          /\ pc \in [Requests -> Open \union Closed]
          /\ attempt \in [Requests -> 1 .. MaxAttempts]
          /\ slot \in [Requests -> Days \union {NoDay}]
          /\ answered \in [Requests -> Days \union {NoDay}]
          /\ misplaced \in [Days -> Nat]

Holders(d) == {r \in Requests : slot[r] = d}
Served(d) == {r \in Requests : pc[r] = "served" /\ slot[r] = d}

(* Concurrent requests, retries, lost answers and crashes never make the   *)
(* counter drift from the slots that were handed out, except by the        *)
(* releases that landed on the wrong day.                                  *)
SlotsAccountedFor ==
    \A d \in Days : /\ usage[d] <= Limit
                    /\ usage[d] <= Cardinality(Holders(d))
                    /\ Cardinality(Holders(d)) <= usage[d] + misplaced[d]

(* What the budget is for: a day serves at most Limit requests, plus one   *)
(* for each request that reserved before midnight and failed after it.     *)
ServedWithinBudget ==
    \A d \in Days : Cardinality(Served(d)) <= Limit + misplaced[d]

(* A request whose Gemini call failed has not cost its day a slot (the     *)
(* comment on releaseSlot), unless the day was over when it failed.        *)
FailureIsRefunded ==
    \A r \in Requests : At(r, "error") => slot[r] # day

(* Nobody is told "today's limit is reached" while the day has a free slot. *)
RefusedOnlyWhenFull ==
    [][\A r \in Requests : ~At(r, "limited") /\ pc'[r] = "limited"
                              => Cardinality(Holders(day)) >= Limit]_vars

(* A bound on what the handler of r has yet to do: each attempt is a call  *)
(* and a sleep, and behind the last one the slot is given back.            *)
StepsLeft(r) ==
    LET tries == 2 * (MaxAttempts + 1 - attempt[r])
    IN  CASE pc[r] = "search" -> tries + 3
          [] pc[r] \in {"reserve", "backoff"} -> tries + 2
          [] pc[r] = "call" -> tries + 1
          [] pc[r] = "release" -> 1
          [] pc[r] \in Closed -> 0

(* No other request, no crash and no midnight makes a handler start over,  *)
(* and each of its own steps brings its answer nearer.                     *)
EveryStepIsProgress ==
    [][\A r \in Requests : /\ StepsLeft(r)' <= StepsLeft(r)
                           /\ Handle(r) => StepsLeft(r)' < StepsLeft(r)]_vars

(* Every request is answered, whatever Gemini and the database do. *)
EveryRequestEnds == \A r \in Requests : <>(pc[r] \in Closed)
=============================================================================
