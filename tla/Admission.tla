------------------------------ MODULE Admission ------------------------------
(***************************************************************************)
(* What stands between a request and its handler: DeviceAuthGuard before    *)
(* POST /voice/ask, AuthGuard before everything else, AdminGuard behind it  *)
(* for the admin routes, of which POST /admin/devices makes the keys that   *)
(* DeviceAuthGuard takes.  Meanwhile keys are revoked, tokens expire,       *)
(* signing keys are rotated and roles change, and every await of a guard    *)
(* may see more of it.                                                      *)
(*                                                                          *)
(* A device key is named after the request that made it, or is one of       *)
(* Installed.  A token is its subject and the key that signed it.           *)
(***************************************************************************)
CONSTANTS Voice,         \* requests of robots to POST /voice/ask
          App,           \* requests of students and admins
          Installed,     \* device keys that were given out before
          NoKey,         \* a device key that no row has the hash of
          Students,      \* subjects of tokens
          SigningKeys,   \* kids
          Trusted,       \* those of the project's own JWKS
          NoKid,         \* the kid of a token signed with the legacy secret
          LegacySecret,  \* a Boolean: is SUPABASE_JWT_SECRET configured?
          Faults         \* which of "crash", "db", "jwks" can happen

ASSUME AdmissionAssumption ==
    /\ Voice \intersect App = {}
    /\ App \intersect Installed = {}
    /\ NoKey \notin App \union Installed
    /\ Trusted \subseteq SigningKeys
    /\ NoKid \notin SigningKeys
    /\ LegacySecret \in BOOLEAN
    /\ Faults \subseteq {"crash", "db", "jwks"}

Requests == Voice \union App
Keys == Installed \union App
Tokens == [sub : Students, key : SigningKeys \union {NoKid}]

VARIABLES role,        \* role[s]: students.role, "none" without a row
          rows,        \* the keys whose hash is in devices
          revoked,     \* those with a revoked_at
          given,       \* the api_keys that an admin was shown
          expired,     \* tokens past their exp
          published,   \* the kids in the JWKS
          cached,      \* the kids in jwksClient's cache
          pc,          \* pc[r]: where the request is
          route,       \* route[r]: "voice", "student" or "admin" (the devices)
          credential,  \* credential[r]: the key or the token r carries
          candidates,  \* candidates[r]: the devices verifyKey has yet to compare
          principal,   \* principal[r]: request.principal.role
          good,        \* history: requests whose credential held when they arrived
          roles,       \* history: roles[r]: the roles its student had since then
          dark         \* history: requests whose JWKS could not be fetched

worldVars == <<role, rows, revoked, given, expired, published>>
requestVars == <<route, credential, good>>
vars == <<worldVars, cached, pc, requestVars, candidates, principal, roles, dark>>

Open == {"devices", "compare", "touch", "parse", "token", "verify", "student", "role",
         "hash", "insert"}
Closed == {"limited", "missing", "unreachable", "invalid", "forbidden", "badbody",
           "error", "served", "cut"}

(* Behind the guards. *)
Admitted == {"parse", "badbody", "hash", "insert", "error", "served"}

Replies == IF "db" \in Faults THEN {"ok", "lost", "failed"} ELSE {"ok"}
Took(rep) == rep # "failed"

Init == /\ role = [s \in Students |-> "none"]
        /\ rows = Installed
        /\ revoked = {}
        /\ given = Installed
        /\ expired = {}
        /\ published = Trusted
        /\ cached = {}
        /\ pc = [r \in Requests |-> "future"]
        /\ route = [r \in Requests |-> "voice"]
        /\ credential = [r \in Requests |-> NoKey]
        /\ candidates = [r \in Requests |-> {}]
        /\ principal = [r \in Requests |-> "nobody"]
        /\ good = {}
        /\ roles = [r \in Requests |-> {}]
        /\ dark = {}

At(r, l) == pc[r] = l
Goto(r, l) == pc' = [pc EXCEPT ![r] = l]

-----------------------------------------------------------------------------
(* Requests arrive. *)

(* ThrottlerGuard says 429, or the header is missing. *)
TurnAway(r) == /\ At(r, "future")
               /\ \E l \in {"limited", "missing"} : Goto(r, l)
               /\ UNCHANGED <<worldVars, cached, requestVars, candidates, principal, roles, dark>>

RobotCalls(r) == \E k \in given \union {NoKey} :
    /\ At(r, "future")
    /\ credential' = [credential EXCEPT ![r] = k]
    /\ good' = IF k \in revoked THEN good ELSE good \union {r}
    /\ Goto(r, "devices")
    /\ UNCHANGED <<worldVars, cached, route, candidates, principal, roles, dark>>

AppCalls(r) == \E rt \in {"student", "admin"}, t \in Tokens :
    /\ At(r, "future")
    /\ route' = [route EXCEPT ![r] = rt]
    /\ credential' = [credential EXCEPT ![r] = t]
    /\ good' = IF t \in expired THEN good ELSE good \union {r}
    /\ roles' = [roles EXCEPT ![r] = {role[t.sub]}]
    /\ Goto(r, "token")
    /\ UNCHANGED <<worldVars, cached, candidates, principal, dark>>

-----------------------------------------------------------------------------
(* DeviceAuthGuard: verifyKey compares the devices one by one, because a   *)
(* salted hash cannot be looked up.                                        *)

(* Mutant: the select without its where. *)
ActiveAlways == rows

Active == rows \ revoked

(* Mutants: the loop gives up at the first mismatch; it does not end. *)
AfterMismatchFirst(left) == "invalid"
AfterMismatchAgain(left) == "compare"

(* Where verifyKey is with these devices left to compare. *)
AfterMismatch(left) == IF left = {} THEN "invalid" ELSE "compare"

SelectDevices(r) == \E rep \in Replies :
    /\ At(r, "devices")
    /\ candidates' = IF rep = "ok" THEN [candidates EXCEPT ![r] = Active] ELSE candidates
    /\ Goto(r, IF rep = "ok" THEN AfterMismatch(Active) ELSE "unreachable")
    /\ UNCHANGED <<worldVars, cached, requestVars, principal, roles, dark>>

Compare(r) == \E k \in candidates[r] :
    /\ At(r, "compare")
    /\ candidates' = [candidates EXCEPT ![r] = IF k = credential[r] THEN {} ELSE candidates[r] \ {k}]
    /\ Goto(r, IF k = credential[r] THEN "touch" ELSE AfterMismatch(candidates[r] \ {k}))
    /\ UNCHANGED <<worldVars, cached, requestVars, principal, roles, dark>>

(* last_seen_at, which nothing reads - but its failure refuses the robot. *)
TouchDevice(r) == \E rep \in Replies :
    /\ At(r, "touch")
    /\ Goto(r, IF rep = "ok" THEN "parse" ELSE "unreachable")
    /\ UNCHANGED <<worldVars, cached, requestVars, candidates, principal, roles, dark>>

(* The interceptor reads the body: a WAV file of a fair size, or a 4xx. *)
ParseBody(r) == /\ At(r, "parse")
                /\ \E l \in {"served", "badbody"} : Goto(r, l)
                /\ UNCHANGED <<worldVars, cached, requestVars, candidates, principal, roles, dark>>

-----------------------------------------------------------------------------
(* AuthGuard: the token, then the student's row. *)

(* getSigningKey: from the cache or fetched.  An endpoint that does not     *)
(* answer and a kid that is not there look the same to the client.          *)
GetSigningKey(r) == LET kid == credential[r].key IN
    /\ At(r, "token")
    /\ kid # NoKid
    /\ \/ /\ kid \in cached \union published
          /\ cached' = cached \union {kid}
          /\ Goto(r, "verify")
          /\ UNCHANGED dark
       \/ /\ kid \notin cached \union published
          /\ Goto(r, "invalid")
          /\ UNCHANGED <<cached, dark>>
       \/ /\ kid \notin cached
          /\ "jwks" \in Faults
          /\ Goto(r, "invalid")
          /\ dark' = dark \union {r}
          /\ UNCHANGED cached
    /\ UNCHANGED <<worldVars, requestVars, candidates, principal, roles>>

Verdict(t) == IF t \in expired THEN "invalid" ELSE "student"

VerifyWithJwks(r) == /\ At(r, "verify")
                     /\ Goto(r, Verdict(credential[r]))
                     /\ UNCHANGED <<worldVars, cached, requestVars, candidates, principal,
                                    roles, dark>>

VerifyLegacyHs256(r) ==
    /\ At(r, "token")
    /\ credential[r].key = NoKid
    /\ Goto(r, IF LegacySecret THEN Verdict(credential[r]) ELSE "invalid")
    /\ UNCHANGED <<worldVars, cached, requestVars, candidates, principal, roles, dark>>

(* Mutant: a student without a row is a principal. *)
AfterFindAnyone(rt, found) == IF rt = "admin" THEN "role" ELSE "served"

AfterFind(rt, found) == IF found = "none" THEN "invalid"
                        ELSE IF rt = "admin" THEN "role" ELSE "served"

FindStudent(r) == \E rep \in Replies : LET found == role[credential[r].sub] IN
    /\ At(r, "student")
    /\ Goto(r, IF rep = "ok" THEN AfterFind(route[r], found) ELSE "unreachable")
    /\ principal' = IF rep = "ok" /\ AfterFind(route[r], found) # "invalid"
                    THEN [principal EXCEPT ![r] = found] ELSE principal
    /\ UNCHANGED <<worldVars, cached, requestVars, candidates, roles, dark>>

(* AdminGuard reads the principal, not the row. *)
CheckRole(r) == /\ At(r, "role")
                /\ Goto(r, IF principal[r] = "admin" THEN "hash" ELSE "forbidden")
                /\ UNCHANGED <<worldVars, cached, requestVars, candidates, principal, roles, dark>>

-----------------------------------------------------------------------------
(* AdminDevicesController.create *)

(* The body is validated before a key is drawn and hashed. *)
HashKey(r) == /\ At(r, "hash")
              /\ \E l \in {"insert", "badbody"} : Goto(r, l)
              /\ UNCHANGED <<worldVars, cached, requestVars, candidates, principal, roles, dark>>

(* Mutant: an insert that was not awaited. *)
StoredUnawaited(rep) == TRUE

Stored(rep) == rep = "ok"

InsertDevice(r) == \E rep \in Replies :
    /\ At(r, "insert")
    /\ rows' = IF Took(rep) THEN rows \union {r} ELSE rows
    /\ given' = IF Stored(rep) THEN given \union {r} ELSE given
    /\ Goto(r, IF Stored(rep) THEN "served" ELSE "error")
    /\ UNCHANGED <<role, revoked, expired, published, cached, requestVars, candidates,
                   principal, roles, dark>>

-----------------------------------------------------------------------------
(* The world outside *)

(* Revocation: an update by hand, as in the test of verifyKey (external). *)
Revoke(k) == /\ k \in rows \ revoked
             /\ revoked' = revoked \union {k}
             /\ UNCHANGED <<role, rows, given, expired, published, cached, pc, requestVars,
                            candidates, principal, roles, dark>>

Expire(t) == /\ t \notin expired
             /\ expired' = expired \union {t}
             /\ UNCHANGED <<role, rows, revoked, given, published, cached, pc, requestVars,
                            candidates, principal, roles, dark>>

(* Supabase retires a kid; the cache forgets one, by age or by size. *)
Retire(k) == /\ k \in published
             /\ published' = published \ {k}
             /\ UNCHANGED <<role, rows, revoked, given, expired, cached, pc, requestVars,
                            candidates, principal, roles, dark>>

Evict(k) == /\ k \in cached
            /\ cached' = cached \ {k}
            /\ UNCHANGED <<worldVars, pc, requestVars, candidates, principal, roles, dark>>

IsOf(r, s) == pc[r] \in Open /\ r \notin Voice /\ credential[r].sub = s

SetRole(s, x) ==
    /\ role' = [role EXCEPT ![s] = x]
    /\ roles' = [r \in Requests |-> IF IsOf(r, s) THEN roles[r] \union {x} ELSE roles[r]]
    /\ UNCHANGED <<rows, revoked, given, expired, published, cached, pc, requestVars,
                   candidates, principal, dark>>

(* The first row of a student, and taking the role back, are external. *)
SignUp(s) == role[s] = "none" /\ SetRole(s, "student")
Demote(s) == role[s] = "admin" /\ SetRole(s, "student")

(* promote-admin updates the row there is, or exits. *)
Promote(s) == role[s] = "student" /\ SetRole(s, "admin")

(* The process dies, with its connections and its cache. *)
Restart == /\ "crash" \in Faults
           /\ pc' = [r \in Requests |-> IF pc[r] \in Open THEN "cut" ELSE pc[r]]
           /\ cached' = {}
           /\ UNCHANGED <<worldVars, requestVars, candidates, principal, roles, dark>>

Handle(r) == \/ SelectDevices(r) \/ Compare(r) \/ TouchDevice(r) \/ ParseBody(r)
             \/ GetSigningKey(r) \/ VerifyWithJwks(r) \/ VerifyLegacyHs256(r)
             \/ FindStudent(r) \/ CheckRole(r)
             \/ HashKey(r) \/ InsertDevice(r)

Next == \/ \E r \in Requests : TurnAway(r) \/ Handle(r)
        \/ \E r \in Voice : RobotCalls(r)
        \/ \E r \in App : AppCalls(r)
        \/ \E k \in Keys : Revoke(k)
        \/ \E t \in Tokens : Expire(t)
        \/ \E k \in SigningKeys : Retire(k) \/ Evict(k)
        \/ \E s \in Students : SignUp(s) \/ Promote(s) \/ Demote(s)
        \/ Restart

Spec == Init /\ [][Next]_vars

(* Every await of a handler settles. *)
FairSpec == Spec /\ \A r \in Requests : WF_vars(Handle(r))

-----------------------------------------------------------------------------
(* Properties *)

TypeOK == /\ role \in [Students -> {"none", "student", "admin"}]
          /\ revoked \subseteq rows
          /\ rows \subseteq Keys
          /\ given \subseteq Keys
          /\ expired \subseteq Tokens
          /\ published \subseteq Trusted
          /\ cached \subseteq Trusted
          /\ pc \in [Requests -> {"future"} \union Open \union Closed]
          /\ route \in [Requests -> {"voice", "student", "admin"}]
          /\ credential \in [Requests -> Keys \union {NoKey} \union Tokens]
          /\ candidates \in [Requests -> SUBSET rows]
          /\ principal \in [Requests -> {"nobody", "student", "admin"}]
          /\ good \subseteq Requests
          /\ roles \in [Requests -> SUBSET {"none", "student", "admin"}]
          /\ dark \subseteq Requests

MayCall(rt) == IF rt = "admin" THEN {"admin"} ELSE {"student", "admin"}
IsTrusted(kid) == kid \in Trusted \/ (kid = NoKid /\ LegacySecret)

(* However long its guards take, a request only gets to its handler with a *)
(* key that was not revoked (SPEC-SHEET section 12.2), or a token that was *)
(* not expired and was issued by this project, when it arrived, and with a *)
(* role that its student had at some instant since.                        *)
AdmittedWasEntitled ==
    \A r \in Requests : pc[r] \in Admitted =>
        /\ r \in good
        /\ IF r \in Voice THEN credential[r] \in rows
           ELSE IsTrusted(credential[r].key) /\ roles[r] \intersect MayCall(route[r]) # {}

(* Nobody is told to have a bad credential, or the wrong role, who had the *)
(* right one all the while: one key can be "individually revoked without    *)
(* affecting other robots", an admin is one from the moment of the update   *)
(* and needs no new token.  A JWKS that cannot be fetched is the exception. *)
EntitledIsNotRefused ==
    \A r \in Requests :
        /\ At(r, "invalid") /\ r \in Voice => credential[r] \notin rows \ revoked
        /\ At(r, "invalid") /\ r \notin Voice =>
               \/ credential[r] \in expired
               \/ ~(credential[r].key \in published \/ (credential[r].key = NoKid /\ LegacySecret))
               \/ "none" \in roles[r]
               \/ r \in dark
        /\ At(r, "forbidden") => "student" \in roles[r]

(* The key is shown once and stored nowhere: one that an admin was shown is *)
(* the key of a row, whatever became of the insert's answer.                *)
GivenKeyWorks == given \subseteq rows

(* Every request is let in or refused, and every new device is answered.    *)
EveryRequestIsDecided == \A r \in Requests : pc[r] \in Open ~> pc[r] \in Closed
=============================================================================
