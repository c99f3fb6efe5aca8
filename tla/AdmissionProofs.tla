--------------------------- MODULE AdmissionProofs ---------------------------
(***************************************************************************)
(* Admission's safety properties hold for every number of requests, keys,  *)
(* students and kids, and every set of faults.                              *)
(***************************************************************************)
EXTENDS Admission, TLAPS

Arrived(r) == pc[r] \notin {"future", "limited", "missing"}
IsActive(k) == k \in rows /\ k \notin revoked

(* A robot's request: it carries the key of a row or none, the loop has not *)
(* passed over its key, and a match was active when the request arrived.    *)
VoiceInv(r) ==
    /\ pc[r] \in {"future", "devices", "compare", "touch", "parse"} \union (Closed \ {"forbidden", "error"})
    /\ route[r] = "voice"
    /\ Arrived(r) =>
          /\ credential[r] \in rows \union {NoKey}
          /\ credential[r] \notin revoked => r \in good
    /\ At(r, "compare") /\ IsActive(credential[r]) => credential[r] \in candidates[r]
    /\ At(r, "compare") /\ credential[r] \in candidates[r] => r \in good
    /\ pc[r] \in {"touch", "parse"} \union Admitted => r \in good /\ credential[r] \in rows
    /\ At(r, "invalid") => ~IsActive(credential[r])

Doubtful(r) == \/ credential[r] \in expired
               \/ ~(credential[r].key \in published \/ (credential[r].key = NoKid /\ LegacySecret))
               \/ "none" \in roles[r]
               \/ r \in dark

(* A request with a token: what each check found still holds behind it, and *)
(* its student's present role is among those that were seen.                *)
AppArrival(r) ==
    /\ pc[r] \notin {"devices", "compare", "touch", "parse"}
    /\ Arrived(r) =>
          /\ credential[r] \in Tokens
          /\ route[r] \in {"student", "admin"}
          /\ credential[r] \notin expired => r \in good
    /\ pc[r] \in {"role", "hash", "insert"} => route[r] = "admin"

AppChecks(r) ==
    /\ pc[r] \in {"verify", "student", "role", "forbidden"} \union Admitted =>
          IsTrusted(credential[r].key)
    /\ pc[r] \in {"student", "role", "forbidden"} \union Admitted => r \in good

AppRole(r) ==
    /\ pc[r] \in Open => role[credential[r].sub] \in roles[r]
    /\ At(r, "role") => principal[r] \in roles[r] \intersect {"student", "admin"}
    /\ pc[r] \in Admitted => roles[r] \intersect MayCall(route[r]) # {}
    /\ At(r, "forbidden") => "student" \in roles[r]

AppRefusal(r) == At(r, "invalid") => Doubtful(r)

AppInv(r) == AppArrival(r) /\ AppChecks(r) /\ AppRole(r) /\ AppRefusal(r)

Inv == /\ TypeOK
       /\ GivenKeyWorks
       /\ \A r \in Voice : VoiceInv(r)
       /\ \A r \in App : AppInv(r)

(* What no step undoes. *)
WorldGrows == /\ rows \subseteq rows'
              /\ NoKey \notin rows'
              /\ revoked \subseteq revoked'
              /\ expired \subseteq expired'
              /\ published' \subseteq published
              /\ dark \subseteq dark'

(* A step of something else leaves q's own state alone. *)
Untouched(q) == /\ pc'[q] = pc[q]
                /\ route'[q] = route[q]
                /\ credential'[q] = credential[q]
                /\ candidates'[q] = candidates[q]
                /\ principal'[q] = principal[q]
                /\ (q \in good <=> q \in good')

(* Whatever happens elsewhere does not disturb what is known of q.         *)
LEMMA VoiceFrame ==
    ASSUME NEW q \in Voice, VoiceInv(q), WorldGrows, Untouched(q)
    PROVE  VoiceInv(q)'
BY DEF VoiceInv, WorldGrows, Untouched, Arrived, IsActive, At, Admitted, Closed

LEMMA AppFrame ==
    ASSUME NEW q \in App, AppInv(q), WorldGrows, Untouched(q),
           roles[q] \subseteq roles'[q],
           pc[q] \in Open => role'[credential[q].sub] \in roles'[q]
    PROVE  AppInv(q)'
<1>1. AppArrival(q)'
  BY DEF AppInv, AppArrival, WorldGrows, Untouched, Arrived
<1>2. AppChecks(q)'
  BY DEF AppInv, AppChecks, Untouched, IsTrusted, Admitted
<1>3. AppRole(q)'
  BY DEF AppInv, AppRole, Untouched, At, Admitted, MayCall
<1>4. AppRefusal(q)'
  BY DEF AppInv, AppRefusal, WorldGrows, Untouched, At, Doubtful
<1>5. QED
  BY <1>1, <1>2, <1>3, <1>4 DEF AppInv

-----------------------------------------------------------------------------
(* Types *)

LEMMA ArrivalType ==
    ASSUME TypeOK, GivenKeyWorks, NEW r \in Requests,
           \/ r \in Voice /\ RobotCalls(r)
           \/ r \in App /\ AppCalls(r)
           \/ TurnAway(r)
    PROVE  TypeOK'
<1>1. CASE RobotCalls(r)
  <2>1. credential' \in [Requests -> Keys \union {NoKey} \union Tokens] /\ good' \subseteq Requests
    BY <1>1 DEF RobotCalls, TypeOK
  <2>2. pc' \in [Requests -> {"future"} \union Open \union Closed]
    BY <1>1 DEF RobotCalls, TypeOK, Goto, Open
  <2>3. QED
    BY <1>1, <2>1, <2>2 DEF RobotCalls, TypeOK, worldVars
<1>2. CASE AppCalls(r)
  <2>1. PICK rt \in {"student", "admin"}, t \in Tokens :
            /\ route' = [route EXCEPT ![r] = rt]
            /\ credential' = [credential EXCEPT ![r] = t]
            /\ roles' = [roles EXCEPT ![r] = {role[t.sub]}]
            /\ good' = IF t \in expired THEN good ELSE good \union {r}
    BY <1>2 DEF AppCalls
  <2>2. role[t.sub] \in {"none", "student", "admin"}
    BY DEF TypeOK, Tokens
  <2>3. roles' \in [Requests -> SUBSET {"none", "student", "admin"}]
    BY <2>1, <2>2 DEF TypeOK
  <2>4. pc' \in [Requests -> {"future"} \union Open \union Closed]
    BY <1>2 DEF AppCalls, TypeOK, Goto, Open
  <2>5. /\ credential' \in [Requests -> Keys \union {NoKey} \union Tokens]
        /\ good' \subseteq Requests
        /\ route' \in [Requests -> {"voice", "student", "admin"}]
    BY <2>1 DEF TypeOK
  <2>6. QED
    BY <1>2, <2>3, <2>4, <2>5 DEF AppCalls, TypeOK, worldVars
<1>3. CASE TurnAway(r)
  <2>1. pc' \in [Requests -> {"future"} \union Open \union Closed]
    BY <1>3 DEF TurnAway, TypeOK, Goto, Closed
  <2>2. QED
    BY <1>3, <2>1 DEF TurnAway, TypeOK, worldVars, requestVars
<1>4. QED
  BY <1>1, <1>2, <1>3

LEMMA HandleType ==
    ASSUME TypeOK, NEW r \in Requests, Handle(r), r \in Voice => VoiceInv(r), r \in App => AppInv(r)
    PROVE  TypeOK'
<1>1. CASE SelectDevices(r) \/ Compare(r)
  <2>1. pc' \in [Requests -> {"future"} \union Open \union Closed]
    BY <1>1 DEF SelectDevices, Compare, AfterMismatch, TypeOK, Goto, Open, Closed
  <2>2. candidates' \in [Requests -> SUBSET rows]
    <3>1. CASE SelectDevices(r)
      BY <3>1 DEF SelectDevices, Active, TypeOK
    <3>2. CASE Compare(r)
      <4>1. candidates[r] \in SUBSET rows
        BY DEF TypeOK
      <4>2. \A k : candidates[r] \ {k} \in SUBSET rows
        BY <4>1
      <4>3. PICK k \in candidates[r] : candidates' = [candidates EXCEPT ![r] =
                                            IF k = credential[r] THEN {} ELSE candidates[r] \ {k}]
        BY <3>2 DEF Compare
      <4>4. QED
        BY <4>2, <4>3 DEF TypeOK
    <3>3. QED
      BY <1>1, <3>1, <3>2
  <2>3. QED
    BY <1>1, <2>1, <2>2 DEF SelectDevices, Compare, TypeOK, worldVars, requestVars
<1>2. CASE TouchDevice(r) \/ ParseBody(r) \/ VerifyWithJwks(r) \/ VerifyLegacyHs256(r) \/ CheckRole(r) \/ HashKey(r)
  <2>1. pc' \in [Requests -> {"future"} \union Open \union Closed]
    BY <1>2 DEF TouchDevice, ParseBody, VerifyWithJwks, VerifyLegacyHs256, CheckRole, HashKey,
                Verdict, TypeOK, Goto, Open, Closed
  <2>2. QED
    BY <1>2, <2>1 DEF TouchDevice, ParseBody, VerifyWithJwks, VerifyLegacyHs256, CheckRole,
                HashKey, TypeOK, worldVars, requestVars
<1>3. CASE GetSigningKey(r)
  <2>1. pc' \in [Requests -> {"future"} \union Open \union Closed]
    BY <1>3 DEF GetSigningKey, TypeOK, Goto, Open, Closed
  <2>2. cached' \subseteq Trusted /\ dark' \subseteq Requests
    BY <1>3 DEF GetSigningKey, TypeOK
  <2>3. QED
    BY <1>3, <2>1, <2>2 DEF GetSigningKey, TypeOK, worldVars, requestVars
<1>4. CASE FindStudent(r)
  <2>1. PICK rep \in Replies :
          /\ At(r, "student")
          /\ Goto(r, IF rep = "ok" THEN AfterFind(route[r], role[credential[r].sub]) ELSE "unreachable")
          /\ principal' = IF rep = "ok" /\ AfterFind(route[r], role[credential[r].sub]) # "invalid"
                          THEN [principal EXCEPT ![r] = role[credential[r].sub]] ELSE principal
    BY <1>4 DEF FindStudent
  <2>2. r \in App /\ credential[r] \in Tokens
    BY <2>1 DEF At, VoiceInv, Closed, AppInv, AppArrival, Arrived, Requests
  <2>3. role[credential[r].sub] \in {"none", "student", "admin"}
    BY <2>2 DEF TypeOK, Tokens
  <2>4. principal' \in [Requests -> {"nobody", "student", "admin"}]
    BY <2>1, <2>3 DEF TypeOK, AfterFind
  <2>5. pc' \in [Requests -> {"future"} \union Open \union Closed]
    BY <2>1 DEF TypeOK, AfterFind, Goto, Open, Closed
  <2>6. QED
    BY <1>4, <2>4, <2>5 DEF FindStudent, TypeOK, worldVars, requestVars
<1>5. CASE InsertDevice(r)
  <2>1. r \in App
    BY <1>5 DEF InsertDevice, At, VoiceInv, Closed, Requests
  <2>2. pc' \in [Requests -> {"future"} \union Open \union Closed]
    BY <1>5 DEF InsertDevice, TypeOK, Goto, Open, Closed
  <2>3. rows' \subseteq Keys /\ given' \subseteq Keys /\ rows \subseteq rows'
    BY <1>5, <2>1 DEF InsertDevice, TypeOK, Keys
  <2>4. revoked' \subseteq rows' /\ candidates' \in [Requests -> SUBSET rows']
    BY <1>5, <2>3 DEF InsertDevice, TypeOK
  <2>5. QED
    BY <1>5, <2>2, <2>3, <2>4 DEF InsertDevice, TypeOK, requestVars
<1>6. QED
  BY <1>1, <1>2, <1>3, <1>4, <1>5 DEF Handle

LEMMA WorldType ==
    ASSUME TypeOK,
           \/ \E k \in Keys : Revoke(k)
           \/ \E t \in Tokens : Expire(t)
           \/ \E k \in SigningKeys : Retire(k) \/ Evict(k)
           \/ Restart
    PROVE  TypeOK'
<1>1. CASE \E k \in Keys : Revoke(k)
  BY <1>1 DEF Revoke, TypeOK, requestVars
<1>2. CASE \E t \in Tokens : Expire(t)
  BY <1>2 DEF Expire, TypeOK, requestVars
<1>3. CASE \E k \in SigningKeys : Retire(k) \/ Evict(k)
  BY <1>3 DEF Retire, Evict, TypeOK, worldVars, requestVars
<1>4. CASE Restart
  <2>1. pc' \in [Requests -> {"future"} \union Open \union Closed]
    BY <1>4 DEF Restart, TypeOK, Closed
  <2>2. QED
    BY <1>4, <2>1 DEF Restart, TypeOK, worldVars, requestVars
<1>5. QED
  BY <1>1, <1>2, <1>3, <1>4

LEMMA RoleType ==
    ASSUME TypeOK, NEW s \in Students, NEW x \in {"student", "admin"}, SetRole(s, x)
    PROVE  TypeOK'
<1>1. role' \in [Students -> {"none", "student", "admin"}]
  BY DEF SetRole, TypeOK
<1>2. roles' \in [Requests -> SUBSET {"none", "student", "admin"}]
  BY DEF SetRole, TypeOK
<1>3. QED
  BY <1>1, <1>2 DEF SetRole, TypeOK, requestVars

-----------------------------------------------------------------------------
(* A step of a robot's request *)

LEMMA VoiceStep ==
    ASSUME TypeOK, GivenKeyWorks, AdmissionAssumption, NEW r \in Voice, VoiceInv(r),
           RobotCalls(r) \/ TurnAway(r) \/ Handle(r)
    PROVE  VoiceInv(r)'
<1>0. r \in Requests
  BY DEF Requests
<1>1. CASE RobotCalls(r)
  BY <1>0, <1>1 DEF RobotCalls, VoiceInv, TypeOK, GivenKeyWorks, Arrived, IsActive, At, Goto,
                    worldVars, Admitted, Closed
<1>2. CASE TurnAway(r)
  BY <1>0, <1>2 DEF TurnAway, VoiceInv, TypeOK, Arrived, IsActive, At, Goto, worldVars,
                    requestVars, Admitted, Closed
<1>3. CASE SelectDevices(r)
  <2>1. NoKey \notin rows
    BY DEF TypeOK, Keys, AdmissionAssumption
  <2>2. PICK rep \in Replies :
          /\ At(r, "devices")
          /\ candidates' = IF rep = "ok" THEN [candidates EXCEPT ![r] = Active] ELSE candidates
          /\ Goto(r, IF rep = "ok" THEN AfterMismatch(Active) ELSE "unreachable")
          /\ UNCHANGED <<worldVars, requestVars>>
    BY <1>3 DEF SelectDevices
  <2>3. CASE rep # "ok"
    BY <1>0, <2>2, <2>3 DEF VoiceInv, TypeOK, Arrived, At, Goto, worldVars, requestVars,
                            Admitted, Closed
  <2>4. CASE rep = "ok" /\ Active = {}
    BY <1>0, <2>1, <2>2, <2>4 DEF VoiceInv, TypeOK, Arrived, IsActive, Active, AfterMismatch,
                            At, Goto, worldVars, requestVars, Admitted, Closed
  <2>5. CASE rep = "ok" /\ Active # {}
    <3>1. pc'[r] = "compare" /\ candidates'[r] = Active
      BY <1>0, <2>2, <2>5 DEF AfterMismatch, TypeOK, Goto
    <3>2. QED
      BY <1>0, <2>1, <2>2, <3>1 DEF VoiceInv, Arrived, IsActive, Active, At, worldVars,
                            requestVars, Admitted, Closed
  <2>6. QED
    BY <2>3, <2>4, <2>5
<1>4. CASE Compare(r)
  <2>1. PICK k \in candidates[r] :
          /\ At(r, "compare")
          /\ candidates' = [candidates EXCEPT ![r] = IF k = credential[r] THEN {} ELSE candidates[r] \ {k}]
          /\ Goto(r, IF k = credential[r] THEN "touch" ELSE AfterMismatch(candidates[r] \ {k}))
          /\ UNCHANGED <<worldVars, requestVars>>
    BY <1>4 DEF Compare
  <2>2. k \in rows
    BY <1>0 DEF TypeOK
  <2>3. CASE k = credential[r]
    BY <1>0, <2>1, <2>2, <2>3 DEF VoiceInv, TypeOK, Arrived, IsActive, At, Goto, worldVars,
                            requestVars, Admitted, Closed
  <2>4. CASE k # credential[r]
    <3>1. candidates'[r] = candidates[r] \ {k} /\ pc'[r] = AfterMismatch(candidates'[r])
      BY <1>0, <2>1, <2>4 DEF TypeOK, Goto
    <3>2. CASE candidates'[r] = {}
      BY <1>0, <2>1, <2>4, <3>1, <3>2 DEF VoiceInv, AfterMismatch, Arrived, IsActive, At,
                            worldVars, requestVars, Admitted, Closed
    <3>3. CASE candidates'[r] # {}
      BY <1>0, <2>1, <2>4, <3>1, <3>3 DEF VoiceInv, AfterMismatch, Arrived, IsActive, At,
                            worldVars, requestVars, Admitted, Closed
    <3>4. QED
      BY <3>2, <3>3
  <2>5. QED
    BY <2>3, <2>4
<1>5. CASE TouchDevice(r) \/ ParseBody(r)
  BY <1>0, <1>5 DEF TouchDevice, ParseBody, VoiceInv, TypeOK, Arrived, IsActive, At, Goto,
                    worldVars, requestVars, Admitted, Closed
<1>6. QED
  BY <1>1, <1>2, <1>3, <1>4, <1>5 DEF Handle, GetSigningKey, VerifyWithJwks, VerifyLegacyHs256,
        FindStudent, CheckRole, HashKey, InsertDevice, VoiceInv, At, Closed

-----------------------------------------------------------------------------
(* A step of a request with a token.  Its student's role stays among the   *)
(* roles seen, because no such step changes either.                         *)

LEMMA AppArrives ==
    ASSUME TypeOK, NEW r \in App, AppInv(r), AppCalls(r) \/ TurnAway(r)
    PROVE  AppInv(r)'
<1>0. r \in Requests
  BY DEF Requests
<1>1. CASE AppCalls(r)
  <2>1. PICK rt \in {"student", "admin"}, t \in Tokens :
          /\ route' = [route EXCEPT ![r] = rt]
          /\ credential' = [credential EXCEPT ![r] = t]
          /\ good' = IF t \in expired THEN good ELSE good \union {r}
          /\ roles' = [roles EXCEPT ![r] = {role[t.sub]}]
    BY <1>1 DEF AppCalls
  <2>2. /\ route'[r] = rt /\ credential'[r] = t /\ roles'[r] = {role[t.sub]}
        /\ pc'[r] = "token" /\ expired' = expired /\ role' = role
    BY <1>0, <1>1, <2>1 DEF AppCalls, TypeOK, Goto, worldVars
  <2>3. AppArrival(r)'
    BY <2>1, <2>2 DEF AppArrival
  <2>4. AppChecks(r)' /\ AppRole(r)' /\ AppRefusal(r)'
    BY <2>2 DEF AppChecks, AppRole, AppRefusal, Admitted, At
  <2>5. QED
    BY <2>3, <2>4 DEF AppInv
<1>2. CASE TurnAway(r)
  <2>1. pc'[r] \in {"limited", "missing"}
    BY <1>0, <1>2 DEF TurnAway, TypeOK, Goto
  <2>2. QED
    BY <2>1 DEF AppInv, AppArrival, AppChecks, AppRole, AppRefusal, Arrived, Admitted, Open, At
<1>3. QED
  BY <1>1, <1>2

LEMMA AppStep ==
    ASSUME TypeOK, AdmissionAssumption, NEW r \in App, AppInv(r), Handle(r)
    PROVE  AppInv(r)'
<1>0. r \in Requests
  BY DEF Requests
<1>a. /\ credential[r] \in Tokens
      /\ pc[r] \in Open
      /\ route[r] \in {"student", "admin"}
      /\ role[credential[r].sub] \in roles[r]
  <2>1. pc[r] \in Open
    BY DEF Handle, SelectDevices, Compare, TouchDevice, ParseBody, GetSigningKey, VerifyWithJwks,
           VerifyLegacyHs256, FindStudent, CheckRole, HashKey, InsertDevice, At, Open
  <2>2. QED
    BY <2>1 DEF AppInv, AppArrival, AppRole, Arrived, Open
<1>b. /\ route'[r] = route[r] /\ credential'[r] = credential[r] /\ roles'[r] = roles[r]
      /\ role' = role /\ expired' = expired /\ published' = published /\ good' = good
  BY DEF Handle, SelectDevices, Compare, TouchDevice, ParseBody, GetSigningKey, VerifyWithJwks,
         VerifyLegacyHs256, FindStudent, CheckRole, HashKey, InsertDevice, worldVars, requestVars
<1>1. CASE GetSigningKey(r)
  <2>1. /\ pc'[r] \in {"verify", "invalid"}
        /\ pc'[r] = "verify" => credential[r].key \in Trusted
        /\ pc'[r] = "invalid" => \/ credential[r].key \notin published /\ credential[r].key # NoKid
                                \/ r \in dark'
    BY <1>0, <1>1 DEF GetSigningKey, TypeOK, Goto
  <2>2. AppArrival(r)'
    BY <1>a, <1>b, <2>1 DEF AppInv, AppArrival, Arrived, Open
  <2>3. AppChecks(r)' /\ AppRole(r)'
    BY <1>a, <1>b, <2>1 DEF AppChecks, AppRole, Admitted, At, IsTrusted
  <2>4. AppRefusal(r)'
    BY <1>b, <2>1 DEF AppRefusal, Doubtful, At
  <2>5. QED
    BY <2>2, <2>3, <2>4 DEF AppInv
<1>2. CASE VerifyWithJwks(r)
  <2>1. /\ pc'[r] = IF credential[r] \in expired THEN "invalid" ELSE "student"
        /\ pc[r] = "verify"
    BY <1>0, <1>2 DEF VerifyWithJwks, TypeOK, Goto, Verdict, At
  <2>2. AppArrival(r)'
    BY <1>a, <1>b, <2>1 DEF AppInv, AppArrival, Arrived, Open
  <2>3. AppChecks(r)' /\ AppRole(r)'
    BY <1>a, <1>b, <2>1 DEF AppInv, AppArrival, Arrived, AppChecks, AppRole, Admitted, At, IsTrusted
  <2>4. AppRefusal(r)'
    BY <1>b, <2>1 DEF AppRefusal, Doubtful, At
  <2>5. QED
    BY <2>2, <2>3, <2>4 DEF AppInv
<1>3. CASE VerifyLegacyHs256(r)
  <2>1. /\ pc'[r] = IF ~LegacySecret \/ credential[r] \in expired THEN "invalid" ELSE "student"
        /\ pc[r] = "token"
        /\ credential[r].key = NoKid
    BY <1>0, <1>3 DEF VerifyLegacyHs256, TypeOK, Goto, Verdict, At
  <2>2. AppArrival(r)'
    BY <1>a, <1>b, <2>1 DEF AppInv, AppArrival, Arrived, Open
  <2>3. AppChecks(r)' /\ AppRole(r)'
    BY <1>a, <1>b, <2>1 DEF AppInv, AppArrival, Arrived, AppChecks, AppRole, Admitted, At, IsTrusted
  <2>4. NoKid \notin published
    BY DEF TypeOK, AdmissionAssumption
  <2>5. AppRefusal(r)'
    BY <1>b, <2>1, <2>4 DEF AppRefusal, Doubtful, At
  <2>6. QED
    BY <2>2, <2>3, <2>5 DEF AppInv
<1>4. CASE FindStudent(r)
  <2>1. PICK rep \in Replies :
          /\ pc[r] = "student"
          /\ pc'[r] = IF rep = "ok" THEN AfterFind(route[r], role[credential[r].sub]) ELSE "unreachable"
          /\ principal' = IF rep = "ok" /\ AfterFind(route[r], role[credential[r].sub]) # "invalid"
                          THEN [principal EXCEPT ![r] = role[credential[r].sub]] ELSE principal
    BY <1>0, <1>4 DEF FindStudent, TypeOK, Goto, At
  <2>2. role[credential[r].sub] \in {"none", "student", "admin"}
    BY <1>a DEF TypeOK, Tokens
  <2>3. AppArrival(r)'
    BY <1>a, <1>b, <2>1 DEF AppInv, AppArrival, AfterFind, Arrived, Open
  <2>4. AppChecks(r)'
    BY <1>a, <1>b, <2>1 DEF AppInv, AppChecks, AfterFind, Admitted, IsTrusted
  <2>5. AppRole(r)'
    <3>1. pc'[r] = "role" => principal'[r] = role[credential[r].sub] /\ principal'[r] # "none"
      BY <1>0, <1>a, <2>1 DEF AfterFind, TypeOK
    <3>2. pc'[r] \in Admitted => role[credential[r].sub] # "none" /\ route[r] = "student"
      BY <1>a, <2>1 DEF AfterFind, Admitted
    <3>3. pc'[r] # "forbidden"
      BY <2>1 DEF AfterFind
    <3>4. QED
      BY <1>a, <1>b, <2>2, <3>1, <3>2, <3>3 DEF AppRole, At, MayCall
  <2>6. AppRefusal(r)'
    BY <1>a, <1>b, <2>1 DEF AppRefusal, AfterFind, Doubtful, At
  <2>7. QED
    BY <2>3, <2>4, <2>5, <2>6 DEF AppInv
<1>5. CASE CheckRole(r)
  <2>1. /\ pc[r] = "role"
        /\ pc'[r] = IF principal[r] = "admin" THEN "hash" ELSE "forbidden"
        /\ principal[r] \in roles[r] \intersect {"student", "admin"}
    BY <1>0, <1>5 DEF CheckRole, TypeOK, Goto, At, AppInv, AppRole
  <2>2. AppArrival(r)'
    BY <1>a, <1>b, <2>1 DEF AppInv, AppArrival, Arrived, Open
  <2>3. AppChecks(r)'
    BY <1>b, <2>1 DEF AppInv, AppChecks, Admitted, IsTrusted
  <2>4. AppRole(r)' /\ AppRefusal(r)'
    BY <1>a, <1>b, <2>1 DEF AppInv, AppArrival, AppRole, AppRefusal, Admitted, MayCall, At
  <2>5. QED
    BY <2>2, <2>3, <2>4 DEF AppInv
<1>6. CASE HashKey(r) \/ InsertDevice(r)
  <2>1. pc[r] \in {"hash", "insert"} /\ pc'[r] \in {"insert", "badbody", "served", "error"}
    BY <1>0, <1>6 DEF HashKey, InsertDevice, TypeOK, Goto, At
  <2>2. AppArrival(r)'
    BY <1>a, <1>b, <2>1 DEF AppInv, AppArrival, Arrived, Open
  <2>3. AppChecks(r)' /\ AppRole(r)' /\ AppRefusal(r)'
    BY <1>a, <1>b, <2>1 DEF AppInv, AppChecks, AppRole, AppRefusal, Admitted, IsTrusted, MayCall, At
  <2>4. QED
    BY <2>2, <2>3 DEF AppInv
<1>7. QED
  BY <1>1, <1>2, <1>3, <1>4, <1>5, <1>6
  DEF Handle, SelectDevices, Compare, TouchDevice, ParseBody, AppInv, AppArrival, At

-----------------------------------------------------------------------------
(* A request's step leaves every other request's state alone *)

RequestStep(r) == \/ r \in Voice /\ RobotCalls(r)
                  \/ r \in App /\ AppCalls(r)
                  \/ TurnAway(r)
                  \/ Handle(r)

LEMMA OthersUntouched ==
    ASSUME TypeOK, TypeOK', AdmissionAssumption, NEW r \in Requests, RequestStep(r)
    PROVE  /\ WorldGrows
           /\ role' = role
           /\ \A q \in Requests \ {r} : Untouched(q) /\ roles'[q] = roles[q]
<1>1. NoKey \notin rows'
  BY DEF TypeOK, Keys, AdmissionAssumption
<1>2. WorldGrows /\ role' = role
  BY <1>1 DEF RequestStep, RobotCalls, AppCalls, TurnAway, Handle, SelectDevices, Compare,
         TouchDevice, ParseBody, GetSigningKey, VerifyWithJwks, VerifyLegacyHs256, FindStudent,
         CheckRole, HashKey, InsertDevice, WorldGrows, worldVars
<1>3. ASSUME NEW q \in Requests \ {r} PROVE Untouched(q) /\ roles'[q] = roles[q]
  <2>1. pc'[q] = pc[q]
    BY DEF RequestStep, RobotCalls, AppCalls, TurnAway, Handle, SelectDevices, Compare,
         TouchDevice, ParseBody, GetSigningKey, VerifyWithJwks, VerifyLegacyHs256, FindStudent,
         CheckRole, HashKey, InsertDevice, Goto, TypeOK
  <2>2. route'[q] = route[q] /\ credential'[q] = credential[q] /\ (q \in good <=> q \in good')
    BY DEF RequestStep, RobotCalls, AppCalls, TurnAway, Handle, SelectDevices, Compare,
         TouchDevice, ParseBody, GetSigningKey, VerifyWithJwks, VerifyLegacyHs256, FindStudent,
         CheckRole, HashKey, InsertDevice, requestVars, TypeOK
  <2>3. candidates'[q] = candidates[q] /\ principal'[q] = principal[q] /\ roles'[q] = roles[q]
    BY DEF RequestStep, RobotCalls, AppCalls, TurnAway, Handle, SelectDevices, Compare,
         TouchDevice, ParseBody, GetSigningKey, VerifyWithJwks, VerifyLegacyHs256, FindStudent,
         CheckRole, HashKey, InsertDevice, TypeOK
  <2>4. QED
    BY <2>1, <2>2, <2>3 DEF Untouched
<1>4. QED
  BY <1>2, <1>3

(* A key is given after its row was stored, and no row is deleted. *)
LEMMA GivenStep ==
    ASSUME GivenKeyWorks, Next
    PROVE  GivenKeyWorks'
BY DEF GivenKeyWorks, Next, RobotCalls, AppCalls, TurnAway, Handle, SelectDevices, Compare,
       TouchDevice, ParseBody, GetSigningKey, VerifyWithJwks, VerifyLegacyHs256, FindStudent,
       CheckRole, HashKey, InsertDevice, Stored, Took, Revoke, Expire, Retire, Evict, SignUp,
       Promote, Demote, SetRole, Restart, worldVars

LEMMA RequestStepInv ==
    ASSUME Inv, NEW r \in Requests, RequestStep(r), GivenKeyWorks'
    PROVE  Inv'
<1>1. TypeOK'
  <2>1. CASE Handle(r)
    BY <2>1, HandleType DEF Inv
  <2>2. CASE ~Handle(r)
    BY <2>2, ArrivalType DEF Inv, RequestStep
  <2>3. QED
    BY <2>1, <2>2
<1>2. /\ WorldGrows
      /\ role' = role
      /\ \A q \in Requests \ {r} : Untouched(q) /\ roles'[q] = roles[q]
  BY <1>1, OthersUntouched, AdmissionAssumption DEF Inv
<1>3. ASSUME NEW q \in Voice PROVE VoiceInv(q)'
  <2>1. CASE q = r
    <3>1. RobotCalls(r) \/ TurnAway(r) \/ Handle(r)
      BY <2>1, AdmissionAssumption DEF RequestStep, AdmissionAssumption
    <3>2. QED
      BY <2>1, <3>1, VoiceStep, AdmissionAssumption DEF Inv
  <2>2. CASE q # r
    BY <1>2, <2>2, VoiceFrame DEF Inv, Requests
  <2>3. QED
    BY <2>1, <2>2
<1>4. ASSUME NEW q \in App PROVE AppInv(q)'
  <2>1. CASE q = r
    <3>1. AppCalls(r) \/ TurnAway(r) \/ Handle(r)
      BY <2>1, AdmissionAssumption DEF RequestStep, AdmissionAssumption
    <3>2. QED
      BY <2>1, <3>1, AppArrives, AppStep, AdmissionAssumption DEF Inv
  <2>2. CASE q # r
    <3>1. pc[q] \in Open => role'[credential[q].sub] \in roles'[q]
      BY <1>2, <2>2 DEF Inv, AppInv, AppRole, Requests
    <3>2. QED
      BY <1>2, <2>2, <3>1, AppFrame DEF Inv, Requests
  <2>3. QED
    BY <2>1, <2>2
<1>5. QED
  BY <1>1, <1>3, <1>4 DEF Inv

-----------------------------------------------------------------------------
(* Steps of the world outside *)

LEMMA WorldStepInv ==
    ASSUME Inv, GivenKeyWorks',
           \/ \E k \in Keys : Revoke(k)
           \/ \E t \in Tokens : Expire(t)
           \/ \E k \in SigningKeys : Retire(k) \/ Evict(k)
    PROVE  Inv'
<1>1. TypeOK'
  BY WorldType DEF Inv
<1>2. WorldGrows /\ role' = role /\ roles' = roles /\ \A q \in Requests : Untouched(q)
  <2>1. NoKey \notin rows'
    BY <1>1, AdmissionAssumption DEF TypeOK, Keys, AdmissionAssumption
  <2>2. QED
    BY <2>1 DEF Revoke, Expire, Retire, Evict, WorldGrows, Untouched, worldVars, requestVars
<1>3. ASSUME NEW q \in Voice PROVE VoiceInv(q)'
  BY <1>2, VoiceFrame DEF Inv, Requests
<1>4. ASSUME NEW q \in App PROVE AppInv(q)'
  <2>1. pc[q] \in Open => role'[credential[q].sub] \in roles'[q]
    BY <1>2 DEF Inv, AppInv, AppRole
  <2>2. QED
    BY <1>2, <2>1, AppFrame DEF Inv, Requests
<1>5. QED
  BY <1>1, <1>3, <1>4 DEF Inv

(* The open requests of the student see the new role. *)
LEMMA RoleStepInv ==
    ASSUME Inv, GivenKeyWorks', NEW s \in Students, NEW x \in {"student", "admin"}, SetRole(s, x)
    PROVE  Inv'
<1>1. TypeOK'
  BY RoleType DEF Inv
<1>2. WorldGrows /\ \A q \in Requests : Untouched(q) /\ roles[q] \subseteq roles'[q]
  <2>1. NoKey \notin rows'
    BY <1>1, AdmissionAssumption DEF TypeOK, Keys, AdmissionAssumption
  <2>2. QED
    BY <2>1 DEF SetRole, WorldGrows, Untouched, requestVars
<1>3. ASSUME NEW q \in Voice PROVE VoiceInv(q)'
  BY <1>2, VoiceFrame DEF Inv, Requests
<1>4. ASSUME NEW q \in App PROVE AppInv(q)'
  <2>1. ASSUME pc[q] \in Open PROVE role'[credential[q].sub] \in roles'[q]
    <3>1. q \in Requests /\ role[credential[q].sub] \in roles[q] /\ route[q] # "voice"
      BY <2>1 DEF Inv, AppInv, AppRole, AppArrival, Arrived, Open, Requests
    <3>2. q \notin Voice
      BY AdmissionAssumption DEF AdmissionAssumption
    <3>3. CASE credential[q].sub = s
      BY <2>1, <3>1, <3>2, <3>3 DEF SetRole, IsOf, Inv, TypeOK
    <3>4. CASE credential[q].sub # s
      BY <1>2, <3>1, <3>4 DEF SetRole, Inv, TypeOK
    <3>5. QED
      BY <3>3, <3>4
  <2>2. QED
    BY <1>2, <2>1, AppFrame DEF Inv, Requests
<1>5. QED
  BY <1>1, <1>3, <1>4 DEF Inv

LEMMA RestartInv ==
    ASSUME Inv, GivenKeyWorks', Restart
    PROVE  Inv'
<1>1. TypeOK'
  BY WorldType DEF Inv
<1>2. \A q \in Requests : \/ (pc[q] \in Open /\ pc'[q] = "cut")
                           \/ pc'[q] = pc[q]
  BY DEF Restart
<1>3. UNCHANGED <<role, rows, revoked, expired, published, route, credential, good, candidates,
                  principal, roles, dark>>
  BY DEF Restart, worldVars, requestVars
<1>4. WorldGrows
  BY <1>3, AdmissionAssumption DEF WorldGrows, Inv, TypeOK, Keys, AdmissionAssumption
<1>5. ASSUME NEW q \in Voice PROVE VoiceInv(q)'
  <2>1. CASE pc'[q] = pc[q]
    BY <1>3, <1>4, <2>1, VoiceFrame DEF Untouched, Inv
  <2>2. CASE pc[q] \in Open /\ pc'[q] = "cut"
    BY <1>3, <2>2 DEF Inv, VoiceInv, Arrived, Admitted, At, Open, Closed
  <2>3. QED
    BY <1>2, <2>1, <2>2 DEF Requests
<1>6. ASSUME NEW q \in App PROVE AppInv(q)'
  <2>1. CASE pc'[q] = pc[q]
    <3>1. pc[q] \in Open => role'[credential[q].sub] \in roles'[q]
      BY <1>3 DEF Inv, AppInv, AppRole
    <3>2. QED
      BY <1>3, <1>4, <2>1, <3>1, AppFrame DEF Untouched, Inv
  <2>2. CASE pc[q] \in Open /\ pc'[q] = "cut"
    BY <1>3, <2>2 DEF Inv, AppInv, AppArrival, AppChecks, AppRole, AppRefusal, Arrived, Admitted,
                      At, Open
  <2>3. QED
    BY <1>2, <2>1, <2>2 DEF Requests
<1>7. QED
  BY <1>1, <1>5, <1>6 DEF Inv

-----------------------------------------------------------------------------
(* The theorems *)

LEMMA InitInv == Init => Inv
<1> SUFFICES ASSUME Init PROVE Inv
  OBVIOUS
<1>1. TypeOK
  BY AdmissionAssumption DEF Init, TypeOK, Keys, AdmissionAssumption
<1>2. GivenKeyWorks
  BY DEF Init, GivenKeyWorks
<1>3. \A r \in Requests : pc[r] = "future" /\ route[r] = "voice"
  BY DEF Init
<1>4. ASSUME NEW r \in Voice PROVE VoiceInv(r)
  BY <1>3 DEF VoiceInv, Requests, Arrived, At, Admitted, Closed
<1>5. ASSUME NEW r \in App PROVE AppInv(r)
  BY <1>3 DEF AppInv, AppArrival, AppChecks, AppRole, AppRefusal, Requests, Arrived, At,
              Admitted, Open
<1>6. QED
  BY <1>1, <1>2, <1>4, <1>5 DEF Inv

LEMMA NextInv == Inv /\ [Next]_vars => Inv'
<1> SUFFICES ASSUME Inv, [Next]_vars PROVE Inv'
  OBVIOUS
<1>1. CASE UNCHANGED vars
  BY <1>1 DEF vars, worldVars, requestVars, Inv, TypeOK, GivenKeyWorks, VoiceInv, AppInv,
              AppArrival, AppChecks, AppRole, AppRefusal, Doubtful, Arrived, IsActive, IsTrusted, At
<1>2. CASE Next
  <2>0. GivenKeyWorks'
    BY <1>2, GivenStep DEF Inv
  <2>1. CASE \E r \in Requests : RequestStep(r)
    BY <2>0, <2>1, RequestStepInv
  <2>2. CASE \/ \E k \in Keys : Revoke(k)
             \/ \E t \in Tokens : Expire(t)
             \/ \E k \in SigningKeys : Retire(k) \/ Evict(k)
    BY <2>0, <2>2, WorldStepInv
  <2>3. CASE \E s \in Students : SignUp(s) \/ Promote(s) \/ Demote(s)
    BY <2>0, <2>3, RoleStepInv DEF SignUp, Promote, Demote
  <2>4. CASE Restart
    BY <2>0, <2>4, RestartInv
  <2>5. QED
    BY <1>2, <2>1, <2>2, <2>3, <2>4 DEF Next, RequestStep, Requests
<1>3. QED
  BY <1>1, <1>2

(* In every reachable state of any instance, Inv holds: what each guard     *)
(* found out about a request is still true of it behind the guard.          *)
THEOREM Invariance == Spec => []Inv
BY InitInv, NextInv, PTL DEF Spec

(* Rows are only revoked, never deleted; a comparison is of a row; only     *)
(* the project's own kids are in the cache of jwksClient.                   *)
THEOREM TypeCorrect == Spec => []TypeOK
<1>1. Inv => TypeOK
  BY DEF Inv
<1>2. QED
  BY <1>1, Invariance, PTL

(* No request gets behind its guards unless its credential held when it     *)
(* arrived and its student had the role since, for all numbers of requests, *)
(* keys and kids.                                                           *)
THEOREM AdmissionIsEarned == Spec => []AdmittedWasEntitled
<1>1. Inv => AdmittedWasEntitled
  <2> SUFFICES ASSUME Inv, NEW r \in Requests, pc[r] \in Admitted
               PROVE  /\ r \in good
                      /\ IF r \in Voice THEN credential[r] \in rows
                         ELSE /\ IsTrusted(credential[r].key)
                              /\ roles[r] \intersect MayCall(route[r]) # {}
    BY DEF AdmittedWasEntitled
  <2>1. CASE r \in Voice
    BY <2>1 DEF Inv, VoiceInv
  <2>2. CASE r \notin Voice
    BY <2>2 DEF Inv, AppInv, AppChecks, AppRole, Requests
  <2>3. QED
    BY <2>1, <2>2
<1>2. QED
  BY <1>1, Invariance, PTL

(* verifyKey refuses a robot only if its key is revoked or unknown, and no  *)
(* student or admin is refused who was one from arrival to decision.        *)
THEOREM RefusalHasAReason == Spec => []EntitledIsNotRefused
<1>1. Inv => EntitledIsNotRefused
  <2> SUFFICES ASSUME Inv, NEW r \in Requests
               PROVE  /\ At(r, "invalid") /\ r \in Voice => credential[r] \notin rows \ revoked
                      /\ At(r, "invalid") /\ r \notin Voice => Doubtful(r)
                      /\ At(r, "forbidden") => "student" \in roles[r]
    BY DEF EntitledIsNotRefused, Doubtful
  <2>1. CASE r \in Voice
    BY <2>1 DEF Inv, VoiceInv, IsActive, At, Closed
  <2>2. CASE r \notin Voice
    BY <2>2 DEF Inv, AppInv, AppRole, AppRefusal, Requests
  <2>3. QED
    BY <2>1, <2>2
<1>2. QED
  BY <1>1, Invariance, PTL

(* A key that an admin was shown is the key of a row, whatever is lost.     *)
THEOREM GivenKeysWork == Spec => []GivenKeyWorks
<1>1. Inv => GivenKeyWorks
  BY DEF Inv
<1>2. QED
  BY <1>1, Invariance, PTL
=============================================================================
