------------------------- MODULE ConversationProofs -------------------------
(***************************************************************************)
(* The safety properties of Conversation, for any number of robots,        *)
(* students and questions, any length of a history, and all faults.         *)
(***************************************************************************)
EXTENDS Conversation, TLAPS, SequenceTheorems, FiniteSetTheorems, WellFoundedInduction

(* getOrCreate... picks the latest of some sessions: there is one. *)
LEMMA LatestExists ==
    ASSUME NEW n \in Nat, NEW S \in SUBSET (1 .. n), S # {}
    PROVE  Latest(S) \in S
<1> DEFINE T == {m \in Nat : n - m \in S}
           Below == {ss \in Nat \X Nat : ss[1] < ss[2]}
<1>1. S \subseteq 1 .. n
  OBVIOUS
<1>2. T # {}
  <2>1. PICK s \in S : s \in 1 .. n
    BY <1>1
  <2>2. n - s \in Nat /\ n - (n - s) = s
    BY <2>1
  <2>3. QED
    BY <2>1, <2>2
<1>3. PICK x \in T : \A y \in T : <<y, x>> \notin Below
  <2>1. IsWellFoundedOn(Below, Nat)
    BY NatLessThanWellFounded DEF OpToRel
  <2>2. T \subseteq Nat
    OBVIOUS
  <2> HIDE DEF T, Below
  <2>3. QED
    BY <1>2, <2>1, <2>2, WFMin
<1>4. \A y \in T : x <= y
  <2> SUFFICES ASSUME NEW y \in T PROVE x <= y
    OBVIOUS
  <2>1. x \in Nat /\ y \in Nat /\ <<y, x>> \notin Below
    BY <1>3
  <2>2. ~(y < x)
    BY <2>1
  <2>3. QED
    BY <2>1, <2>2
<1>5. n - x \in S /\ \A t \in S : t <= n - x
  <2>1. x \in Nat /\ n - x \in S
    OBVIOUS
  <2>2. ASSUME NEW t \in S PROVE t <= n - x
    <3>1. t \in 1 .. n
      BY <1>1
    <3>2. n - t \in Nat /\ n - (n - t) = t
      BY <3>1
    <3>3. n - t \in T
      BY <3>2
    <3>4. x <= n - t
      BY <1>4, <3>3
    <3>5. QED
      BY <2>1, <3>1, <3>4
  <2>3. QED
    BY <2>1, <2>2
<1>6. QED
  BY <1>5 DEF Latest

-----------------------------------------------------------------------------
(* Tables only grow. *)

Grew(s, t) == DOMAIN s \subseteq DOMAIN t /\ \A i \in DOMAIN s : t[i] = s[i]

LEMMA AppendGrows ==
    ASSUME NEW S, NEW s \in Seq(S), NEW e \in S
    PROVE  /\ Append(s, e) \in Seq(S)
           /\ Grew(s, Append(s, e))
           /\ DOMAIN Append(s, e) = DOMAIN s \union {Len(s) + 1}
           /\ Append(s, e)[Len(s) + 1] = e
           /\ \A i \in DOMAIN s : i < Len(s) + 1
           /\ Len(Append(s, e)) = Len(s) + 1
<1>1. /\ Append(s, e) \in Seq(S)
      /\ Len(Append(s, e)) = Len(s) + 1
      /\ \A i \in 1 .. Len(s) : Append(s, e)[i] = s[i]
      /\ Append(s, e)[Len(s) + 1] = e
  BY AppendProperties
<1>2. Len(s) \in Nat /\ DOMAIN s = 1 .. Len(s) /\ DOMAIN Append(s, e) = 1 .. Len(s) + 1
  BY <1>1, LenProperties
<1>3. QED
  BY <1>1, <1>2 DEF Grew

LEMMA SeqOfMore ==
    ASSUME NEW S, NEW T, S \subseteq T, NEW s \in Seq(S)
    PROVE  s \in Seq(T)
BY SeqDef

-----------------------------------------------------------------------------
(* The inductive invariant: what a handler at its place has done. *)

Owns(r) == session[r] \in DOMAIN sessions /\ sessions[session[r]] = r.owner
HasStored(r, who) == \E i \in Stored(r, who) : messages[i].session = session[r]

TurnInv(r) ==
    /\ r.n > asked[r.owner] => At(r, "unasked")
    /\ pc[r] \in {"unasked", "transcribe", "decline"} => session[r] = 0
    /\ pc[r] \in {"history", "search", "answer", "question", "reply", "synthesize"} => Owns(r)
    /\ At(r, "reply") => HasStored(r, "user")
    /\ At(r, "synthesize") => HasStored(r, "assistant")
    /\ At(r, "served") /\ session[r] # 0 => Owns(r) /\ HasStored(r, "assistant")
    /\ r \in heard => At(r, "served")

Inv == /\ TypeOK
       /\ AnswersFollowQuestions
       /\ \A r \in Requests : TurnInv(r)

LEMMA RequestsType ==
    \A r \in Requests : r.owner \in Owners /\ r.n \in Nat /\ r.n <= MaxAsks[r.owner]
BY ConversationAssumption DEF Requests, Owners, ConversationAssumption

LEMMA Frame ==
    ASSUME NEW q \in Requests, TypeOK, TurnInv(q),
           Grew(sessions, sessions'), Grew(messages, messages'),
           pc'[q] = pc[q], session'[q] = session[q], q \in heard' => q \in heard,
           asked'[q.owner] \in Nat, asked[q.owner] <= asked'[q.owner]
    PROVE  TurnInv(q)'
<1>1. q.n > asked'[q.owner] => q.n > asked[q.owner]
  BY RequestsType DEF TypeOK
<1>2. Owns(q) => Owns(q)'
  BY DEF Owns, Grew
<1>3. \A who : HasStored(q, who) => HasStored(q, who)'
  <2> SUFFICES ASSUME NEW who, NEW i \in Stored(q, who), messages[i].session = session[q]
               PROVE  HasStored(q, who)'
    BY DEF HasStored
  <2>1. i \in DOMAIN messages /\ messages'[i] = messages[i]
    BY DEF Stored, Grew
  <2>2. i \in Stored(q, who)'
    BY <2>1 DEF Stored, Grew
  <2>3. QED
    BY <2>1, <2>2 DEF HasStored
<1>4. QED
  BY <1>1, <1>2, <1>3 DEF TurnInv, At

-----------------------------------------------------------------------------
(* How a handler moves on. *)

Moves(r, l) == (Goto(r, l) /\ UNCHANGED clientVars) \/ Close(r, l)

LEMMA MovesEffect ==
    ASSUME TypeOK, NEW r \in Requests, NEW l \in Open \union Closed, Moves(r, l)
    PROVE  /\ pc' = [pc EXCEPT ![r] = l]
           /\ pc' \in [Requests -> Open \union Closed]
           /\ asked' = asked /\ overlapped' = overlapped
           /\ waiting' \in [Owners -> BOOLEAN]
           /\ heard' \subseteq heard \union (IF l = "served" THEN {r} ELSE {})
<1>1. pc' = [pc EXCEPT ![r] = l] /\ pc' \in [Requests -> Open \union Closed]
  BY DEF Moves, Close, Goto, TypeOK
<1>2. asked' = asked /\ overlapped' = overlapped
  BY DEF Moves, Close, clientVars
<1>3. waiting' \in [Owners -> BOOLEAN]
  BY DEF Moves, Close, clientVars, TypeOK
<1>4. heard' \subseteq heard \union (IF l = "served" THEN {r} ELSE {})
  BY DEF Moves, Close, clientVars
<1>5. QED
  BY <1>1, <1>2, <1>3, <1>4

(* A step that moves r to l, when it leaves both tables alone. *)
LEMMA QuietStep ==
    ASSUME Inv, NEW r \in Requests, NEW l \in Open \union Closed, Moves(r, l),
           pc[r] \notin Closed,
           UNCHANGED <<sessions, messages>>,
           session' \in [Requests -> 0 .. Len(sessions)],
           recent' \in [Requests -> SUBSET DOMAIN messages],
           \A q \in Requests \ {r} : session'[q] = session[q],
           l # "reply", l # "synthesize", l # "unasked",
           l \in {"transcribe", "decline"} => session'[r] = 0,
           l \in {"history", "search", "answer", "question"} => Owns(r)',
           l = "served" /\ session'[r] # 0 => Owns(r)' /\ HasStored(r, "assistant")'
    PROVE  Inv'
<1>1. /\ pc' = [pc EXCEPT ![r] = l]
      /\ pc' \in [Requests -> Open \union Closed]
      /\ asked' = asked /\ overlapped' = overlapped
      /\ waiting' \in [Owners -> BOOLEAN]
      /\ heard' \subseteq heard \union (IF l = "served" THEN {r} ELSE {})
  BY MovesEffect DEF Inv
<1>2. TypeOK'
  BY <1>1 DEF Inv, TypeOK
<1>3. AnswersFollowQuestions'
  BY DEF Inv, AnswersFollowQuestions, Stored
<1>4. ASSUME NEW q \in Requests PROVE TurnInv(q)'
  <2>1. CASE q # r
    <3>1. pc'[q] = pc[q] /\ (q \in heard' => q \in heard)
      BY <1>1, <2>1 DEF Inv, TypeOK
    <3>2. asked[q.owner] \in Nat
      BY RequestsType DEF Inv, TypeOK
    <3>3. Grew(sessions, sessions') /\ Grew(messages, messages')
      BY DEF Grew
    <3>4. QED
      BY <1>1, <2>1, <3>1, <3>2, <3>3, Frame DEF Inv
  <2>2. CASE q = r
    <3>1. pc'[r] = l
      BY <1>1 DEF Inv, TypeOK
    <3>2. (r \notin heard /\ ~(r.n > asked[r.owner])) \/ pc[r] = "unasked"
      BY DEF Inv, TurnInv, At, Closed
    <3>3. pc[r] # "unasked"
      BY DEF Closed
    <3>4. r \in heard' => l = "served"
      BY <1>1, <3>2, <3>3
    <3>5. QED
      BY <1>1, <2>2, <3>1, <3>2, <3>3, <3>4 DEF TurnInv, At
  <2>3. QED
    BY <2>1, <2>2
<1>5. QED
  BY <1>2, <1>3, <1>4 DEF Inv

(* What the handler at hand knows of itself. *)
LEMMA OwnsStays ==
    ASSUME NEW r, Owns(r), UNCHANGED <<session, sessions>>
    PROVE  Owns(r)'
BY DEF Owns

LEMMA VoiceStepInv ==
    ASSUME Inv, NEW r \in Requests, Transcribe(r) \/ Decline(r)
    PROVE  Inv'
<1>1. PICK l \in {"select", "decline", "served", "refused", "error"} : Moves(r, l)
  BY DEF Transcribe, Decline, Transcripts, Moves
<1>2. UNCHANGED <<session, recent, sessions, messages>> /\ pc[r] \in {"transcribe", "decline"}
  BY DEF Transcribe, Decline, At
<1>3. session'[r] = 0
  BY <1>2 DEF Inv, TurnInv
<1>4. l \in Open \union Closed /\ pc[r] \notin Closed
  BY <1>2 DEF Open, Closed
<1>5. /\ session' \in [Requests -> 0 .. Len(sessions)]
      /\ recent' \in [Requests -> SUBSET DOMAIN messages]
  BY <1>2 DEF Inv, TypeOK
<1>6. /\ l # "reply" /\ l # "synthesize" /\ l # "unasked"
      /\ l \in {"transcribe", "decline"} => session'[r] = 0
      /\ l \in {"history", "search", "answer", "question"} => Owns(r)'
  BY <1>1, <1>3
<1>7. ~(l = "served" /\ session'[r] # 0)
  BY <1>3
<1>8. \A q \in Requests \ {r} : session'[q] = session[q]
  BY <1>2
<1>9. UNCHANGED <<sessions, messages>>
  BY <1>2
<1>10. QED
  BY <1>1, <1>4, <1>5, <1>6, <1>7, <1>8, <1>9, QuietStep

LEMMA SelectStepInv ==
    ASSUME Inv, NEW r \in Requests, SelectSession(r)
    PROVE  Inv'
<1>1. PICK rep \in Replies :
        /\ At(r, "select")
        /\ IF SessionsOf(r.owner) = {}
           THEN Proceed(r, rep = "ok", "create") /\ UNCHANGED session
           ELSE /\ Proceed(r, rep = "ok", AfterSession(r))
                /\ session' = [session EXCEPT ![r] = Latest(SessionsOf(r.owner))]
        /\ UNCHANGED <<recent, sessions, messages>>
  BY DEF SelectSession
<1>2. pc[r] \notin Closed
  BY <1>1 DEF At, Closed
<1>3. CASE SessionsOf(r.owner) = {}
  <2>1. PICK l \in {"create", "error"} : Moves(r, l)
    BY <1>1, <1>3 DEF Proceed, Moves
  <2>2. l \in Open \union Closed
    BY DEF Open, Closed
  <2>3. QED
    BY <1>1, <1>2, <1>3, <2>1, <2>2, QuietStep DEF Inv, TypeOK
<1>4. CASE SessionsOf(r.owner) # {}
  <2>1. PICK l \in {"history", "search", "error"} : Moves(r, l)
    BY <1>1, <1>4 DEF Proceed, Moves, AfterSession
  <2>2. Latest(SessionsOf(r.owner)) \in SessionsOf(r.owner)
    <3>1. Len(sessions) \in Nat /\ DOMAIN sessions = 1 .. Len(sessions)
      BY LenProperties DEF Inv, TypeOK
    <3>2. QED
      BY <1>4, <3>1, LatestExists DEF SessionsOf
  <2>3. /\ session' \in [Requests -> 0 .. Len(sessions)]
        /\ session'[r] \in DOMAIN sessions
        /\ sessions[session'[r]] = r.owner
    <3>1. Len(sessions) \in Nat /\ DOMAIN sessions = 1 .. Len(sessions)
      BY LenProperties DEF Inv, TypeOK
    <3>2. QED
      BY <1>1, <1>4, <2>2, <3>1 DEF SessionsOf, Inv, TypeOK
  <2>4. Owns(r)'
    BY <1>1, <2>3 DEF Owns
  <2>5. \A q \in Requests \ {r} : session'[q] = session[q]
    BY <1>1, <1>4 DEF Inv, TypeOK
  <2>6. l \in Open \union Closed
    BY DEF Open, Closed
  <2>7. recent' \in [Requests -> SUBSET DOMAIN messages]
    BY <1>1 DEF Inv, TypeOK
  <2>8. QED
    BY <1>1, <1>2, <2>1, <2>3, <2>4, <2>5, <2>6, <2>7, QuietStep
<1>5. QED
  BY <1>3, <1>4

LEMMA AskStepInv ==
    ASSUME Inv, NEW r \in Requests, GetRecentHistory(r) \/ Search(r) \/ AnswerQuestion(r)
    PROVE  Inv'
<1>1. PICK l \in {"search", "answer", "question", "error"} : Moves(r, l)
  BY DEF GetRecentHistory, Search, AnswerQuestion, Proceed, Moves
<1>2. UNCHANGED <<session, sessions, messages>> /\ pc[r] \in {"history", "search", "answer"}
  BY DEF GetRecentHistory, Search, AnswerQuestion, At
<1>3. recent' \in [Requests -> SUBSET DOMAIN messages]
  <2>1. \A s : Recent(s) \in SUBSET DOMAIN messages
    BY DEF Recent, MessagesOf
  <2>2. QED
    BY <2>1 DEF GetRecentHistory, Search, AnswerQuestion, Inv, TypeOK
<1>4. Owns(r)'
  BY <1>2, OwnsStays DEF Inv, TurnInv
<1>5. l \in Open \union Closed /\ pc[r] \notin Closed
  BY <1>2 DEF Open, Closed
<1>6. session' \in [Requests -> 0 .. Len(sessions)]
  BY <1>2 DEF Inv, TypeOK
<1>7. QED
  BY <1>1, <1>2, <1>3, <1>4, <1>5, <1>6, QuietStep

LEMMA SynthesizeStepInv ==
    ASSUME Inv, NEW r \in Requests, Synthesize(r)
    PROVE  Inv'
<1>1. PICK l \in {"served", "refused", "error"} : Moves(r, l)
  BY DEF Synthesize, Spoken, Moves
<1>2. UNCHANGED <<session, recent, sessions, messages>> /\ At(r, "synthesize")
  BY DEF Synthesize
<1>3. Owns(r)' /\ HasStored(r, "assistant")'
  <2>1. Owns(r) /\ HasStored(r, "assistant")
    BY <1>2 DEF Inv, TurnInv, At
  <2>2. QED
    BY <1>2, <2>1 DEF Owns, HasStored, Stored
<1>4. l \in Open \union Closed /\ pc[r] \notin Closed
  BY <1>2 DEF Open, Closed, At
<1>5. QED
  BY <1>1, <1>2, <1>3, <1>4, QuietStep DEF Inv, TypeOK

LEMMA CutInv ==
    ASSUME Inv, NEW r \in Requests, Cut(r)
    PROVE  Inv'
<1>1. Moves(r, "cut") /\ UNCHANGED <<session, recent, sessions, messages>> /\ pc[r] \in Open
  BY DEF Cut, Moves
<1>2. "cut" \in Open \union Closed /\ pc[r] \notin Closed
  BY <1>1 DEF Open, Closed
<1>3. QED
  BY <1>1, <1>2, QuietStep DEF Inv, TypeOK

-----------------------------------------------------------------------------
(* The steps that write. *)

LEMMA CreateStepInv ==
    ASSUME Inv, NEW r \in Requests, CreateSession(r)
    PROVE  Inv'
<1>1. PICK rep \in Replies :
        /\ At(r, "create")
        /\ sessions' = IF Took(rep) THEN Append(sessions, r.owner) ELSE sessions
        /\ Proceed(r, rep = "ok", AfterSession(r))
        /\ session' = IF rep = "ok" THEN [session EXCEPT ![r] = Len(sessions')] ELSE session
        /\ UNCHANGED <<recent, messages>>
  BY DEF CreateSession
<1>2. PICK l \in {"history", "search", "error"} :
        Moves(r, l) /\ (l # "error" => rep = "ok")
  BY <1>1 DEF Proceed, Moves, AfterSession
<1>3. l \in Open \union Closed
  BY DEF Open, Closed
<1>4. /\ pc' = [pc EXCEPT ![r] = l]
      /\ pc' \in [Requests -> Open \union Closed]
      /\ asked' = asked /\ overlapped' = overlapped
      /\ waiting' \in [Owners -> BOOLEAN]
      /\ heard' \subseteq heard
  BY <1>2, <1>3, MovesEffect DEF Inv
<1>5. /\ sessions' \in Seq(Owners)
      /\ Grew(sessions, sessions')
      /\ Len(sessions) \in Nat /\ Len(sessions') \in Nat /\ Len(sessions) <= Len(sessions')
      /\ Took(rep) => /\ Len(sessions') \in DOMAIN sessions'
                      /\ sessions'[Len(sessions')] = r.owner
  <2>1. sessions \in Seq(Owners) /\ r.owner \in Owners /\ Len(sessions) \in Nat
    BY RequestsType, LenProperties DEF Inv, TypeOK
  <2>2. CASE Took(rep)
    BY <1>1, <2>1, <2>2, AppendGrows
  <2>3. CASE ~Took(rep)
    BY <1>1, <2>1, <2>3 DEF Grew
  <2>4. QED
    BY <2>2, <2>3
<1>6. session' \in [Requests -> 0 .. Len(sessions')]
  BY <1>1, <1>5 DEF Inv, TypeOK
<1>7. messages' \in Seq([session : DOMAIN sessions', role : {"user", "assistant"}, request : Requests])
  <2> DEFINE Before == [session : DOMAIN sessions, role : {"user", "assistant"}, request : Requests]
             After == [session : DOMAIN sessions', role : {"user", "assistant"}, request : Requests]
  <2>1. Before \subseteq After
    BY <1>5 DEF Grew
  <2>2. messages \in Seq(Before) /\ messages' = messages
    BY <1>1 DEF Inv, TypeOK
  <2> HIDE DEF Before, After
  <2>3. messages \in Seq(After)
    BY <2>1, <2>2, SeqOfMore
  <2>4. QED
    BY <2>2, <2>3 DEF After
<1>8. TypeOK'
  BY <1>1, <1>4, <1>5, <1>6, <1>7 DEF Inv, TypeOK
<1>9. AnswersFollowQuestions'
  BY <1>1 DEF Inv, AnswersFollowQuestions, Stored
<1>10. ASSUME NEW q \in Requests PROVE TurnInv(q)'
  <2>1. CASE q # r
    <3>1. pc'[q] = pc[q] /\ session'[q] = session[q] /\ (q \in heard' => q \in heard)
      BY <1>1, <1>4, <2>1 DEF Inv, TypeOK
    <3>2. asked[q.owner] \in Nat
      BY RequestsType DEF Inv, TypeOK
    <3>3. Grew(messages, messages')
      BY <1>1 DEF Grew
    <3>4. QED
      BY <1>4, <1>5, <3>1, <3>2, <3>3, Frame DEF Inv
  <2>2. CASE q = r
    <3>1. pc'[r] = l /\ pc[r] = "create"
      BY <1>1, <1>4 DEF Inv, TypeOK, At
    <3>2. l # "error" => Owns(r)'
      BY <1>1, <1>2, <1>5 DEF Owns, Took, Inv, TypeOK
    <3>3. r \notin heard' /\ ~(r.n > asked'[r.owner])
      BY <1>4, <3>1 DEF Inv, TurnInv, At
    <3>4. QED
      BY <2>2, <3>1, <3>2, <3>3 DEF TurnInv, At
  <2>3. QED
    BY <2>1, <2>2
<1>11. QED
  BY <1>8, <1>9, <1>10 DEF Inv

(* A message of r, of either role, at the end of chat_messages. *)
LEMMA AppendStepInv ==
    ASSUME Inv, NEW r \in Requests, NEW who \in {"user", "assistant"}, NEW rep \in Replies,
           NEW l \in {"reply", "synthesize", "served", "error"},
           At(r, IF who = "user" THEN "question" ELSE "reply"),
           AppendMessage(r, who, rep), Moves(r, l),
           UNCHANGED <<session, recent, sessions>>,
           l # "error" => rep = "ok",
           l = "reply" => who = "user",
           l \in {"synthesize", "served"} => who = "assistant"
    PROVE  Inv'
<1> DEFINE e == [session |-> session[r], role |-> who, request |-> r]
           Message == [session : DOMAIN sessions, role : {"user", "assistant"}, request : Requests]
<1>1. Owns(r) /\ (who = "assistant" => HasStored(r, "user"))
  BY DEF Inv, TurnInv, At
<1>2. messages \in Seq(Message) /\ e \in Message
  BY <1>1 DEF Inv, TypeOK, Owns
<1>3. messages' = IF Took(rep) THEN Append(messages, e) ELSE messages
  BY DEF AppendMessage
<1> HIDE DEF e, Message
<1>4. l \in Open \union Closed
  BY DEF Open, Closed
<1>5. /\ pc' = [pc EXCEPT ![r] = l]
      /\ pc' \in [Requests -> Open \union Closed]
      /\ asked' = asked /\ overlapped' = overlapped
      /\ waiting' \in [Owners -> BOOLEAN]
      /\ heard' \subseteq heard \union (IF l = "served" THEN {r} ELSE {})
  BY <1>4, MovesEffect DEF Inv
<1>6. messages' \in Seq(Message) /\ Grew(messages, messages')
  <2>1. CASE Took(rep)
    BY <1>2, <1>3, <2>1, AppendGrows
  <2>2. CASE ~Took(rep)
    BY <1>2, <1>3, <2>2 DEF Grew
  <2>3. QED
    BY <2>1, <2>2
<1>7. recent' \in [Requests -> SUBSET DOMAIN messages']
  BY <1>6 DEF Inv, TypeOK, Grew
<1>8. TypeOK'
  BY <1>5, <1>6, <1>7 DEF Inv, TypeOK, Message
<1>9. Took(rep) => \E i \in Stored(r, who)' : messages'[i].session = session'[r]
  <2> SUFFICES ASSUME Took(rep) PROVE \E i \in Stored(r, who)' : messages'[i].session = session'[r]
    OBVIOUS
  <2>1. /\ Len(messages) + 1 \in DOMAIN messages'
        /\ messages'[Len(messages) + 1] = e
    BY <1>2, <1>3, AppendGrows
  <2>2. QED
    BY <2>1 DEF Stored, e
<1>10. AnswersFollowQuestions'
  <2> SUFFICES ASSUME NEW i \in DOMAIN messages', messages'[i].role = "assistant"
               PROVE  \E j \in DOMAIN messages' :
                         /\ messages'[j].request = messages'[i].request
                         /\ messages'[j].role = "user"
                         /\ j < i /\ messages'[j].session = messages'[i].session
    BY DEF AnswersFollowQuestions, Stored
  <2>1. CASE i \in DOMAIN messages
    <3>1. messages'[i] = messages[i]
      BY <1>6, <2>1 DEF Grew
    <3>2. PICK j \in Stored(messages[i].request, "user") :
             j < i /\ messages[j].session = messages[i].session
      BY <2>1, <3>1 DEF Inv, AnswersFollowQuestions
    <3>3. j \in DOMAIN messages' /\ messages'[j] = messages[j]
      BY <1>6, <3>2 DEF Stored, Grew
    <3>4. QED
      BY <3>1, <3>2, <3>3 DEF Stored
  <2>2. CASE i \notin DOMAIN messages
    <3>1. /\ i = Len(messages) + 1 /\ messages'[i] = e
          /\ \A j \in DOMAIN messages : j < i
      BY <1>2, <1>3, <2>2, AppendGrows
    <3>2. PICK j \in Stored(r, "user") : messages[j].session = session[r]
      BY <1>1, <3>1 DEF HasStored, e
    <3>3. j \in DOMAIN messages' /\ messages'[j] = messages[j] /\ j < i
      BY <1>6, <3>1, <3>2 DEF Stored, Grew
    <3>4. QED
      BY <3>1, <3>2, <3>3 DEF Stored, e
  <2>3. QED
    BY <2>1, <2>2
<1>11. ASSUME NEW q \in Requests PROVE TurnInv(q)'
  <2>1. CASE q # r
    <3>1. pc'[q] = pc[q] /\ session'[q] = session[q] /\ (q \in heard' => q \in heard)
      BY <1>5, <2>1 DEF Inv, TypeOK
    <3>2. asked[q.owner] \in Nat
      BY RequestsType DEF Inv, TypeOK
    <3>3. Grew(sessions, sessions')
      BY DEF Grew
    <3>4. QED
      BY <1>5, <1>6, <3>1, <3>2, <3>3, Frame DEF Inv
  <2>2. CASE q = r
    <3>1. pc'[r] = l /\ pc[r] \in {"question", "reply"}
      BY <1>5 DEF Inv, TypeOK, At
    <3>2. Owns(r)' /\ (l # "error" => HasStored(r, who)')
      BY <1>1, <1>9 DEF Owns, HasStored, Took
    <3>3. /\ r \in heard' => l = "served"
          /\ ~(r.n > asked'[r.owner])
      BY <1>5, <3>1 DEF Inv, TurnInv, At
    <3>4. QED
      BY <2>2, <3>1, <3>2, <3>3 DEF TurnInv, At
  <2>3. QED
    BY <2>1, <2>2
<1>12. QED
  BY <1>8, <1>10, <1>11 DEF Inv

LEMMA StoreStepInv ==
    ASSUME Inv, NEW r \in Requests, AppendQuestion(r) \/ AppendReply(r)
    PROVE  Inv'
<1>1. CASE AppendQuestion(r)
  <2>1. PICK rep \in Replies :
          /\ At(r, "question")
          /\ AppendMessage(r, "user", rep)
          /\ Proceed(r, rep = "ok", "reply")
          /\ UNCHANGED <<session, recent, sessions>>
    BY <1>1 DEF AppendQuestion
  <2>2. PICK l \in {"reply", "error"} : Moves(r, l) /\ (l # "error" => rep = "ok")
    BY <2>1 DEF Proceed, Moves
  <2>3. At(r, IF "user" = "user" THEN "question" ELSE "reply")
    BY <2>1
  <2>4. l \in {"reply", "synthesize", "served", "error"} /\ l \notin {"synthesize", "served"}
    BY <2>2
  <2>5. QED
    BY <2>1, <2>2, <2>3, <2>4, AppendStepInv
<1>2. CASE AppendReply(r)
  <2>1. PICK rep \in Replies :
          /\ At(r, "reply")
          /\ AppendMessage(r, "assistant", rep)
          /\ IF r.owner \in Devices
             THEN Proceed(r, AfterReply(rep), "synthesize")
             ELSE Close(r, IF AfterReply(rep) THEN "served" ELSE "error")
          /\ UNCHANGED <<session, recent, sessions>>
    BY <1>2 DEF AppendReply
  <2>2. PICK l \in {"synthesize", "served", "error"} :
          Moves(r, l) /\ (l # "error" => rep = "ok")
    BY <2>1 DEF Proceed, Moves, AfterReply
  <2>3. At(r, IF "assistant" = "user" THEN "question" ELSE "reply")
    BY <2>1
  <2>4. l \in {"reply", "synthesize", "served", "error"} /\ l # "reply"
    BY <2>2
  <2>5. QED
    BY <2>1, <2>2, <2>3, <2>4, AppendStepInv
<1>3. QED
  BY <1>1, <1>2

-----------------------------------------------------------------------------
(* The clients. *)

LEMMA AskInv ==
    ASSUME Inv, NEW o \in Owners, Ask(o)
    PROVE  Inv'
<1> DEFINE r == [owner |-> o, n |-> asked[o] + 1]
<1>1. /\ asked \in [Owners -> Nat] /\ asked[o] < MaxAsks[o]
      /\ asked' = [asked EXCEPT ![o] = asked[o] + 1]
      /\ waiting' = [waiting EXCEPT ![o] = TRUE]
      /\ UNCHANGED <<session, recent, sessions, messages, heard>>
  BY DEF Ask, Inv, TypeOK
<1>2. asked[o] \in Nat /\ MaxAsks[o] \in Nat
  BY <1>1, ConversationAssumption DEF ConversationAssumption, Owners
<1>3. r \in Requests /\ r.owner = o /\ r.n = asked[o] + 1
  <2>1. asked[o] + 1 \in 1 .. MaxAsks[o]
    BY <1>1, <1>2
  <2>2. r \in [owner : {o}, n : 1 .. MaxAsks[o]]
    BY <2>1
  <2>3. QED
    BY <2>2 DEF Requests
<1>4. PICK l \in {"transcribe", "select"} : pc' = [pc EXCEPT ![r] = l]
  BY DEF Ask, Goto
<1>5. r.n > asked[r.owner]
  BY <1>2, <1>3
<1>6. At(r, "unasked") /\ session[r] = 0 /\ r \notin heard
  BY <1>3, <1>5 DEF Inv, TurnInv, At
<1> HIDE DEF r
<1>7. /\ asked' \in [Owners -> Nat]
      /\ \A p \in Owners : asked[p] <= asked'[p] /\ asked'[p] <= MaxAsks[p]
  BY <1>1, <1>2 DEF Inv, TypeOK
<1>8. TypeOK'
  <2>1. pc' \in [Requests -> Open \union Closed]
    BY <1>3, <1>4 DEF Inv, TypeOK, Open
  <2>2. waiting' \in [Owners -> BOOLEAN] /\ overlapped' \subseteq Owners
    BY <1>1 DEF Ask, Inv, TypeOK
  <2>3. QED
    BY <1>1, <1>7, <2>1, <2>2 DEF Inv, TypeOK
<1>9. AnswersFollowQuestions'
  BY <1>1 DEF Inv, AnswersFollowQuestions, Stored
<1>10. ASSUME NEW q \in Requests PROVE TurnInv(q)'
  <2>1. CASE q # r
    <3>1. pc'[q] = pc[q] /\ session'[q] = session[q] /\ (q \in heard' => q \in heard)
      BY <1>1, <1>4, <2>1 DEF Inv, TypeOK
    <3>2. asked'[q.owner] \in Nat /\ asked[q.owner] <= asked'[q.owner]
      BY <1>7, RequestsType
    <3>3. Grew(sessions, sessions') /\ Grew(messages, messages')
      BY <1>1 DEF Grew
    <3>4. QED
      BY <3>1, <3>2, <3>3, Frame DEF Inv
  <2>2. CASE q = r
    <3>1. pc'[r] \in {"transcribe", "select"}
      BY <1>3, <1>4 DEF Inv, TypeOK
    <3>2. session'[r] = 0 /\ r \notin heard'
      BY <1>1, <1>6
    <3>3. ~(r.n > asked'[r.owner])
      BY <1>1, <1>2, <1>3
    <3>4. QED
      BY <2>2, <3>1, <3>2, <3>3 DEF TurnInv, At
  <2>3. QED
    BY <2>1, <2>2
<1>11. QED
  BY <1>8, <1>9, <1>10 DEF Inv

LEMMA StutterInv ==
    ASSUME Inv, waiting' \in [Owners -> BOOLEAN],
           UNCHANGED <<asked, heard, overlapped, handlerVars, sessions, messages>>
    PROVE  Inv'
<1>1. UNCHANGED <<asked, heard, overlapped, pc, session, recent, sessions, messages>>
  BY DEF handlerVars
<1>2. TypeOK'
  BY <1>1 DEF Inv, TypeOK
<1>3. AnswersFollowQuestions'
  BY <1>1 DEF Inv, AnswersFollowQuestions, Stored
<1>4. \A q \in Requests : TurnInv(q)'
  BY <1>1 DEF Inv, TurnInv, At, Owns, HasStored, Stored
<1>5. QED
  BY <1>2, <1>3, <1>4 DEF Inv

-----------------------------------------------------------------------------

LEMMA InitInv == Init => Inv
<1> SUFFICES ASSUME Init PROVE Inv
  OBVIOUS
<1>1. TypeOK
  <2>1. /\ sessions \in Seq(Owners) /\ Len(sessions) = 0
        /\ messages \in Seq([session : DOMAIN sessions, role : {"user", "assistant"},
                              request : Requests])
    BY EmptySeq DEF Init
  <2>2. asked \in [Owners -> Nat] /\ \A o \in Owners : asked[o] <= MaxAsks[o]
    BY ConversationAssumption DEF Init, ConversationAssumption, Owners
  <2>3. session \in [Requests -> 0 .. Len(sessions)]
    BY <2>1 DEF Init
  <2>4. QED
    BY <2>1, <2>2, <2>3 DEF Init, TypeOK, Closed
<1>2. AnswersFollowQuestions
  BY DEF Init, AnswersFollowQuestions
<1>3. \A r \in Requests : TurnInv(r)
  BY DEF Init, TurnInv, At
<1>4. QED
  BY <1>1, <1>2, <1>3 DEF Inv

LEMMA NextInv == Inv /\ [Next]_vars => Inv'
<1> SUFFICES ASSUME Inv, [Next]_vars PROVE Inv'
  OBVIOUS
<1>1. ASSUME NEW o \in Owners, Ask(o) PROVE Inv'
  BY <1>1, AskInv
<1>2. ASSUME NEW o \in Owners, GiveUp(o) PROVE Inv'
  <2>1. waiting' \in [Owners -> BOOLEAN]
    BY <1>2 DEF GiveUp, Inv, TypeOK
  <2>2. QED
    BY <1>2, <2>1, StutterInv DEF GiveUp
<1>3. ASSUME NEW r \in Requests, Handle(r) PROVE Inv'
  BY <1>3, VoiceStepInv, SelectStepInv, CreateStepInv, AskStepInv, StoreStepInv,
     SynthesizeStepInv DEF Handle
<1>4. ASSUME NEW r \in Requests, Cut(r) PROVE Inv'
  BY <1>4, CutInv
<1>5. ASSUME UNCHANGED vars PROVE Inv'
  <2>1. /\ UNCHANGED <<asked, heard, overlapped, handlerVars, sessions, messages>>
        /\ waiting' = waiting
    BY <1>5 DEF vars, clientVars
  <2>2. QED
    BY <2>1, StutterInv DEF Inv, TypeOK
<1>6. QED
  BY <1>1, <1>2, <1>3, <1>4, <1>5 DEF Next

(* The invariant behind the theorems: what each handler has stored where it is. *)
THEOREM Invariance == Spec => []Inv
<1>1. Init => Inv
  BY InitInv
<1>2. Inv /\ [Next]_vars => Inv'
  BY NextInv
<1>3. QED
  BY <1>1, <1>2, PTL DEF Spec

(* The tables chat_sessions and chat_messages and the handlers' locals keep *)
(* their types: no message ever names a session that does not exist.        *)
THEOREM TypeCorrect == Spec => []TypeOK
<1>1. Inv => TypeOK
  BY DEF Inv
<1>2. QED
  BY <1>1, Invariance, PTL

(* However handlers interleave, fail and die, a stored reply stands behind  *)
(* its question, in the same session (GatewayAskService.ask).               *)
THEOREM AnswersFollow == Spec => []AnswersFollowQuestions
<1>1. Inv => AnswersFollowQuestions
  BY DEF Inv
<1>2. QED
  BY <1>1, Invariance, PTL

(* An answer that reached its asker from a session is stored in that        *)
(* session, and the session is the asker's own.                             *)
THEOREM HeardIsStored == Spec => []HeardTurnIsStored
<1>1. Inv => HeardTurnIsStored
  <2> SUFFICES ASSUME Inv, NEW r \in heard, session[r] # 0
               PROVE  \E i \in Stored(r, "assistant") :
                         /\ messages[i].session = session[r]
                         /\ sessions[session[r]] = r.owner
    BY DEF HeardTurnIsStored
  <2>1. r \in Requests
    BY DEF Inv, TypeOK
  <2>2. Owns(r) /\ HasStored(r, "assistant")
    BY <2>1 DEF Inv, TurnInv
  <2>3. QED
    BY <2>2 DEF Owns, HasStored
<1>2. QED
  BY <1>1, Invariance, PTL

-----------------------------------------------------------------------------
(* What a history contains.  An owner who never asked twice at a time has   *)
(* one open handler at most, so no handler of theirs can create a session   *)
(* beside another: they have one session, and all their messages are in it. *)

OwnerInv == \A i \in DOMAIN messages : sessions[messages[i].session] = messages[i].request.owner

SoleInv(o) ==
    o \notin overlapped =>
        /\ \A q, r \in Requests :
               q.owner = o /\ r.owner = o /\ pc[q] \in Open /\ pc[r] \in Open => q = r
        /\ \A r \in Requests : r.owner = o /\ At(r, "create") => SessionsOf(o) = {}
        /\ \A s, t \in SessionsOf(o) : s = t

HistoryInv == Inv /\ OwnerInv /\ \A o \in Owners : SoleInv(o)

LEMMA MessageType ==
    ASSUME TypeOK, NEW i \in DOMAIN messages
    PROVE  messages[i].session \in DOMAIN sessions
<1>1. messages \in Seq([session : DOMAIN sessions, role : {"user", "assistant"}, request : Requests])
  BY DEF TypeOK
<1>2. messages[i] \in [session : DOMAIN sessions, role : {"user", "assistant"}, request : Requests]
  BY <1>1, ElementOfSeq, LenProperties
<1>3. QED
  BY <1>2

LEMMA OwnerFrame ==
    ASSUME TypeOK, OwnerInv, Grew(sessions, sessions'), messages' = messages
    PROVE  OwnerInv'
BY MessageType DEF OwnerInv, Grew

(* A handler moves on, and no session is created. *)
LEMMA SoleFrame ==
    ASSUME TypeOK, NEW o \in Owners, SoleInv(o), NEW r \in Requests, pc[r] \in Open,
           NEW l, pc' = [pc EXCEPT ![r] = l],
           UNCHANGED <<sessions, overlapped>>,
           l = "create" => SessionsOf(r.owner) = {}
    PROVE  SoleInv(o)'
<1>1. \A q \in Requests : pc'[q] = IF q = r THEN l ELSE pc[q]
  BY DEF TypeOK
<1>2. \A q \in Requests : pc'[q] \in Open => pc[q] \in Open
  BY <1>1
<1>3. SessionsOf(o)' = SessionsOf(o)
  BY DEF SessionsOf
<1>4. QED
  BY <1>1, <1>2, <1>3 DEF SoleInv, At

(* The steps of a handler that create no session. *)
LEMMA QuietHistory ==
    ASSUME HistoryInv, NEW r \in Requests,
           \/ Transcribe(r) \/ Decline(r) \/ SelectSession(r) \/ GetRecentHistory(r)
           \/ Search(r) \/ AnswerQuestion(r) \/ AppendQuestion(r) \/ AppendReply(r)
           \/ Synthesize(r) \/ Cut(r)
    PROVE  \A o \in Owners : SoleInv(o)'
<1>1. PICK l \in Open \union Closed :
        Moves(r, l) /\ (l = "create" => SessionsOf(r.owner) = {})
  <2>1. CASE Transcribe(r) \/ Decline(r) \/ Synthesize(r) \/ Cut(r)
    BY <2>1 DEF Transcribe, Decline, Synthesize, Cut, Transcripts, Spoken, Moves, Open, Closed
  <2>2. CASE SelectSession(r)
    BY <2>2 DEF SelectSession, Proceed, AfterSession, Moves, Open, Closed
  <2>3. CASE GetRecentHistory(r) \/ Search(r) \/ AnswerQuestion(r)
    BY <2>3 DEF GetRecentHistory, Search, AnswerQuestion, Proceed, Moves, Open, Closed
  <2>4. CASE AppendQuestion(r) \/ AppendReply(r)
    BY <2>4 DEF AppendQuestion, AppendReply, Proceed, Moves, Open, Closed
  <2>5. QED
    BY <2>1, <2>2, <2>3, <2>4
<1>2. pc' = [pc EXCEPT ![r] = l] /\ overlapped' = overlapped
  BY <1>1, MovesEffect DEF HistoryInv, Inv
<1>3. pc[r] \in Open /\ sessions' = sessions
  BY DEF Transcribe, Decline, SelectSession, GetRecentHistory, Search, AnswerQuestion,
         AppendQuestion, AppendReply, Synthesize, Cut, At, Open
<1>4. QED
  BY <1>1, <1>2, <1>3, SoleFrame DEF HistoryInv, Inv

(* The steps that store nothing keep the owners of what is stored. *)
LEMMA StoresNothing ==
    ASSUME HistoryInv, NEW r \in Requests,
           \/ Transcribe(r) \/ Decline(r) \/ SelectSession(r) \/ GetRecentHistory(r)
           \/ Search(r) \/ AnswerQuestion(r) \/ Synthesize(r) \/ Cut(r)
    PROVE  OwnerInv'
<1>1. UNCHANGED <<sessions, messages>>
  BY DEF Transcribe, Decline, SelectSession, GetRecentHistory, Search, AnswerQuestion,
         Synthesize, Cut
<1>2. QED
  BY <1>1, OwnerFrame DEF HistoryInv, Inv, Grew

LEMMA StoresOwn ==
    ASSUME HistoryInv, NEW r \in Requests, AppendQuestion(r) \/ AppendReply(r)
    PROVE  OwnerInv'
<1>1. PICK who \in {"user", "assistant"}, rep \in Replies :
        /\ AppendMessage(r, who, rep)
        /\ pc[r] \in {"question", "reply"}
        /\ UNCHANGED <<session, sessions>>
  BY DEF AppendQuestion, AppendReply, At
<1> DEFINE e == [session |-> session[r], role |-> who, request |-> r]
           Message == [session : DOMAIN sessions, role : {"user", "assistant"}, request : Requests]
<1>2. Owns(r)
  BY <1>1 DEF HistoryInv, Inv, TurnInv
<1>3. messages \in Seq(Message) /\ e \in Message
  BY <1>2 DEF HistoryInv, Inv, TypeOK, Owns
<1>4. e.session = session[r] /\ e.request = r
  OBVIOUS
<1>5. messages' = IF Took(rep) THEN Append(messages, e) ELSE messages
  BY <1>1 DEF AppendMessage
<1> HIDE DEF e, Message
<1>6. \A i \in DOMAIN messages' :
         \/ i \in DOMAIN messages /\ messages'[i] = messages[i]
         \/ messages'[i] = e
  <2>1. CASE Took(rep)
    BY <1>3, <1>5, <2>1, AppendGrows DEF Grew
  <2>2. CASE ~Took(rep)
    BY <1>5, <2>2
  <2>3. QED
    BY <2>1, <2>2
<1>7. QED
  BY <1>1, <1>2, <1>4, <1>6 DEF HistoryInv, OwnerInv, Owns

(* A session is only created for an owner who has none. *)
LEMMA CreateHistory ==
    ASSUME HistoryInv, NEW r \in Requests, CreateSession(r)
    PROVE  OwnerInv' /\ \A o \in Owners : SoleInv(o)'
<1>1. PICK rep \in Replies :
        /\ At(r, "create")
        /\ sessions' = IF Took(rep) THEN Append(sessions, r.owner) ELSE sessions
        /\ Proceed(r, rep = "ok", AfterSession(r))
        /\ messages' = messages
  BY DEF CreateSession
<1>2. PICK l \in {"history", "search", "error"} : Moves(r, l)
  BY <1>1 DEF Proceed, Moves, AfterSession
<1>3. pc' = [pc EXCEPT ![r] = l] /\ overlapped' = overlapped
  <2>1. l \in Open \union Closed
    BY DEF Open, Closed
  <2>2. QED
    BY <1>2, <2>1, MovesEffect DEF HistoryInv, Inv
<1>4. /\ Grew(sessions, sessions')
      /\ \A s \in DOMAIN sessions' :
             \/ s \in DOMAIN sessions
             \/ s = Len(sessions) + 1 /\ sessions'[s] = r.owner
  <2>1. sessions \in Seq(Owners) /\ r.owner \in Owners
    BY RequestsType DEF HistoryInv, Inv, TypeOK
  <2>2. CASE Took(rep)
    BY <1>1, <2>1, <2>2, AppendGrows
  <2>3. CASE ~Took(rep)
    BY <1>1, <2>3 DEF Grew
  <2>4. QED
    BY <2>2, <2>3
<1>5. OwnerInv'
  BY <1>1, <1>4, OwnerFrame DEF HistoryInv, Inv
<1>6. \A q \in Requests : pc'[q] = IF q = r THEN l ELSE pc[q]
  BY <1>3 DEF HistoryInv, Inv, TypeOK
<1>7. pc[r] = "create" /\ pc[r] \in Open /\ l # "create"
  BY <1>1 DEF At, Open
<1>8. ASSUME NEW o \in Owners PROVE SoleInv(o)'
  <2>1. SoleInv(o)
    BY DEF HistoryInv
  <2>2. CASE o # r.owner
    <3>1. SessionsOf(o)' = SessionsOf(o)
      BY <1>4, <2>2 DEF SessionsOf, Grew
    <3>2. QED
      BY <1>3, <1>6, <2>1, <2>2, <3>1 DEF SoleInv, At
  <2>3. CASE o = r.owner
    <3> SUFFICES ASSUME o \notin overlapped' PROVE SoleInv(o)'
      BY DEF SoleInv
    <3>1. /\ \A p, q \in Requests :
               p.owner = o /\ q.owner = o /\ pc[p] \in Open /\ pc[q] \in Open => p = q
          /\ SessionsOf(o) = {}
      BY <1>1, <1>3, <2>1, <2>3 DEF SoleInv
    <3>2. \A s, t \in SessionsOf(o)' : s = t
      BY <1>4, <3>1 DEF SessionsOf, Grew
    <3>3. \A q \in Requests : q.owner = o => pc'[q] # "create"
      BY <1>6, <1>7, <2>3, <3>1 DEF Open
    <3>4. \A p, q \in Requests :
              p.owner = o /\ q.owner = o /\ pc'[p] \in Open /\ pc'[q] \in Open => p = q
      BY <1>6, <1>7, <3>1
    <3>5. QED
      BY <3>2, <3>3, <3>4 DEF SoleInv, At
  <2>4. QED
    BY <2>2, <2>3
<1>9. QED
  BY <1>5, <1>8

(* Who asks while a handler is open is counted among the overlapped. *)
LEMMA AskHistory ==
    ASSUME HistoryInv, NEW o \in Owners, Ask(o)
    PROVE  OwnerInv' /\ \A p \in Owners : SoleInv(p)'
<1> DEFINE r == [owner |-> o, n |-> asked[o] + 1]
<1>1. /\ UNCHANGED <<sessions, messages>>
      /\ r.owner = o
      /\ overlapped' = IF \E q \in Requests : q.owner = o /\ pc[q] \in Open
                       THEN overlapped \union {o} ELSE overlapped
  BY DEF Ask
<1>2. PICK l \in {"transcribe", "select"} : pc' = [pc EXCEPT ![r] = l]
  BY DEF Ask, Goto
<1> HIDE DEF r
<1>3. OwnerInv'
  BY <1>1, OwnerFrame DEF HistoryInv, Inv, Grew
<1>4. \A q \in Requests : pc'[q] = IF q = r THEN l ELSE pc[q]
  BY <1>2 DEF HistoryInv, Inv, TypeOK
<1>5. ASSUME NEW p \in Owners PROVE SoleInv(p)'
  <2> SUFFICES ASSUME p \notin overlapped' PROVE SoleInv(p)'
    BY DEF SoleInv
  <2>1. SoleInv(p) /\ p \notin overlapped /\ SessionsOf(p)' = SessionsOf(p)
    BY <1>1 DEF HistoryInv, SessionsOf
  <2>2. CASE p # o
    BY <1>1, <1>4, <2>1, <2>2 DEF SoleInv, At
  <2>3. CASE p = o
    <3>1. \A q \in Requests : q.owner = p => pc[q] \notin Open
      BY <1>1, <2>3
    <3>2. \A q \in Requests : q.owner = p /\ pc'[q] \in Open => q = r
      BY <1>4, <3>1
    <3>3. \A q \in Requests : q.owner = p => pc'[q] # "create"
      BY <1>4, <3>1 DEF Open
    <3>4. QED
      BY <2>1, <3>2, <3>3 DEF SoleInv, At
  <2>4. QED
    BY <2>2, <2>3
<1>6. QED
  BY <1>3, <1>5

LEMMA HistoryInvNext == HistoryInv /\ [Next]_vars => HistoryInv'
<1> SUFFICES ASSUME HistoryInv, [Next]_vars PROVE OwnerInv' /\ \A o \in Owners : SoleInv(o)'
  BY NextInv DEF HistoryInv
<1>1. CASE \E o \in Owners : Ask(o)
  BY <1>1, AskHistory
<1>2. CASE (\E o \in Owners : GiveUp(o)) \/ UNCHANGED vars
  <2>1. UNCHANGED <<overlapped, pc, sessions, messages>>
    BY <1>2 DEF GiveUp, vars, clientVars, handlerVars
  <2>2. OwnerInv'
    BY <2>1, OwnerFrame DEF HistoryInv, Inv, Grew
  <2>3. QED
    BY <2>1, <2>2 DEF HistoryInv, SoleInv, At, SessionsOf
<1>3. CASE \E r \in Requests : Handle(r) \/ Cut(r)
  BY <1>3, QuietHistory, StoresNothing, StoresOwn, CreateHistory DEF Handle
<1>4. QED
  BY <1>1, <1>2, <1>3 DEF Next

LEMMA HistoryInvariance == Spec => []HistoryInv
<1>1. Init => HistoryInv
  <2>1. ASSUME Init PROVE OwnerInv /\ \A o \in Owners : SoleInv(o)
    <3>1. DOMAIN messages = {} /\ DOMAIN sessions = {}
      BY <2>1, EmptySeq DEF Init
    <3>2. \A r \in Requests : pc[r] = "unasked"
      BY <2>1 DEF Init
    <3>3. QED
      BY <3>1, <3>2 DEF OwnerInv, SoleInv, SessionsOf, At, Open
  <2>2. QED
    BY <2>1, InitInv DEF HistoryInv
<1>2. QED
  BY <1>1, HistoryInvNext, PTL DEF Spec

(* Nothing but its own read takes a handler from history to search. *)
LEMMA ReadsItself ==
    ASSUME HistoryInv, [Next]_vars, NEW r \in Requests, ReadsHistory(r)
    PROVE  Owns(r) /\ recent'[r] = Recent(session[r])
<1>1. pc[r] = "history" /\ pc'[r] = "search"
  BY DEF ReadsHistory, At
<1>2. Owns(r)
  BY <1>1 DEF HistoryInv, Inv, TurnInv
<1>3. PICK q \in Requests : Handle(q) \/ Cut(q)
  <2>1. ~\E o \in Owners : Ask(o)
    BY <1>1 DEF Ask, Goto, HistoryInv, Inv, TypeOK
  <2>2. ~\E o \in Owners : GiveUp(o)
    BY <1>1 DEF GiveUp, handlerVars
  <2>3. ~UNCHANGED vars
    BY <1>1 DEF vars, handlerVars
  <2>4. QED
    BY <2>1, <2>2, <2>3 DEF Next
<1>4. PICK l : pc' = [pc EXCEPT ![q] = l]
  BY <1>3 DEF Handle, Cut, Transcribe, Decline, SelectSession, CreateSession, GetRecentHistory,
              Search, AnswerQuestion, AppendQuestion, AppendReply, Synthesize, Proceed, Close, Goto
<1>5. q = r /\ l = "search"
  BY <1>1, <1>4 DEF HistoryInv, Inv, TypeOK
<1>6. GetRecentHistory(r)
  BY <1>1, <1>3, <1>4, <1>5 DEF Handle, Cut, Transcribe, Decline, SelectSession, CreateSession, Search,
              AnswerQuestion, AppendQuestion, AppendReply, Synthesize, Close, Goto, At,
              HistoryInv, Inv, TypeOK
<1>7. PICK rep \in Replies :
        /\ recent' = IF rep = "ok" THEN [recent EXCEPT ![r] = Recent(session[r])] ELSE recent
        /\ Proceed(r, rep = "ok", "search")
  BY <1>6 DEF GetRecentHistory
<1>8. rep = "ok"
  BY <1>1, <1>7 DEF Proceed, Close, Goto, HistoryInv, Inv, TypeOK
<1>9. QED
  BY <1>2, <1>7, <1>8 DEF HistoryInv, Inv, TypeOK

(* A robot that never asked twice at a time finds in its history every turn *)
(* it spoke, or HistoryLimit later messages of its own.                     *)
THEOREM FollowUpsKnow == Spec => FollowUpKnowsHeardTurns
<1> DEFINE A == \A r \in Requests : ReadsHistory(r) /\ r.owner \notin overlapped =>
                    \A q \in heard : q.owner = r.owner => Knows(r, q)
<1>1. ASSUME HistoryInv, [Next]_vars PROVE A
  <2> SUFFICES ASSUME NEW r \in Requests, ReadsHistory(r), r.owner \notin overlapped,
                      NEW q, q.owner = r.owner, NEW i \in Stored(q, "assistant")
               PROVE  \/ i \in recent'[r]
                      \/ Cardinality({j \in DOMAIN messages :
                              j > i /\ messages[j].request.owner = q.owner}) >= HistoryLimit
    BY DEF Knows
  <2>1. Owns(r) /\ recent'[r] = Recent(session[r])
    BY <1>1, ReadsItself
  <2>2. \A j \in DOMAIN messages :
            messages[j].request.owner = r.owner <=> messages[j].session = session[r]
    <3>1. SoleInv(r.owner)
      BY <1>1, RequestsType DEF HistoryInv
    <3>2. session[r] \in SessionsOf(r.owner)
      BY <2>1 DEF Owns, SessionsOf
    <3>3. ASSUME NEW j \in DOMAIN messages
          PROVE  /\ messages[j].session \in DOMAIN sessions
                 /\ sessions[messages[j].session] = messages[j].request.owner
      BY <1>1, MessageType DEF HistoryInv, Inv, OwnerInv
    <3>4. QED
      BY <3>1, <3>2, <3>3 DEF SoleInv, SessionsOf
  <2>3. i \in MessagesOf(session[r])
    BY <2>2 DEF Stored, MessagesOf
  <2> DEFINE Later == {j \in DOMAIN messages : j > i /\ messages[j].request.owner = q.owner}
  <2>4. {j \in MessagesOf(session[r]) : j > i} = Later
    BY <2>2 DEF MessagesOf
  <2>5. Cardinality(Later) \in Nat
    <3>1. DOMAIN messages = 1 .. Len(messages) /\ Len(messages) \in Nat
      BY <1>1, LenProperties DEF HistoryInv, Inv, TypeOK
    <3>2. IsFiniteSet(DOMAIN messages)
      BY <3>1, FS_Interval
    <3>3. IsFiniteSet(Later)
      BY <3>2, FS_Subset
    <3>4. QED
      BY <3>3, FS_CardinalityType
  <2>6. HistoryLimit \in Nat
    BY ConversationAssumption DEF ConversationAssumption
  <2> HIDE DEF Later
  <2>7. CASE Cardinality(Later) < HistoryLimit
    BY <2>1, <2>3, <2>4, <2>7 DEF Recent
  <2>8. CASE Cardinality(Later) >= HistoryLimit
    BY <2>8 DEF Later
  <2>9. QED
    BY <2>5, <2>6, <2>7, <2>8
<1>2. QED
  BY <1>1, HistoryInvariance, PTL DEF Spec, FollowUpKnowsHeardTurns

-----------------------------------------------------------------------------
(* Conversation implements Transcript: handlers store a turn's two messages *)
(* at most once, because none of them ever goes back.                       *)

Early == {"unasked", "transcribe", "decline", "select", "create", "history", "search",
          "answer", "question"}

OnceInv ==
    \A r \in Requests :
        /\ pc[r] \in Early => Stored(r, "user") = {} /\ Stored(r, "assistant") = {}
        /\ At(r, "reply") => Stored(r, "assistant") = {}

TurnsInv == Inv /\ OnceInv

(* A step that stores nothing keeps OnceInv, unless it leads back. *)
LEMMA QuietOnce ==
    ASSUME TurnsInv, NEW r \in Requests, NEW l, pc' = [pc EXCEPT ![r] = l],
           messages' = messages,
           l \in Early => pc[r] \in Early,
           l # "reply"
    PROVE  OnceInv'
<1>1. \A q \in Requests : pc'[q] = IF q = r THEN l ELSE pc[q]
  BY DEF TurnsInv, Inv, TypeOK
<1>2. \A q \in Requests : \A who : Stored(q, who)' = Stored(q, who)
  BY DEF Stored
<1>3. QED
  BY <1>1, <1>2 DEF TurnsInv, OnceInv, At

(* The handler's steps that leave the tables alone; a client may hear one. *)
LEMMA QuietTranscript ==
    ASSUME TurnsInv, NEW r \in Requests,
           \/ Transcribe(r) \/ Decline(r) \/ SelectSession(r) \/ GetRecentHistory(r)
           \/ Search(r) \/ AnswerQuestion(r) \/ Synthesize(r) \/ Cut(r)
    PROVE  OnceInv' /\ [Tables!Next]_(Tables!tables)
<1>1. UNCHANGED <<sessions, messages>> /\ pc[r] \in Open
  BY DEF Transcribe, Decline, SelectSession, GetRecentHistory, Search, AnswerQuestion,
         Synthesize, Cut, At, Open
<1>2. PICK l \in Open \union Closed :
        /\ Moves(r, l)
        /\ l \in Early => pc[r] \in Early
        /\ l # "reply"
        /\ l = "served" => pc[r] \in {"transcribe", "decline", "synthesize"}
  <2>1. CASE Transcribe(r) \/ Decline(r)
    BY <2>1 DEF Transcribe, Decline, Transcripts, Moves, Open, Closed, Early, At
  <2>2. CASE Synthesize(r) \/ Cut(r)
    BY <2>2 DEF Synthesize, Cut, Spoken, Moves, Open, Closed, Early, At
  <2>3. CASE SelectSession(r)
    BY <2>3 DEF SelectSession, Proceed, AfterSession, Moves, Open, Closed, Early, At
  <2>4. CASE GetRecentHistory(r) \/ Search(r) \/ AnswerQuestion(r)
    BY <2>4 DEF GetRecentHistory, Search, AnswerQuestion, Proceed, Moves, Open, Closed, Early, At
  <2>5. QED
    BY <2>1, <2>2, <2>3, <2>4
<1>3. /\ pc' = [pc EXCEPT ![r] = l]
      /\ heard' \subseteq heard \union (IF l = "served" THEN {r} ELSE {})
      /\ heard \subseteq heard'
  <2>1. heard \subseteq heard'
    BY <1>2 DEF Moves, Close, clientVars
  <2>2. QED
    BY <1>2, <2>1, MovesEffect DEF TurnsInv, Inv
<1>4. OnceInv'
  BY <1>1, <1>2, <1>3, QuietOnce
<1>5. CASE heard' = heard
  BY <1>1, <1>4, <1>5 DEF Tables!tables
<1>6. CASE heard' # heard
  <2>1. l = "served" /\ heard' = heard \union {r}
    BY <1>3, <1>6
  <2>2. Stored(r, "user") # {} => Stored(r, "assistant") # {}
    BY <1>2, <2>1 DEF TurnsInv, Inv, OnceInv, Early, TurnInv, HasStored, At
  <2>3. Tables!Hear(r)
    BY <1>1, <2>1, <2>2 DEF Tables!Hear, Tables!Said, Stored
  <2>4. QED
    BY <1>4, <2>3 DEF Tables!Next
<1>7. QED
  BY <1>5, <1>6

LEMMA CreateTranscript ==
    ASSUME TurnsInv, NEW r \in Requests, CreateSession(r)
    PROVE  OnceInv' /\ [Tables!Next]_(Tables!tables)
<1>1. PICK rep \in Replies :
        /\ At(r, "create")
        /\ sessions' = IF Took(rep) THEN Append(sessions, r.owner) ELSE sessions
        /\ Proceed(r, rep = "ok", AfterSession(r))
        /\ messages' = messages
  BY DEF CreateSession
<1>2. PICK l \in {"history", "search", "error"} : Moves(r, l)
  BY <1>1 DEF Proceed, Moves, AfterSession
<1>3. pc' = [pc EXCEPT ![r] = l] /\ heard' = heard
  BY <1>2 DEF Moves, Close, Goto, clientVars
<1>4. OnceInv'
  BY <1>1, <1>3, QuietOnce DEF Early, At
<1>5. sessions' = sessions \/ Tables!OpenSession(r.owner)
  BY <1>1, <1>3 DEF Tables!OpenSession
<1>6. QED
  BY <1>1, <1>3, <1>4, <1>5, RequestsType DEF Tables!Next, Tables!tables

(* One message of r at the end of chat_messages, or none. *)
LEMMA AppendOnce ==
    ASSUME TurnsInv, NEW r \in Requests, NEW who \in {"user", "assistant"}, NEW rep \in Replies,
           AppendMessage(r, who, rep), Owns(r),
           NEW l \in {"reply", "synthesize", "served", "error"},
           pc' = [pc EXCEPT ![r] = l],
           l = "reply" => who = "user" /\ Stored(r, "assistant") = {}
    PROVE  OnceInv'
<1> DEFINE e == [session |-> session[r], role |-> who, request |-> r]
           Message == [session : DOMAIN sessions, role : {"user", "assistant"}, request : Requests]
<1>1. messages \in Seq(Message) /\ e \in Message
  BY DEF TurnsInv, Inv, TypeOK, Owns
<1>2. messages' = IF Took(rep) THEN Append(messages, e) ELSE messages
  BY DEF AppendMessage
<1>3. e.request = r /\ e.role = who
  OBVIOUS
<1> HIDE DEF e, Message
<1>4. \A i \in DOMAIN messages' :
         \/ i \in DOMAIN messages /\ messages'[i] = messages[i]
         \/ messages'[i] = e
  <2>1. CASE Took(rep)
    BY <1>1, <1>2, <2>1, AppendGrows DEF Grew
  <2>2. CASE ~Took(rep)
    BY <1>2, <2>2
  <2>3. QED
    BY <2>1, <2>2
<1>5. \A q \in Requests \ {r} : \A w : Stored(q, w)' \subseteq Stored(q, w)
  BY <1>3, <1>4 DEF Stored
<1>6. \A w \in {"user", "assistant"} \ {who} : Stored(r, w)' \subseteq Stored(r, w)
  BY <1>3, <1>4 DEF Stored
<1>7. \A q \in Requests : pc'[q] = IF q = r THEN l ELSE pc[q]
  BY DEF TurnsInv, Inv, TypeOK
<1>8. l \notin Early
  BY DEF Early
<1>9. ASSUME NEW q \in Requests
      PROVE  /\ pc'[q] \in Early => Stored(q, "user")' = {} /\ Stored(q, "assistant")' = {}
             /\ pc'[q] = "reply" => Stored(q, "assistant")' = {}
  <2>1. CASE q = r
    BY <1>6, <1>7, <1>8, <2>1
  <2>2. CASE q # r
    <3>1. /\ pc[q] \in Early => Stored(q, "user") = {} /\ Stored(q, "assistant") = {}
          /\ pc[q] = "reply" => Stored(q, "assistant") = {}
      BY DEF TurnsInv, OnceInv, At
    <3>2. QED
      BY <1>5, <1>7, <2>2, <3>1
  <2>3. QED
    BY <2>1, <2>2
<1>10. QED
  BY <1>9 DEF OnceInv, At

LEMMA QuestionTranscript ==
    ASSUME TurnsInv, NEW r \in Requests, AppendQuestion(r)
    PROVE  OnceInv' /\ [Tables!Next]_(Tables!tables)
<1>1. PICK rep \in Replies :
        /\ At(r, "question")
        /\ AppendMessage(r, "user", rep)
        /\ Proceed(r, rep = "ok", "reply")
        /\ UNCHANGED <<session, recent, sessions>>
  BY DEF AppendQuestion
<1>2. PICK l \in {"reply", "error"} : Moves(r, l)
  BY <1>1 DEF Proceed, Moves
<1>3. pc' = [pc EXCEPT ![r] = l] /\ heard' = heard
  BY <1>2 DEF Moves, Close, Goto, clientVars
<1>4. /\ Owns(r) /\ r \notin heard
      /\ Stored(r, "user") = {} /\ Stored(r, "assistant") = {}
  BY <1>1 DEF TurnsInv, Inv, TurnInv, OnceInv, Early, At
<1>5. OnceInv'
  BY <1>1, <1>3, <1>4, AppendOnce
<1>6. messages' = messages \/ Tables!StoreQuestion(r, session[r])
  BY <1>1, <1>3, <1>4
  DEF Tables!StoreQuestion, Tables!Said, Tables!Store, AppendMessage, Stored, Owns
<1>7. QED
  BY <1>1, <1>3, <1>4, <1>5, <1>6 DEF Tables!Next, Tables!tables, Owns

LEMMA ReplyTranscript ==
    ASSUME TurnsInv, NEW r \in Requests, AppendReply(r)
    PROVE  OnceInv' /\ [Tables!Next]_(Tables!tables)
<1>1. PICK rep \in Replies :
        /\ At(r, "reply")
        /\ AppendMessage(r, "assistant", rep)
        /\ IF r.owner \in Devices
           THEN Proceed(r, AfterReply(rep), "synthesize")
           ELSE Close(r, IF AfterReply(rep) THEN "served" ELSE "error")
        /\ UNCHANGED <<session, recent, sessions>>
  BY DEF AppendReply
<1>2. PICK l \in {"synthesize", "served", "error"} : Moves(r, l) /\ (l = "served" => rep = "ok")
  BY <1>1 DEF Proceed, Moves, AfterReply
<1>3. /\ pc' = [pc EXCEPT ![r] = l]
      /\ heard' = heard \/ (heard' = heard \union {r} /\ rep = "ok")
  BY <1>2 DEF Moves, Close, Goto, clientVars
<1>4. Owns(r) /\ HasStored(r, "user") /\ Stored(r, "assistant") = {}
  BY <1>1 DEF TurnsInv, Inv, TurnInv, OnceInv, At
<1>5. OnceInv'
  BY <1>1, <1>3, <1>4, AppendOnce
<1>6. CASE Took(rep)
  <2>1. Tables!StoreReply(r, session[r])
    BY <1>1, <1>3, <1>4, <1>6
    DEF Tables!StoreReply, Tables!Said, Tables!Store, AppendMessage, Stored, HasStored
  <2>2. QED
    BY <1>4, <1>5, <2>1 DEF Tables!Next, Owns
<1>7. CASE ~Took(rep)
  <2>1. UNCHANGED <<sessions, messages, heard>>
    BY <1>1, <1>3, <1>7 DEF AppendMessage, Took
  <2>2. QED
    BY <1>5, <2>1 DEF Tables!tables
<1>8. QED
  BY <1>6, <1>7

LEMMA ClientTranscript ==
    ASSUME TurnsInv, (\E o \in Owners : Ask(o) \/ GiveUp(o)) \/ UNCHANGED vars
    PROVE  OnceInv' /\ UNCHANGED Tables!tables
<1>1. UNCHANGED <<sessions, messages, heard>>
  BY DEF Ask, GiveUp, vars, clientVars
<1>2. \A q \in Requests : \A who : Stored(q, who)' = Stored(q, who)
  BY <1>1 DEF Stored
<1>3. ASSUME pc' = pc PROVE OnceInv'
  BY <1>2, <1>3 DEF TurnsInv, OnceInv, At
<1>4. ASSUME NEW o \in Owners, Ask(o) PROVE OnceInv'
  <2> DEFINE r == [owner |-> o, n |-> asked[o] + 1]
  <2>1. PICK l \in {"transcribe", "select"} : pc' = [pc EXCEPT ![r] = l]
    BY <1>4 DEF Ask, Goto
  <2>2. asked[o] \in Nat /\ MaxAsks[o] \in Nat /\ asked[o] < MaxAsks[o]
    BY <1>4, ConversationAssumption
    DEF Ask, TurnsInv, Inv, TypeOK, ConversationAssumption, Owners
  <2>3. r \in Requests /\ r.n > asked[r.owner]
    <3>1. r \in [owner : {o}, n : 1 .. MaxAsks[o]]
      BY <2>2
    <3>2. QED
      BY <2>2, <3>1 DEF Requests
  <2>4. pc[r] = "unasked"
    BY <2>3 DEF TurnsInv, Inv, TurnInv, At
  <2> HIDE DEF r
  <2>5. QED
    BY <1>1, <2>1, <2>3, <2>4, QuietOnce DEF Early
<1>5. QED
  BY <1>1, <1>3, <1>4 DEF GiveUp, vars, handlerVars, Tables!tables

LEMMA TranscriptStep ==
    TurnsInv /\ [Next]_vars => TurnsInv' /\ [Tables!Next]_(Tables!tables)
<1> SUFFICES ASSUME TurnsInv, [Next]_vars
             PROVE  OnceInv' /\ [Tables!Next]_(Tables!tables)
  BY NextInv DEF TurnsInv
<1>1. CASE (\E o \in Owners : Ask(o) \/ GiveUp(o)) \/ UNCHANGED vars
  BY <1>1, ClientTranscript
<1>2. CASE \E r \in Requests : Handle(r) \/ Cut(r)
  BY <1>2, QuietTranscript, CreateTranscript, QuestionTranscript, ReplyTranscript DEF Handle
<1>3. QED
  BY <1>1, <1>2 DEF Next

LEMMA TranscriptInit == Init => TurnsInv /\ Tables!Init
<1> SUFFICES ASSUME Init PROVE OnceInv /\ Tables!Init
  BY InitInv DEF TurnsInv
<1>1. DOMAIN messages = {}
  BY EmptySeq DEF Init
<1>2. QED
  BY <1>1 DEF Init, OnceInv, Stored, Tables!Init

(* Whatever fails, dies or is abandoned: seen from the two tables and from  *)
(* those who hear an answer, a turn is one question and at most one reply   *)
(* behind it, in a session of its asker, stored before it is heard.         *)
THEOREM ConversationImplementsTranscript == Spec => ImplementsTranscript
<1>1. Init => TurnsInv /\ Tables!Init
  BY TranscriptInit
<1>2. TurnsInv /\ [Next]_vars => TurnsInv' /\ [Tables!Next]_(Tables!tables)
  BY TranscriptStep
<1>3. QED
  BY <1>1, <1>2, PTL DEF Spec, ImplementsTranscript, Tables!Spec
=============================================================================
