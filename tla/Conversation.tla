---------------------------- MODULE Conversation ----------------------------
(***************************************************************************)
(* The two ways to ask a question: POST /voice/ask of a robot, whose        *)
(* history is kept here per device, and POST /chat/ask of a student, whose  *)
(* history comes in the body.  Both share GatewayAskService and the tables  *)
(* chat_sessions and chat_messages.                                         *)
(*                                                                          *)
(* A student here is the student_id in the body of POST /chat/ask.  The     *)
(* controller does not compare it with the principal that AuthGuard         *)
(* admitted (a step it leaves to later), so "its own" session is that of    *)
(* the id a question was asked under, whoever sent it.                      *)
(*                                                                          *)
(* Every await ends an action.  A robot asks one question at a time, but it *)
(* gives up after 30 s; the handler it left goes on beside the next one.    *)
(***************************************************************************)
EXTENDS Integers, FiniteSets, Sequences

CONSTANTS Devices,       \* robots
          Students,      \* the student_ids that the apps send
          MaxAsks,       \* BOUND: how many questions are asked under each
          HistoryLimit,  \* messages of a history; the code's value is 6
          Faults         \* which of "crash", "db", "timeout" can happen

ASSUME ConversationAssumption ==
    /\ Devices \intersect Students = {}
    /\ MaxAsks \in [Devices \union Students -> Nat]
    /\ HistoryLimit \in Nat \ {0}
    /\ Faults \subseteq {"crash", "db", "timeout"}

Owners == Devices \union Students
Requests == UNION {[owner : {o}, n : 1 .. MaxAsks[o]] : o \in Owners}

VARIABLES asked,      \* asked[o]: how many questions o has asked
          waiting,    \* waiting[o]: o waits for the answer to its last question
          pc,         \* pc[r]: where the handler of r is
          session,    \* session[r]: sessionId, 0 before it is known
          recent,     \* recent[r]: the messages getRecentHistory returned
          sessions,   \* chat_sessions, by created_at: the owner of each row
          messages,   \* chat_messages, by created_at
          heard,      \* history: requests whose answer reached their owner
          overlapped  \* history: owners who asked while a handler was open

handlerVars == <<pc, session, recent>>
clientVars == <<asked, waiting, heard, overlapped>>
vars == <<clientVars, handlerVars, sessions, messages>>

Closed == {"unasked", "served", "refused", "error", "cut"}
Open == {"transcribe", "decline", "select", "create", "history", "search", "answer",
         "question", "reply", "synthesize"}

Replies == IF "db" \in Faults THEN {"ok", "lost", "failed"} ELSE {"ok"}
Took(rep) == rep # "failed"

Init == /\ asked = [o \in Owners |-> 0]
        /\ waiting = [o \in Owners |-> FALSE]
        /\ pc = [r \in Requests |-> "unasked"]
        /\ session = [r \in Requests |-> 0]
        /\ recent = [r \in Requests |-> {}]
        /\ sessions = <<>>
        /\ messages = <<>>
        /\ heard = {}
        /\ overlapped = {}

At(r, l) == pc[r] = l
Goto(r, l) == pc' = [pc EXCEPT ![r] = l]
Last(o) == [owner |-> o, n |-> asked[o]]

-----------------------------------------------------------------------------
(* The clients (external).  A student's app has no voice: its handler      *)
(* starts with the session.                                                *)

Ask(o) == LET r == [owner |-> o, n |-> asked[o] + 1] IN
    /\ ~waiting[o]
    /\ asked[o] < MaxAsks[o]
    /\ asked' = [asked EXCEPT ![o] = asked[o] + 1]
    /\ waiting' = [waiting EXCEPT ![o] = TRUE]
    /\ Goto(r, IF o \in Devices THEN "transcribe" ELSE "select")
    /\ overlapped' = IF \E q \in Requests : q.owner = o /\ pc[q] \in Open
                     THEN overlapped \union {o} ELSE overlapped
    /\ UNCHANGED <<session, recent, sessions, messages, heard>>

(* The client stops waiting; nothing tells the handler. *)
GiveUp(o) == /\ "timeout" \in Faults
             /\ waiting[o]
             /\ waiting' = [waiting EXCEPT ![o] = FALSE]
             /\ UNCHANGED <<asked, heard, overlapped, handlerVars, sessions, messages>>

(* The handler of r ends at l.  Its client hears it if it still waits.     *)
IsAwaited(r) == waiting[r.owner] /\ r = Last(r.owner)

Close(r, l) ==
    /\ Goto(r, l)
    /\ waiting' = IF IsAwaited(r) THEN [waiting EXCEPT ![r.owner] = FALSE] ELSE waiting
    /\ heard' = IF l = "served" /\ IsAwaited(r) THEN heard \union {r} ELSE heard
    /\ UNCHANGED <<asked, overlapped>>

(* Go on at l if the call was answered; else the exception ends the handler. *)
Proceed(r, answered, l) ==
    IF answered THEN Goto(r, l) /\ UNCHANGED clientVars ELSE Close(r, "error")

-----------------------------------------------------------------------------
(* VoiceController.ask                                                     *)

(* SttService: Sinhala is declined unheard; otherwise words, or none that  *)
(* Google could make out - an error of Google's is a refusal like that.     *)
Media == {"english", "tamil", "sinhala"}
Transcripts(medium) == IF medium = "sinhala" THEN {"decline"} ELSE {"select", "refused"}

(* The call to the speech service itself can fail. *)
Transcribe(r) ==
    /\ At(r, "transcribe")
    /\ \E medium \in Media : \E l \in Transcripts(medium) \union {"error"} :
           IF l \in {"select", "decline"}
           THEN Goto(r, l) /\ UNCHANGED clientVars ELSE Close(r, l)
    /\ UNCHANGED <<session, recent, sessions, messages>>

(* TtsService: speech, or an error that is answered as one. *)
Spoken == {"served", "refused"}

(* The spoken apology: no session, no history, but a 200. *)
Decline(r) == /\ At(r, "decline")
              /\ \E l \in {"served", "error"} : Close(r, l)
              /\ UNCHANGED <<session, recent, sessions, messages>>

(* getOrCreateForDevice, getOrCreateForStudent: a select, and - in a        *)
(* statement of its own, without a unique index behind it - an insert.      *)
SessionsOf(o) == {s \in DOMAIN sessions : sessions[s] = o}
Latest(S) == CHOOSE s \in S : \A t \in S : t <= s

AfterSession(r) == IF r.owner \in Devices THEN "history" ELSE "search"

SelectSession(r) == \E rep \in Replies :
    /\ At(r, "select")
    /\ IF SessionsOf(r.owner) = {}
       THEN Proceed(r, rep = "ok", "create") /\ UNCHANGED session
       ELSE /\ Proceed(r, rep = "ok", AfterSession(r))
            /\ session' = [session EXCEPT ![r] = Latest(SessionsOf(r.owner))]
    /\ UNCHANGED <<recent, sessions, messages>>

(* Mutant: an insert that failed is not noticed. *)
CreateSessionUnchecked(r) == \E rep \in Replies :
    /\ At(r, "create")
    /\ sessions' = IF Took(rep) THEN Append(sessions, r.owner) ELSE sessions
    /\ Proceed(r, TRUE, AfterSession(r))
    /\ session' = [session EXCEPT ![r] = Len(sessions) + 1]
    /\ UNCHANGED <<recent, messages>>

CreateSession(r) == \E rep \in Replies :
    /\ At(r, "create")
    /\ sessions' = IF Took(rep) THEN Append(sessions, r.owner) ELSE sessions
    /\ Proceed(r, rep = "ok", AfterSession(r))
    /\ session' = IF rep = "ok" THEN [session EXCEPT ![r] = Len(sessions')] ELSE session
    /\ UNCHANGED <<recent, messages>>

(* The newest HistoryLimit messages of the session, oldest first. *)
MessagesOf(s) == {i \in DOMAIN messages : messages[i].session = s}

(* Mutant: the oldest ones. *)
RecentAscending(s) ==
    {i \in MessagesOf(s) : Cardinality({j \in MessagesOf(s) : j < i}) < HistoryLimit}

Recent(s) ==
    {i \in MessagesOf(s) : Cardinality({j \in MessagesOf(s) : j > i}) < HistoryLimit}

GetRecentHistory(r) == \E rep \in Replies :
    /\ At(r, "history")
    /\ recent' = IF rep = "ok" THEN [recent EXCEPT ![r] = Recent(session[r])] ELSE recent
    /\ Proceed(r, rep = "ok", "search")
    /\ UNCHANGED <<session, sessions, messages>>

-----------------------------------------------------------------------------
(* GatewayAskService.ask: search, answer, and only then store both.        *)

Search(r) == /\ At(r, "search")
             /\ \E answered \in BOOLEAN : Proceed(r, answered, "answer")
             /\ UNCHANGED <<session, recent, sessions, messages>>

AnswerQuestion(r) == /\ At(r, "answer")
                     /\ \E answered \in BOOLEAN : Proceed(r, answered, "question")
                     /\ UNCHANGED <<session, recent, sessions, messages>>

AppendMessage(r, role, rep) ==
    messages' = IF Took(rep)
                THEN Append(messages, [session |-> session[r], role |-> role, request |-> r])
                ELSE messages

(* Mutant: a question that could not be stored does not matter. *)
AppendQuestionIgnored(r) == \E rep \in Replies :
    /\ At(r, "question")
    /\ AppendMessage(r, "user", rep)
    /\ Proceed(r, TRUE, "reply")
    /\ UNCHANGED <<session, recent, sessions>>

AppendQuestion(r) == \E rep \in Replies :
    /\ At(r, "question")
    /\ AppendMessage(r, "user", rep)
    /\ Proceed(r, rep = "ok", "reply")
    /\ UNCHANGED <<session, recent, sessions>>

(* Mutant: a reply that could not be stored does not matter. *)
AfterReplyIgnored(rep) == TRUE

AfterReply(rep) == rep = "ok"

(* Behind it the chat answers; the voice has yet to speak. *)
AppendReply(r) == \E rep \in Replies :
    /\ At(r, "reply")
    /\ AppendMessage(r, "assistant", rep)
    /\ IF r.owner \in Devices
       THEN Proceed(r, AfterReply(rep), "synthesize")
       ELSE Close(r, IF AfterReply(rep) THEN "served" ELSE "error")
    /\ UNCHANGED <<session, recent, sessions>>

(* Mutant: with @Res() the handler itself must answer, here it forgets to. *)
SynthesizeUnanswered(r) ==
    /\ At(r, "synthesize")
    /\ \/ Goto(r, "refused") /\ UNCHANGED clientVars
       \/ \E l \in {"served", "error"} : Close(r, l)
    /\ UNCHANGED <<session, recent, sessions, messages>>

(* Text to speech; the turn is stored already, whatever comes out. *)
Synthesize(r) == /\ At(r, "synthesize")
                 /\ \E l \in Spoken \union {"error"} : Close(r, l)
                 /\ UNCHANGED <<session, recent, sessions, messages>>

(* The process that serves r dies, and with it r's connection. *)
Cut(r) == /\ "crash" \in Faults
          /\ pc[r] \in Open
          /\ Close(r, "cut")
          /\ UNCHANGED <<session, recent, sessions, messages>>

Handle(r) == \/ Transcribe(r) \/ Decline(r)
             \/ SelectSession(r) \/ CreateSession(r) \/ GetRecentHistory(r)
             \/ Search(r) \/ AnswerQuestion(r) \/ AppendQuestion(r) \/ AppendReply(r)
             \/ Synthesize(r)

Next == \/ \E o \in Owners : Ask(o) \/ GiveUp(o)
        \/ \E r \in Requests : Handle(r) \/ Cut(r)

Spec == Init /\ [][Next]_vars

(* Every await settles.  Nobody has to ask or to give up. *)
FairSpec == Spec /\ \A r \in Requests : WF_vars(Handle(r))

-----------------------------------------------------------------------------
(* Properties *)

TypeOK == /\ asked \in [Owners -> Nat]
          /\ \A o \in Owners : asked[o] <= MaxAsks[o]
          /\ waiting \in [Owners -> BOOLEAN]
          /\ pc \in [Requests -> Open \union Closed]
          /\ session \in [Requests -> 0 .. Len(sessions)]
          /\ recent \in [Requests -> SUBSET DOMAIN messages]
          /\ sessions \in Seq(Owners)
          /\ messages \in Seq([session : DOMAIN sessions, role : {"user", "assistant"},
                               request : Requests])
          /\ heard \subseteq Requests
          /\ overlapped \subseteq Owners

Stored(r, role) == {i \in DOMAIN messages : messages[i].request = r /\ messages[i].role = role}

(* However handlers interleave and fail, chat_messages never holds a reply *)
(* without its question, behind it or in another session - the order in    *)
(* which GatewayAskService.ask awaits its two inserts.                     *)
AnswersFollowQuestions ==
    \A i \in DOMAIN messages :
        messages[i].role = "assistant" =>
            \E j \in Stored(messages[i].request, "user") :
                j < i /\ messages[j].session = messages[i].session

(* An answer that a client heard, other than the apology, is on record in  *)
(* a session of the robot or the student_id that the question was asked    *)
(* under: the metrics and the next history count it there.                 *)
HeardTurnIsStored ==
    \A r \in heard :
        session[r] # 0 => \E i \in Stored(r, "assistant") :
                              /\ messages[i].session = session[r]
                              /\ sessions[session[r]] = r.owner

(* r's history knows the turn q, or enough of what came after it.          *)
Knows(r, q) ==
    \A i \in Stored(q, "assistant") :
        \/ i \in recent'[r]
        \/ Cardinality({j \in DOMAIN messages : j > i /\ messages[j].request.owner = q.owner})
               >= HistoryLimit

ReadsHistory(r) == At(r, "history") /\ pc'[r] = "search"

(* "explain that differently" works by voice (SPEC-SHEET section 5): a      *)
(* follow-up gets the turns its robot spoke, also after failed, crashed or  *)
(* abandoned ones - as long as the robot never asked twice at a time.       *)
FollowUpKnowsHeardTurns ==
    [][\A r \in Requests : ReadsHistory(r) /\ r.owner \notin overlapped =>
           \A q \in heard : q.owner = r.owner => Knows(r, q)]_vars

(* The two tables and the clients' answers, seen without the handlers,      *)
(* keep the promises of Transcript: no turn is stored twice, half of it     *)
(* under another session, or after its asker was answered.                  *)
Tables == INSTANCE Transcript
ImplementsTranscript == Tables!Spec

(* Every question is answered or refused, and nobody waits for a handler    *)
(* that is gone.                                                            *)
EveryQuestionEnds == \A o \in Owners : waiting[o] ~> ~waiting[o]
=============================================================================
