--------------------------- MODULE GroundedAnswer ---------------------------
(***************************************************************************)
(* What GatewayAskService.ask awaits for one question: the search, then    *)
(* ChatLlmService.ask, which has Gemini answer from the found chunks and   *)
(* asks once more, strictly, if a curriculum question got no citation.     *)
(***************************************************************************)
EXTENDS HybridSearch

MaxAttempts == 3  \* RETRY_MAX_ATTEMPTS

VARIABLES chat,        \* where the handler is
          strict,      \* whether this is the second, strict attempt
          tries,       \* the loop variable of callWithRetry
          curriculum,  \* isCurriculumQuestion of the answer
          sources      \* the chunks that the response cites

chatVars == <<chat, strict, tries, curriculum, sources>>
vars == <<searchVars, chatVars>>

AnswerInit == /\ Init
              /\ chat = "search"
              /\ strict = FALSE
              /\ tries = 1
              /\ curriculum = FALSE
              /\ sources = {}

(* Mutant: the search's promise is not awaited. *)
AskUnawaited == /\ chat = "search"
                /\ chat' = "call"
                /\ UNCHANGED <<searchVars, strict, tries, curriculum, sources>>

(* The search has answered. *)
Ask == /\ chat = "search"
       /\ search = "done"
       /\ chat' = "call"
       /\ UNCHANGED <<searchVars, strict, tries, curriculum, sources>>

(* Gemini numbers the excerpts from 1, and cites what it likes. *)
Citations == SUBSET (0 .. Len(result) + 1)

(* resolveSources drops the indices that name no excerpt. *)
ResolveSources(cited) == {result[i] : i \in cited \intersect DOMAIN result}

(* Mutant: a citation counts even if it names no excerpt. *)
IsGroundedUnresolved(isCurriculum, cited) == ~isCurriculum \/ cited # {}

IsGrounded(isCurriculum, cited) == ~isCurriculum \/ ResolveSources(cited) # {}

(* generate resolved: the answer stands if it is grounded, or the second.  *)
GeminiAnswers ==
    /\ chat = "call"
    /\ \E isCurriculum \in BOOLEAN, cited \in Citations :
          IF IsGrounded(isCurriculum, cited) \/ strict
          THEN /\ chat' = "answered"
               /\ curriculum' = isCurriculum
               /\ sources' = ResolveSources(cited)
               /\ UNCHANGED <<strict, tries>>
          ELSE /\ strict' = TRUE
               /\ tries' = 1
               /\ UNCHANGED <<chat, curriculum, sources>>
    /\ UNCHANGED searchVars

(* Mutant: the attempts are not counted. *)
NextTryUncounted(n) == n

NextTry(n) == n + 1

(* A 503, or GENERATION_TIMEOUT_MS without an answer: sleep and try again. *)
TransientError ==
    /\ chat = "call"
    /\ IF tries = MaxAttempts
       THEN chat' = "failed" /\ UNCHANGED tries
       ELSE chat' = "backoff" /\ tries' = NextTry(tries)
    /\ UNCHANGED <<searchVars, strict, curriculum, sources>>

Backoff == /\ chat = "backoff"
           /\ chat' = "call"
           /\ UNCHANGED <<searchVars, strict, tries, curriculum, sources>>

(* Any other error, and an answer that is not JSON. *)
PermanentError == /\ chat = "call"
                  /\ chat' = "failed"
                  /\ UNCHANGED <<searchVars, strict, tries, curriculum, sources>>

Chat == Ask \/ GeminiAnswers \/ TransientError \/ Backoff \/ PermanentError
Handle == (Retrieve /\ UNCHANGED chatVars) \/ Chat

Next == Handle \/ \E p \in Papers : PaperSettles(p) /\ UNCHANGED chatVars

Spec == AnswerInit /\ [][Next]_vars

(* The handlers' awaits settle: the Gemini call is cut by its abort timeout, *)
(* the other calls by the time limits of their clients.                      *)
FairSpec == Spec /\ WF_vars(Handle)

-----------------------------------------------------------------------------
(* Properties *)

TypeOK == /\ SearchTypeOK
          /\ chat \in {"search", "call", "backoff", "answered", "failed"}
          /\ strict \in BOOLEAN
          /\ tries \in 1 .. MaxAttempts
          /\ curriculum \in BOOLEAN
          /\ sources \subseteq Chunks

(* A citation names a chunk of a paper that was ready at some time since   *)
(* the question came: a paper that was never searchable is never cited.    *)
CitationsWereSearchable == \A c \in sources : PaperOf[c] \in wasReady

(* A curriculum answer without a citation is given only by the strict      *)
(* attempt; made-up indices do not count ("retries when curriculum         *)
(* question cites a non-existent chunk index", ask.service.spec.ts).       *)
UncitedOnlyIfStrict ==
    chat = "answered" /\ curriculum /\ sources = {} => strict

(* How often Gemini may still be called, the present call included.        *)
GenerationsLeft == MaxAttempts + 1 - tries + (IF strict THEN 0 ELSE MaxAttempts)

(* A bound on what the handler has yet to do: the calls of the search that *)
(* it waits for, then the calls of Gemini with the sleeps between them.    *)
Pending(call) == IF call \in answered THEN 0 ELSE 1

SearchLeft == IF search = "retrieve" THEN 2 + Pending("embedding") + Pending("vector") + Pending("fts")
              ELSE IF search = "rerank" THEN 1 ELSE 0

StepsLeft == IF search = "failed" \/ chat \in {"answered", "failed"} THEN 0
             ELSE SearchLeft + 2 * GenerationsLeft + (IF chat = "call" THEN 0 ELSE 1)

(* Whatever the papers do meanwhile, every step of the handler brings its  *)
(* end nearer: callWithRetry and the strict attempt cannot start each      *)
(* other over ("retries once with a stricter prompt", ask.service.spec.ts). *)
EveryStepIsProgress ==
    [][StepsLeft' <= StepsLeft /\ (Handle => StepsLeft' < StepsLeft)]_vars

(* A question is answered or fails after at most six calls of Gemini. *)
AskEnds == <>(search = "failed" \/ chat \in {"answered", "failed"})

=============================================================================
