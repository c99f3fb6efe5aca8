# Obscura backend in TLA+

A verification project for the Obscura backend (`src/`): TLA+ models of its stateful parts, TLC runs on
small instances, and TLAPS proofs of the main safety properties for every instance. All paths below are
relative to `src/libs/` unless they say otherwise.

Contents: 1 the system · 2 the modules · 3 the runs · 4 fairness · 5 the proofs · 6 disagreements between code and
documents · 7 simplifications · 8 not modelled · 9 plan.

## 1. The system

Obscura is a modular monolith (NestJS): every process of `apps/api` runs the HTTP gateway, the services behind it
(called through gRPC clients) and, if `INGESTION_WORKER_ENABLED`, one BullMQ worker. Processes share PostgreSQL
(with pgvector), a storage bucket and Redis. Nothing else is shared, and no handler uses a transaction
over several statements: **every `await` is a point where other handlers, other processes, failures and
crashes come between.**

| Component | State | Operations | Interacts by | What is hard | What makes it correct |
|---|---|---|---|---|---|
| Paper upload (`gateway/src/admin/papers-upload.controller.ts`, `database/src/storage.service.ts`) | an object of the bucket, a row of `papers`, a job | `upload`: store, insert, enqueue | calls to bucket, database, Redis, one after the other | each call can fail with or without effect; a crash between two | a queued job finds its row and PDF |
| Queue and worker (`ingestion-service/src/queue`, `ingestion-service.module.ts`) | BullMQ's job state, lock, counters | enqueue, fetch, finish, retry (2 attempts), recover stalled jobs | Redis | locks that expire under a live worker, dead workers, retry of finished work | every job ends; no job without its row; a second execution leaves what is searchable whole |
| Ingestion processor (`ingestion.processor.ts`, `chunk-upsert.service.ts`) | `papers.status`, `error_reason`, `paper_chunks` | `process`: load, download, extract, insert chunk by chunk, write status, push | websocket events to admins | partial inserts, re-execution, a lost answer to the status update | a `ready` paper is whole; outcomes are not invented |
| Extraction (`ingestion-service/src/extraction`) | two timers, a request, a worker thread and its events, the chunker's loop | Gemini behind an abort timer, `pdf-parse` in a thread behind a timer, fixed windows | events on one event loop | answer against timer, message against exit, off-by-one at the end of the text | it ends, nothing is left running, no word is lost |
| Retrieval (`rag-service`) | reads chunks of ready papers; the lists of one request | embed, vector search, full-text search, fuse, re-rank, threshold | reads what ingestion writes | two concurrent snapshots; fusion of ranks and the cut | the cut keeps the best; only searchable chunks are found |
| Grounded answers (`chat-service`) | one question's attempts | generate with retries, resolve citations, strict attempt | gRPC from the gateway | invented citations, nested retries | answers are cited or the strict attempt's; an end |
| Flashcard quota (`gateway/src/flashcards`, `database/.../gemini-usage.repository.ts`) | `gemini_daily_usage` per day | reserve, generate with retries, release | one statement each | concurrent reservations, midnight, refunds that fail | budget is neither exceeded nor leaked |
| Conversations (`gateway/src/voice`, `gateway/src/chat`, `gateway/src/ask`, `database/.../chat-sessions.repository.ts`) | `chat_sessions`, `chat_messages` | choose session, read history, answer, append question and reply | robots with a 30 s timeout, the app | abandoned handlers that go on, half-stored turns | the transcript is ordered and complete; history knows what was heard |
| Authentication and device keys (`auth-service`, `gateway/src/guards`, `gateway/src/admin`) | `devices`, `students.role`, the cache of signing keys | verify a token or a key, make a key, promote an admin | guards before each handler; admins hand keys to robots | keys revoked, tokens expired, kids rotated and roles changed between two awaits of a guard | who gets in was entitled; who is refused was not; a key that was shown works |
| Speech (`speech-service`) | none | transcribe, decline, synthesize | gRPC from the voice handler | three media, each with its own refusals | see Conversation |
| Throttling, metrics, configuration, scripts | none that outlives a request, except in-memory counters | | | | see section 8 |

The hazards of this code, with the line where each bites and the properties that cover it, are listed in
`PROJECT.json` under `hazards`.

## 2. The modules

Arrows of refinement, from the detailed module to the one it implements (each a checked property and a proved theorem):

```
Ingestion      ==>  PaperLifecycle                          ImplementsLifecycle
PaperExtraction ==> Ingestion's extraction steps            ImplementsExtraction (ExtractionStep)
Conversation   ==>  Transcript                              ImplementsTranscript
GroundedAnswer ==>  Conversation's Search, AnswerQuestion   ImplementsAnswering  (AnswerStep)
```

PaperExtraction instantiates FixedWindow, GroundedAnswer extends HybridSearch. FlashcardQuota stands by itself; Admission comes
before Conversation's `Ask` (a question is one that was let in). Each component has its `...Proofs` module; ExtractionStep and
AnswerStep hold the refinement mappings that two components share. Modules without an MC module are checked as they are, with the
constants of the `.cfg` (`MCIngestion*.cfg`, `MCPaperExtraction.cfg`, `MCAdmission.cfg`).

In all modules an action is the code from one `await` to the next. A statement sent to the database has three outcomes
when the fault `"db"` is on (`Replies`): `ok`, `lost` (executed, but the caller sees an error) and `failed`
(not executed). A crash loses everything in memory.

- **PaperLifecycle** is what a client of `GET /papers/:id` may rely on: rows are created `processing`, become `ready`
  only when a whole extraction is stored, and - with `SettledIsFinal` - are settled once.
- **Ingestion** has the upload handler of each paper (`upload[p].pc`), the worker of each node (`worker[n]`: program
  counter, paper, number of the execution, chunks extracted, next index), the three stores and BullMQ's view of the job
  (`job`, `attemptsMade`, `stalled`, `owner`). `UploadStep` is `PapersUploadController.upload`; `LoadPaper` ...
  `MarkFailed` are `IngestionProcessor.process` and `upsertChunks`; `Fetch`, `FinishJob`, `RejectJob`, `MoveStalled`, `LockLost`
  are BullMQ, external, modelled from the options the code gives it (`attempts: 2`, backoff, concurrency 1, `maxStalledCount` default).
  The code's rows have random uuids; in the model the number of the execution and the index stand for the uuid. That number is
  `attemptsMade + stalled`, which every rerun raises; it exists in the model only, and no property is about it.
  `upserted` and `pushed` are history variables that only properties read.
- **PaperExtraction** looks inside `ExtractChunks`/`ParseFallback` of Ingestion: `callWithAbortTimeout`, `runWorker`, the
  parser thread with the order of its events, and **FixedWindow**, the loop of `chunkByFixedWindow` over word positions.
  **ExtractionStep** maps it to one execution of Ingestion: `Place` is the program counter of `process()`, `count` the size of
  `chunks`; whatever the race does before it has a result is a stutter.
- **HybridSearch** is `RagController.search` with `HybridSearchService`, `rrf` and `RerankService`, while papers
  settle beside it (`PaperSettles`, what Ingestion does to the status). Scores are exact fractions.
  **GroundedAnswer** adds `ChatLlmAskService.ask`, with the retries in `GeminiChatService.generate`. **AnswerStep** maps both to the
  handler of one student's question in Conversation: `Where` is that handler's program counter.
- **FlashcardQuota** is `FlashcardsController.generate` with `tryReserveSlot`, `callWithRetry`, `releaseSlot`; `day` is PostgreSQL's
  `current_date` and may advance between any two statements.
- **Conversation** is `VoiceController.ask` and `ChatController.ask` down to `appendMessage`. Robots may give up and ask
  again while their first handler is still open. What the speech service can answer for each medium (Sinhala is declined with a
  spoken notice, the others are transcribed or refused) is `Media`, `Transcripts` and `Spoken`. **Transcript** is what the readers of
  the two tables and the askers may rely on, without any handler: a turn is a question in a session of the robot or `student_id` it was asked under and at most one reply behind it in
  the same session, stored once and never changed; an answer is heard only when its turn is complete or when nothing of it was stored (the
  spoken notice).
- **Admission** is what comes before a handler. A robot's request goes through `SelectDevices`, one `Compare` per device and `TouchDevice`
  (`DeviceAuthGuard`, `DeviceKeyService.verifyKey`) to `ParseBody` (`MultipartWavInterceptor`); any other request through `GetSigningKey` and
  `VerifyWithJwks`, or `VerifyLegacyHs256` (`JwtVerifierService`), to `FindStudent` (`AuthGuard`), and on admin routes through `CheckRole` (`AdminGuard`)
  to `HashKey` and `InsertDevice` (`AdminDevicesController.create`), whose keys robots then carry. Beside them keys are revoked,
  tokens expire, kids are retired or fall out of the cache (`Retire`, `Evict`), `promote-admin` runs (`Promote`) and the
  process restarts. `given`, `cached` and the tables are shared; `good`, `roles` and `dark` are history variables that only
  properties read. A kid is fetched on a cache miss, and a JWKS that does not answer looks to the client like a kid that is not
  there, as in the code.

`PROJECT.json` maps each definition to the lines it models. Definitions whose comment begins with "Mutant:" are
plausible bugs; each property is shown to fail when the mutant replaces the definition it stands before.

## 3. The runs

Runs that pass (exhaustive, no state constraint; deadlock checking is off because each system may really stop, when all
work is done):

| Run | Instance | Distinct states | What it shows |
|---|---|---|---|
| `ingestion_faults` | 1 paper, 2 worker nodes, up to 2 chunks, crashes + database + Redis faults | ~584,000 | Under every fault: `QueuedPaperExists` (no job without its row, no row without its PDF, whatever call of the upload fails), `ReadyImpliesComplete`, `CompletedJobSettled`, `PushIsBackedByRows`; a ready paper has more rows than were reported only if the queue ran its job again (`LeftoversTakeARerun`); Ingestion implements PaperLifecycle; every queued job ends |
| `ingestion_no_faults` | 2 papers, 2 worker nodes, up to 2 chunks; only Gemini, storage and the parser fail | ~4,200 | The stronger promises: reported chunk count, pushes agree with the status, accepted papers settle, outcomes final |
| `paper_extraction` | windows of 4 words overlapping by 1, texts of 0-11 words, up to 2 questions | ~1,250 | No timer, thread or unnoticed exit is left; extraction ends; no word is lost, chunks overlap exactly; `process()` sees exactly Ingestion's two extraction steps |
| `flashcard_quota` | 3 requests, limit 1, 2 days, crashes and lost answers | ~471,000 | The counter equals the slots up to misplaced releases; budget; refunds; justified refusals; an end |
| `conversation` | 1 robot asking twice, 1 student asking once, history of 1, crashes, lost answers, timeouts | ~390,000 | Conversation implements Transcript; heard turns stored and known to the next question, every question ends |
| `admission` | 1 robot's and 1 admin's or student's request, 1 installed key, 1 student, a trusted kid, a foreign one and the legacy secret, crashes + database + JWKS faults | ~586,000 | Under every fault: who is admitted was entitled, who is refused as invalid or forbidden was not; keys that were shown are stored; every request is decided |
| `grounded_answer` | 2 papers of 2 chunks, k = 2, lists of 3, 2 candidates, 2 results | ~21,600 | Agreement and domination are respected by fusion and cut; citations; strict attempt; the gateway sees exactly Conversation's two awaits; an end |

Why the bounds are enough:

- *Ingestion* is finite by itself: a job is executed at most three times (two attempts, one stall) and no execution
  loops. Two nodes are what a lost lock needs (two executions of one job), two chunks are what a partial insert needs.
  Two papers matter only for workers that compete, which the second run adds. Papers share no state but the
  workers, and the theorems of section 5 hold for any number.
- *Quota*: limit 1 makes every request meet a full budget; three requests allow one to hold, one to be refused and one to
  profit from a wrong refund; two days have the one midnight that matters between reserve and release.
- *Extraction*: 0-11 words give every residue of the stride 3 and up to four windows, including texts that end exactly at a
  window's end.
- *Conversation*: two questions of one robot overlap or follow each other; the student shares the tables. `HistoryLimit`
  1 makes the limit bite with a single turn. A question that went wrong *between* a heard turn and its follow-up needs a third
  question, which is too much for the run: that case of `FollowUpKnowsHeardTurns` is covered by its theorem, `FollowUpsKnow`.
- *Admission*: the installed key and the one that the admin request makes turn the comparison into a loop, in which one key is revoked
  while the other is compared; the robot may carry either. A token signed by the foreign kid is one that must never be let in. Requests share only the tables and the cache, so one of each kind meets every change of
  the world; the student's tokens (one per signing key) expire independently. Larger numbers are the theorems' part.
- *Answer*: lists of three from four chunks, at the boundary `CandidatesPerList = k + 1`, where a chunk last in both lists
  still has to beat the first of one list; the cut to two drops candidates. The code's values are 60, 30, 20 and 5 or 30.

Runs that find a violation are the subject of section 6: `ingestion_rerun`, `ingestion_stuck`, `flashcard_slice`, `conversation_race`,
`grounded_decline`.

## 4. Fairness

Weak fairness is given only to what the program itself schedules:

- the next step of a handler or of an execution of `process()`: its awaits settle, because the Gemini calls are cut by
  `callWithAbortTimeout`, the parser by `runWorker`'s timer, and the other calls by their clients; the event loop then runs
  the continuation. `PaperExtraction` is the evidence for the first two: there the request and the thread may hang for ever, only the timers
  and the event loop are fair, and extraction still ends (`ExtractionEnds`); since it also implements Ingestion's extraction steps,
  that is what Ingestion's fairness of those steps rests on, as `AskEnds` is for two awaits of Conversation. Not all calls have a time limit in this repository: for storage, the embeddings
  and Cohere the assumption rests on the client libraries;
- BullMQ's timers (delayed jobs, the stalled-job checker) and a free worker that takes a waiting job. A crashed node
  is idle afterwards, that is, the hosting platform restarts it: the code itself has no way to;
- a terminated thread ends;
- in `Admission`, the next step of a request that has arrived: its awaits settle. Nobody has to arrive, revoke, rotate, promote or restart.

Nobody is forced to ask, to upload, to give up or to crash, a live lock need not expire, and no call is forced to succeed.

## 5. The proofs

`tlapm` checks every proof to the last leaf. Each proof module extends the module it is about. Assumptions are the `ASSUME`s
of those modules: constants have their types, `Faults` is any subset of the faults, `overlapTokens < windowTokens`,
`CandidatesPerList <= k + 1` (30 and 60 in the code). TLC evaluates them on every run.

**IngestionProofs**, for any papers, nodes, chunks and faults. The invariant `IInv` has named parts. `TypeInv` adds to `TypeOK` that
queue counters fit the job's state and that an execution works on a queued paper. `StorageInv` knows how far each
upload is, without which `QueuedPaperExists` is not inductive. `ChunksInv` follows the rows through an execution: those before `next`
are stored, a reported execution stored them all, and a ready paper had one. It is what makes `ReadyImpliesComplete` hold although reruns insert
again. `SettledInv` says that `process()` returns only after a status was written; `LockInv` that without Redis faults the
executing node owns the lock; `FreshInv` and `OnceInv` that, without faults, a status is written once, for the refinement of
`PaperLifecycle` with `SettledIsFinal`. Four more are shown beside it: `PushInv`, that an event follows a settled status and a `ready`
one repeats the count of an execution that stored it, gives `PushIsBackedByRows` under every fault; `FirstInv`, that a job which
was never put back has had one execution at most, with the lock, and its rows are exactly those it inserted, gives `LeftoversTakeARerun` (a bijection of
`0 .. n - 1` counts them). Without faults no job is put back (`NoRerunInv`), so the reported count is the number of rows, and the one
outcome is the one that is pushed (`AgreeInv`). `JobsWearOut` gives the reason why `QueuedJobEnds` holds: `MovesLeft`, at most
ten, goes down with each move of the job and stays put otherwise, under every order of faults. Theorems: `TypeCorrect`, `QueuedPapersExist`, `ReadyPapersAreComplete`, `CompletedJobsSettle`,
`LeftoversAreOfReruns`, `IngestionImplementsLifecycle`, `PushesAreBacked`, `JobsWearOut` and, for `Faults = {}`, `ChunkCountsAreReported`, `PushesAgree`.

**ConversationProofs**, for any robots, students and limits. `TurnInv` says what a handler has done at its place: from `history` on it has
a session of its owner's, at `reply` the question is stored there, at `synthesize` the reply is, and whoever heard an answer was served. What
holds of one handler survives the steps of all others because the two tables only grow (`Grew`, `Frame`). `HistoryInv` adds what the history needs: a message's session belongs to its asker (`OwnerInv`), and an owner who never
asked while a handler was open has one open handler at most and therefore one session (`SoleInv`) - a session is created only by a handler that found
none. Then the history's session holds all messages of the robot, and a turn that is missing in it has `HistoryLimit` later ones.
`conversation_race` shows what happens without the premise. For the refinement of Transcript, `OnceInv` adds that a handler before its
inserts has stored nothing and one between them no reply - no handler goes back -, so each abstract guard holds where a message is
appended; a step of a handler is one abstract step or a stutter, and a lost answer (the row is there, the handler fails) is an abstract step too.
Theorems: `Invariance`, `TypeCorrect`, `AnswersFollow`, `HeardIsStored`, `FollowUpsKnow` (an action property), `ConversationImplementsTranscript`.

**AdmissionProofs**, for any requests, keys, students, kids and faults. `VoiceInv` carries through the loop that a key which still is active is among
those not yet compared, and that the candidates were active when the request arrived if they are its own; so a match was entitled and
an exhausted loop had nothing to match. `AppInv` carries what each check established behind it, and that the student's present role is one of those
seen since the arrival: a read of the row, however late, gives one of them. Changes of the world only shrink what is accepted
(`WorldGrows`), but for roles, which the history records. Theorems: `Invariance`, `TypeCorrect`, `AdmissionIsEarned`, `RefusalHasAReason`, `GivenKeysWork`.

**FlashcardQuotaProofs**, for any finite set of requests, limit and number of days. `SlotInv` ties a handler's place to the slot it holds;
with `SlotsAccountedFor` it is inductive. Adding or removing one holder changes a finite set's cardinality by one.
`RequestsWearOut`: `StepsLeft`, at most nine, goes down with each step of a handler and is raised by nothing. Theorems: `SlotsAreAccountedFor`,
`BudgetHolds`, `FailuresAreRefunded`, `RefusalsAreJustified` (an action property), `TypeCorrect`, `RequestsWearOut`.

**PaperExtractionProofs**, for all sizes. `RaceInv` (timers and events) and `WindowInv` (the chunker) are inductive side by
side. `LoopInv`, the heart of the second: inside the loop `start + overlapTokens < words`, and the last chunk ends at
`start + overlapTokens`. The refinement of Ingestion's steps needs the size of the result: `SizeInv` says that every turn of the loop moves
`start` by a word at least, so that a text has at most one window more than words (`MostChunks` bounds what Ingestion's step may return); that there is one at least comes from
`WindowInv`. Theorems: `TimersAreCleared`, `ExitsAreNoticed`, `WordsAreChunked`, `WindowsOverlap`,
`WindowsFit`, `TypeCorrect`, `ExtractionImplementsSteps`.

**GroundedAnswerProofs**, for all chunks, papers and limits. Two arithmetic lemmas carry the fusion: `1/a + 1/b > 1/d`
for `a`, `b` in `k+1 .. 2k+1` and `d > k` (`TwoBeatOne`) - the reason why lists longer than `k + 1` would break the
promise - and that smaller ranks have larger sums (`SmallerDenominators`). `FusedInv` says that the candidates are the front of a sorted
enumeration of what was found, `SeenInv` that a listed or cited chunk's paper was ready. The refinement of Conversation's two awaits rests on
`OrderInv`: Gemini is not asked before the search has answered; then a retry, a sleep and the strict attempt are stutters of `AnswerQuestion`, and each failure closes the
handler once. `AnswersWearOut`: `StepsLeft`, at most 18, goes down with each step of the handler - the strict attempt resets `tries` but takes three calls off
what is left - and papers that settle meanwhile do not raise it. Theorems: `AgreementHolds`,
`DominationHolds`, `CitationsHold`, `StrictBeforeUncited`, `TypeCorrect`, `AnsweringImplementsTurn`, `AnswersWearOut`.

Every safety invariant, every action property and every refinement that a passing run checks is thus a theorem. The other way round, the type
invariants of Ingestion, Conversation and FlashcardQuota, `ChunksFit` and the three bounds of the `...WearOut` theorems are proved and no longer part of a run: a proof for
every instance makes the small one superfluous. **Only model-checked** are the liveness
properties (`QueuedJobEnds`, `AcceptedPaperSettles`, `ExtractionEnds`, `NoThreadLeft`, `EveryRequestEnds`, `EveryQuestionEnds`, `AskEnds`,
`EveryRequestIsDecided`), since temporal reasoning under fairness, and that an action is enabled, are out of the prover's reach. The bounds that are proved are the
part of the argument that is within it: what a fair step does to the distance from the end, and that no other step undoes it.

## 6. Disagreements between code and documents

Each is a run in which TLC violates a sentence of the repository:

1. `ingestion_rerun` - `upsertChunks` only inserts. After a crash the second execution adds its rows to the first's, so a ready paper has
   more chunks than it reports. The processor's test expects them equal, and SPEC-SHEET calls the step "Upsert".
2. `ingestion_stuck` - after two crashes BullMQ fails the job itself, and nobody writes `papers.status`: the accepted paper stays
   `processing` for ever.
3. `flashcard_slice` - an answer that is not JSON is refunded although Gemini counted it, so the feature can exceed "this feature's
   reserved slice" of the account's cap.
4. `conversation_race` - a robot that asks again after its timeout can leave two sessions, of which the later hides the heard turns
   from the next question. With no overlapping questions the promise holds (`FollowUpKnowsHeardTurns`).
5. `grounded_decline` - a curriculum question for which nothing was found is answered from general knowledge; SPEC-SHEET and
   README want it declined. The code's comment says that this is intended.

Two more were met by reading and have no run. `papers-upload.controller.ts` (line 60) and `app.module.ts` in `apps/api/src` (line 33) say that uploads are
limited per admin, but the throttler is a global guard and runs before `AuthGuard` sets `req.principal`, so its tracker falls back
to the IP address; the test sets the principal in a middleware that the service does not have. The comment of `multipart-wav.interceptor.ts`
(line 21) puts the check of the body before any gRPC call, but the guard before it has made one.

## 7. Simplifications

- A student in `Conversation` is the `student_id` in the body of `POST /chat/ask`. The controller does not compare it with the admitted
  principal (its comment, `chat.controller.ts:31`, leaves that to a later phase), so "a session of its own" in `HeardTurnIsStored`, `ImplementsTranscript` and
  their theorems means a session of the id that the request names: the asker's own session only for clients that send their own id.
- Rows are ordered by when their statement was executed; `created_at` has that order unless clocks or long transactions interfere.
- Equal fusion scores come in any order: the code adds floating-point numbers, which may or may not tie.
- The filters of a search, and the words of a query, select any subset of the searchable chunks. Relevance scores are only "above the
  threshold or not".
- Citations are a set; a citation repeated by Gemini gives a repeated source in the code. Non-integers are like numbers of no excerpt.
- Within one search or answer a service crash is a failed call.
- Speech recognition and synthesis and retrieval are outcomes (success or failure) in `Conversation`, whose questions have been admitted.
- Signatures and salted hashes are sound in `Admission`: a token is its subject and its signing key, a hash matches its own key only.
  Time is the set of expired tokens; the verifier is given no clock tolerance.
- Contents of chunks, prompts, questions and answers are abstracted everywhere; the chunker works on positions of words.

## 8. Not modelled, and why

- *Metrics*: two read-only aggregates.
- *Throttling*: counters in a library, in the memory of one process; a 429 is an outcome of `TurnAway`.
- *Configuration, gRPC clients, bootstrap*: no state between requests. Validation of the environment happens once, at the start.
- *Operator scripts* (`src/scripts`): run by hand outside the service. Only `promote-admin` writes state that a model reads. An interrupted
  `seed-papers` leaves a ready paper without all its chunks; it is listed as a hazard without a property.
- *Audio*: the WAV header that `VoiceController` strips, and the limits of the interceptor, are data; a refused body is the outcome `badbody`.
- *Mobile and robot firmware* are not part of the repository; their behaviour (one question at a time, 30 s timeout) is taken from
  how the code and its documents use them.

## 9. Plan

Done: Ingestion with PaperLifecycle, PaperExtraction with FixedWindow, FlashcardQuota, Conversation, HybridSearch with GroundedAnswer, Admission; proofs
of every safety property and of four refinements. What is left, the most important first:

1. *Bounds* as for the jobs, answers and flashcards also for a handler of Conversation, a guard of Admission and the race of PaperExtraction;
   an abstract budget that FlashcardQuota implements, with the misplaced releases as its only excess; an abstract gate for Admission.
2. *Throttling*: the two named sets and their trackers in front of Admission, with the order of the guards.
3. *seed-papers* as one more writer of papers beside Ingestion.
