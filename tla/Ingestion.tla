------------------------------ MODULE Ingestion ------------------------------
(***************************************************************************)
(* The life of an exam paper, from the admin's upload to its chunks in the *)
(* vector table:                                                           *)
(*                                                                         *)
(*   POST /papers/upload   store the PDF, insert the row, enqueue a job    *)
(*   the BullMQ queue      hand the job to one worker, retry, recover jobs *)
(*                         whose worker disappeared (external: Redis)      *)
(*   IngestionProcessor    load, download, extract, upsert the chunks one  *)
(*                         by one, write papers.status, push over the      *)
(*                         websocket                                       *)
(*                                                                         *)
(* Every await of the code ends an action, so the uploads and the workers  *)
(* of all nodes interleave there.  A node is one process of the modular    *)
(* monolith: it serves uploads and, if INGESTION_WORKER_ENABLED, runs one  *)
(* worker of concurrency 1.                                                *)
(***************************************************************************)
EXTENDS Integers, FiniteSets

CONSTANTS Papers,       \* paper ids: randomUUID() never repeats one
          Nodes,        \* processes of apps/api
          WorkerNodes,  \* those started with INGESTION_WORKER_ENABLED
          MaxChunks,    \* BOUND: chunks of one extraction
          Faults,       \* which of "crash", "db", "redis" can happen
          NoPaper,      \* no paper
          NoNode        \* nobody holds the lock of the job

Attempts == 2    \* attempts: 2 of the job options
MaxStalled == 1  \* BullMQ's default maxStalledCount

ASSUME IngestionAssumption ==
    /\ WorkerNodes \subseteq Nodes
    /\ MaxChunks \in Nat \ {0}
    /\ Faults \subseteq {"crash", "db", "redis"}
    /\ NoPaper \notin Papers
    /\ NoNode \notin Nodes

VARIABLES storage,      \* papers whose PDF is an object of the bucket
          status,       \* status[p]: papers.status, "none" without a row
          errorReason,  \* errorReason[p]: papers.error_reason is not null
          chunks,       \* chunks[p]: rows of paper_chunks; the execution and the
                        \* index that inserted a row stand for its random uuid
          job,          \* job[p]: BullMQ's state of the job of p
          attemptsMade, \* attemptsMade[p]: executions of the job that threw
          stalled,      \* stalled[p]: times the job was taken from a dead worker
          owner,        \* owner[p]: the node whose token is the job's lock
          upload,       \* upload[p]: where the upload handler of p is
          worker,       \* worker[n]: the execution of process() on node n
          upserted,     \* history: what upsertChunks returned, per execution
          pushed        \* history: the paper:ingestion_status events of p

dbVars == <<status, errorReason, chunks>>
queueVars == <<job, attemptsMade, stalled, owner>>
history == <<upserted, pushed>>
vars == <<storage, dbVars, queueVars, upload, worker, history>>

-----------------------------------------------------------------------------
(* States *)

Settled == {"ready", "failed"}
Runs == 0 .. Attempts + MaxStalled - 1

(* A call over the network answers; or takes effect but its answer is lost, *)
(* which the caller sees as an error; or fails without effect.              *)
Reply == {"ok", "lost", "failed"}
Replies(f) == IF f \in Faults THEN Reply ELSE {"ok"}
Took(r) == r # "failed"

UploadPcs == {"idle", "store", "insert", "enqueue", "accepted", "error", "cut"}
InFlight == {"store", "insert", "enqueue"}
WorkerPcs == {"idle", "load", "download", "extract", "parse", "embed",
              "insert", "upserted", "fail", "return", "throw"}
JobStates == {"absent", "waiting", "active", "delayed", "completed", "failed"}

(* An execution of process(): where it is, its paper, a number that tells   *)
(* its rows from those of other executions (the code has no such number,    *)
(* its rows have random uuids), the size of `chunks' and the index of the   *)
(* loop in upsertChunks.                                                    *)
Execution(l, p, r, k, i) == [pc |-> l, paper |-> p, run |-> r, size |-> k, next |-> i]
IdleWorker == Execution("idle", NoPaper, 0, 0, 0)

Init == /\ storage = {}
        /\ status = [p \in Papers |-> "none"]
        /\ errorReason = [p \in Papers |-> FALSE]
        /\ chunks = [p \in Papers |-> {}]
        /\ job = [p \in Papers |-> "absent"]
        /\ attemptsMade = [p \in Papers |-> 0]
        /\ stalled = [p \in Papers |-> 0]
        /\ owner = [p \in Papers |-> NoNode]
        /\ upload = [p \in Papers |-> [pc |-> "idle", node |-> NoNode]]
        /\ worker = [n \in Nodes |-> IdleWorker]
        /\ upserted = [p \in Papers |-> {}]
        /\ pushed = [p \in Papers |-> {}]

-----------------------------------------------------------------------------
(* PapersUploadController.upload.  Requests that fail the mime or the size *)
(* check are answered 400 before a paper id exists, and change nothing.    *)

UploadAt(p, l) == upload[p].pc = l
UploadGoto(p, l) ==
    upload' = [upload EXCEPT ![p] =
                 [pc |-> l, node |-> IF l \in InFlight THEN upload[p].node ELSE NoNode]]

StartUpload(p) == \E n \in Nodes :
    /\ UploadAt(p, "idle")
    /\ upload' = [upload EXCEPT ![p] = [pc |-> "store", node |-> n]]
    /\ UNCHANGED <<storage, dbVars, queueVars, worker, history>>

(* Mutant: the error that the storage client returns is not thrown. *)
UploadPdfUnchecked(p) == \E r \in Reply :
    /\ UploadAt(p, "store")
    /\ storage' = IF Took(r) THEN storage \union {p} ELSE storage
    /\ UploadGoto(p, "insert")
    /\ UNCHANGED <<dbVars, queueVars, worker, history>>

UploadPdf(p) == \E r \in Reply :
    /\ UploadAt(p, "store")
    /\ storage' = IF Took(r) THEN storage \union {p} ELSE storage
    /\ UploadGoto(p, IF r = "ok" THEN "insert" ELSE "error")
    /\ UNCHANGED <<dbVars, queueVars, worker, history>>

InsertPaper(p) == \E r \in Replies("db") :
    /\ UploadAt(p, "insert")
    /\ status' = IF Took(r) THEN [status EXCEPT ![p] = "processing"] ELSE status
    /\ UploadGoto(p, IF r = "ok" THEN "enqueue" ELSE "error")
    /\ UNCHANGED <<storage, errorReason, chunks, queueVars, worker, history>>

(* IngestionQueueService.enqueue and the response. *)
Enqueue(p) == \E r \in Replies("redis") :
    /\ UploadAt(p, "enqueue")
    /\ job' = IF Took(r) THEN [job EXCEPT ![p] = "waiting"] ELSE job
    /\ UploadGoto(p, IF r = "ok" THEN "accepted" ELSE "error")
    /\ UNCHANGED <<storage, dbVars, attemptsMade, stalled, owner, worker, history>>

UploadStep(p) == StartUpload(p) \/ UploadPdf(p) \/ InsertPaper(p) \/ Enqueue(p)

-----------------------------------------------------------------------------
(* The queue (external): fetching and finishing a job is atomic in Redis   *)
(* and guarded by the lock token of the execution.                         *)

At(n, l) == worker[n].pc = l
Paper(n) == worker[n].paper

(* Go on at l; the locals of process() go out of scope where its try or    *)
(* its catch block ends.                                                   *)
Ending == {"fail", "return", "throw"}
Goto(n, l) ==
    LET w == worker[n] IN
    worker' = [worker EXCEPT ![n] =
                 IF l \in Ending THEN Execution(l, w.paper, 0, 0, 0)
                                 ELSE Execution(l, w.paper, w.run, w.size, w.next)]

(* Node n still executes the job whose lock it took. *)
Holds(n, p) == owner[p] = n /\ worker[n].pc # "idle" /\ worker[n].paper = p

Fetch(n, p) ==
    /\ n \in WorkerNodes
    /\ At(n, "idle")
    /\ job[p] = "waiting"
    /\ job' = [job EXCEPT ![p] = "active"]
    /\ owner' = [owner EXCEPT ![p] = n]
    /\ worker' = [worker EXCEPT ![n] =
                    Execution("load", p, attemptsMade[p] + stalled[p], 0, 0)]
    /\ UNCHANGED <<storage, dbVars, attemptsMade, stalled, upload, history>>

(* The worker reports the outcome of process(): BullMQ writes it only while *)
(* the lock is the execution's own, and the worker goes on either way.      *)
FinishJob(n) == \E r \in Replies("redis") :
    /\ At(n, "return")
    /\ LET p == Paper(n) IN
         IF Took(r) /\ owner[p] = n
         THEN /\ job' = [job EXCEPT ![p] = "completed"]
              /\ owner' = [owner EXCEPT ![p] = NoNode]
         ELSE UNCHANGED <<job, owner>>
    /\ worker' = [worker EXCEPT ![n] = IdleWorker]
    /\ UNCHANGED <<storage, dbVars, attemptsMade, stalled, upload, history>>

AfterReject(made) == IF made < Attempts THEN "delayed" ELSE "failed"

(* Mutant: the attempt is not counted. *)
MadeUncounted(p) == attemptsMade[p]

Made(p) == attemptsMade[p] + 1

RejectJob(n) == \E r \in Replies("redis") :
    /\ At(n, "throw")
    /\ LET p == Paper(n) IN
         IF Took(r) /\ owner[p] = n
         THEN /\ attemptsMade' = [attemptsMade EXCEPT ![p] = Made(p)]
              /\ job' = [job EXCEPT ![p] = AfterReject(Made(p))]
              /\ owner' = [owner EXCEPT ![p] = NoNode]
         ELSE UNCHANGED <<job, attemptsMade, owner>>
    /\ worker' = [worker EXCEPT ![n] = IdleWorker]
    /\ UNCHANGED <<storage, dbVars, stalled, upload, history>>

(* The exponential backoff of a failed attempt is over. *)
BackoffOver(p) == /\ job[p] = "delayed"
                  /\ job' = [job EXCEPT ![p] = "waiting"]
                  /\ UNCHANGED <<storage, dbVars, attemptsMade, stalled, owner,
                                 upload, worker, history>>

(* The stalled-jobs check found an active job without a live lock. *)
MoveStalled(p) ==
    /\ job[p] = "active"
    /\ owner' = [owner EXCEPT ![p] = NoNode]
    /\ IF stalled[p] < MaxStalled
       THEN /\ job' = [job EXCEPT ![p] = "waiting"]
            /\ stalled' = [stalled EXCEPT ![p] = stalled[p] + 1]
       ELSE /\ job' = [job EXCEPT ![p] = "failed"]
            /\ UNCHANGED stalled
    /\ UNCHANGED <<storage, dbVars, attemptsMade, upload, worker, history>>

(* Its worker died, or finished but could not tell Redis. *)
StalledJob(p) == MoveStalled(p) /\ \A n \in Nodes : ~Holds(n, p)

(* Its worker runs but could not renew the lock in time. *)
LockLost(p) == "redis" \in Faults /\ MoveStalled(p) /\ \E n \in Nodes : Holds(n, p)

-----------------------------------------------------------------------------
(* IngestionProcessor.process                                              *)

(* Mutant: an execution starts the paper over. *)
LoadPaperResets(n) ==
    /\ At(n, "load")
    /\ Goto(n, "download")
    /\ status' = [status EXCEPT ![Paper(n)] = "processing"]
    /\ chunks' = [chunks EXCEPT ![Paper(n)] = {}]
    /\ UNCHANGED <<storage, errorReason, queueVars, upload, history>>

LoadPaper(n) == \E r \in Replies("db") :
    /\ At(n, "load")
    /\ Goto(n, IF r = "ok" /\ status[Paper(n)] # "none" THEN "download" ELSE "fail")
    /\ UNCHANGED <<storage, dbVars, queueVars, upload, history>>

DownloadPdf(n) == \E answered \in BOOLEAN :
    /\ At(n, "download")
    /\ Goto(n, IF answered /\ Paper(n) \in storage THEN "extract" ELSE "fail")
    /\ UNCHANGED <<storage, dbVars, queueVars, upload, history>>

(* `chunks' has k elements; the loop over them starts. *)
GotChunks(n, k) ==
    worker' = [worker EXCEPT ![n] = Execution("embed", Paper(n), worker[n].run, k, 0)]

(* The loop goes on behind element i. *)
NextChunk(n, i) ==
    LET w == worker[n] IN
    worker' = [worker EXCEPT ![n] = Execution("embed", w.paper, w.run, w.size, i + 1)]

(* Gemini finds some questions, none at all, or the call fails. *)
ExtractChunks(n) ==
    /\ At(n, "extract")
    /\ Goto(n, "parse") \/ \E k \in 0 .. MaxChunks : GotChunks(n, k)
    /\ UNCHANGED <<storage, dbVars, queueVars, upload, history>>

(* Mutant: a parser that hangs is waited for. *)
ParseFallbackHangs(n) ==
    /\ At(n, "parse")
    /\ Goto(n, "hung") \/ \E k \in 1 .. MaxChunks : GotChunks(n, k)
    /\ UNCHANGED <<storage, dbVars, queueVars, upload, history>>

(* The fixed-window fallback: at least one chunk, or the parse fails. *)
ParseFallback(n) ==
    /\ At(n, "parse")
    /\ Goto(n, "fail") \/ \E k \in 1 .. MaxChunks : GotChunks(n, k)
    /\ UNCHANGED <<storage, dbVars, queueVars, upload, history>>

Row(n) == [run |-> worker[n].run, index |-> worker[n].next]

(* Mutant: a chunk that cannot be embedded is skipped. *)
EmbedSkips(n) == \E answered \in BOOLEAN :
    /\ At(n, "embed")
    /\ worker[n].next < worker[n].size
    /\ IF answered THEN Goto(n, "insert")
                   ELSE NextChunk(n, worker[n].next)
    /\ UNCHANGED <<storage, dbVars, queueVars, upload, history>>

Embed(n) == \E answered \in BOOLEAN :
    /\ At(n, "embed")
    /\ worker[n].next < worker[n].size
    /\ Goto(n, IF answered THEN "insert" ELSE "fail")
    /\ UNCHANGED <<storage, dbVars, queueVars, upload, history>>

(* Mutant: the fallback also catches the errors of upsertChunks. *)
InsertChunkFallsBack(n) == \E r \in Replies("db") :
    /\ At(n, "insert")
    /\ chunks' = IF Took(r) THEN [chunks EXCEPT ![Paper(n)] = @ \union {Row(n)}] ELSE chunks
    /\ IF r = "ok" THEN NextChunk(n, worker[n].next) ELSE Goto(n, "parse")
    /\ UNCHANGED <<storage, status, errorReason, queueVars, upload, history>>

(* A plain INSERT: a row of an earlier execution is neither replaced nor   *)
(* rejected.                                                               *)
InsertChunk(n) == \E r \in Replies("db") :
    /\ At(n, "insert")
    /\ chunks' = IF Took(r) THEN [chunks EXCEPT ![Paper(n)] = @ \union {Row(n)}] ELSE chunks
    /\ IF r = "ok" THEN NextChunk(n, worker[n].next) ELSE Goto(n, "fail")
    /\ UNCHANGED <<storage, status, errorReason, queueVars, upload, history>>

UpsertReturns(n) ==
    /\ At(n, "embed")
    /\ worker[n].next = worker[n].size
    /\ upserted' = [upserted EXCEPT ![Paper(n)] =
                      @ \union {[run |-> worker[n].run, count |-> worker[n].size]}]
    /\ Goto(n, "upserted")
    /\ UNCHANGED <<storage, dbVars, queueVars, upload, pushed>>

SetStatus(p, s) ==
    status' = [status EXCEPT ![p] = IF status[p] = "none" THEN "none" ELSE s]

(* pushStatus: an emit that throws is logged and changes nothing. *)
Push(p, s, k) ==
    \/ pushed' = [pushed EXCEPT ![p] = @ \union {[status |-> s, chunk_count |-> k]}]
    \/ UNCHANGED pushed

(* Mutant: an emit that throws reaches the catch of process(). *)
MarkReadyEmitThrows(n) == \E r \in Replies("db") :
    /\ At(n, "upserted")
    /\ IF Took(r) THEN SetStatus(Paper(n), "ready") ELSE UNCHANGED status
    /\ Goto(n, "fail") \/ (r = "ok" /\ Goto(n, "return"))
    /\ UNCHANGED <<storage, errorReason, chunks, queueVars, upload, history>>

(* The update, then - in the same turn of the event loop - the push. *)
MarkReady(n) == \E r \in Replies("db") :
    /\ At(n, "upserted")
    /\ IF Took(r) THEN SetStatus(Paper(n), "ready") ELSE UNCHANGED status
    /\ IF r = "ok"
       THEN Goto(n, "return") /\ Push(Paper(n), "ready", worker[n].size)
       ELSE Goto(n, "fail") /\ UNCHANGED pushed
    /\ UNCHANGED <<storage, errorReason, chunks, queueVars, upload, upserted>>

(* Mutants: the catch block hides its own failure; or it rethrows. *)
CatchHides(r) == "return"
CatchRethrows(r) == "throw"

AfterCatch(r) == IF r = "ok" THEN "return" ELSE "throw"

(* The catch block; its own failure rejects the job. *)
MarkFailed(n) == \E r \in Replies("db") :
    /\ At(n, "fail")
    /\ IF Took(r)
       THEN /\ SetStatus(Paper(n), "failed")
            /\ errorReason' = [errorReason EXCEPT ![Paper(n)] = status[Paper(n)] # "none"]
       ELSE UNCHANGED <<status, errorReason>>
    /\ Goto(n, AfterCatch(r))
    /\ IF r = "ok" THEN Push(Paper(n), "failed", 0) ELSE UNCHANGED pushed
    /\ UNCHANGED <<storage, chunks, queueVars, upload, upserted>>

Process(n) == \/ LoadPaper(n) \/ DownloadPdf(n) \/ ExtractChunks(n) \/ ParseFallback(n)
              \/ Embed(n) \/ InsertChunk(n) \/ UpsertReturns(n)
              \/ MarkReady(n) \/ MarkFailed(n)

-----------------------------------------------------------------------------
(* The process dies - an unhandled error, the OOM killer, a deploy: main.ts *)
(* installs no shutdown hooks, so onModuleDestroy does not run - and        *)
(* restarts.  Its uploads are cut off, the execution on its worker is gone. *)

CutUploads(n) == [p \in Papers |-> IF upload[p].node = n
                                   THEN [pc |-> "cut", node |-> NoNode]
                                   ELSE upload[p]]

Crash(n) == /\ "crash" \in Faults
            /\ ~At(n, "idle") \/ \E p \in Papers : upload[p].node = n
            /\ worker' = [worker EXCEPT ![n] = IdleWorker]
            /\ upload' = CutUploads(n)
            /\ UNCHANGED <<storage, dbVars, queueVars, history>>

WorkerStep(n) == (\E p \in Papers : Fetch(n, p)) \/ Process(n) \/ FinishJob(n) \/ RejectJob(n)
QueueStep(p) == BackoffOver(p) \/ StalledJob(p)

Next == \/ \E p \in Papers : UploadStep(p) \/ QueueStep(p) \/ LockLost(p)
        \/ \E n \in Nodes : WorkerStep(n) \/ Crash(n)

Spec == Init /\ [][Next]_vars

(* Awaited calls settle, the event loop of a running node goes on, and     *)
(* BullMQ's timers fire.  Nothing makes a node crash or a live lock expire. *)
Fairness == /\ \A p \in Papers : WF_vars(UploadStep(p)) /\ WF_vars(QueueStep(p))
            /\ \A n \in Nodes : WF_vars(WorkerStep(n))

FairSpec == Spec /\ Fairness

-----------------------------------------------------------------------------
(* Properties *)

Executions == [pc : WorkerPcs, paper : Papers \union {NoPaper}, run : Runs,
               size : 0 .. MaxChunks, next : 0 .. MaxChunks]

TypeOK ==
    /\ storage \subseteq Papers
    /\ status \in [Papers -> Settled \union {"none", "processing"}]
    /\ errorReason \in [Papers -> BOOLEAN]
    /\ chunks \in [Papers -> SUBSET [run : Runs, index : 0 .. MaxChunks - 1]]
    /\ job \in [Papers -> JobStates]
    /\ attemptsMade \in [Papers -> 0 .. Attempts]
    /\ stalled \in [Papers -> 0 .. MaxStalled]
    /\ owner \in [Papers -> Nodes \union {NoNode}]
    /\ upload \in [Papers -> [pc : UploadPcs, node : Nodes \union {NoNode}]]
    /\ worker \in [Nodes -> Executions]
    /\ upserted \in [Papers -> SUBSET [run : Runs, count : 0 .. MaxChunks]]
    /\ pushed \in [Papers -> SUBSET [status : Settled, chunk_count : 0 .. MaxChunks]]

(* Upload makes three things by three calls, without a transaction.  Their  *)
(* order means that whatever fails or crashes in between, only the earlier  *)
(* ones are left over - a PDF without a row, a row without a job: a worker  *)
(* never finds its row or its PDF missing, a row always has its PDF, and    *)
(* the admin is told "processing" only when there is a job.                 *)
QueuedPaperExists ==
    \A p \in Papers :
        /\ job[p] # "absent" => status[p] # "none"
        /\ status[p] # "none" => p \in storage
        /\ UploadAt(p, "accepted") => job[p] # "absent"

(* Every chunk that one completed upsertChunks reported is in the table. *)
Stored(p, u) == \A i \in 0 .. u.count - 1 : [run |-> u.run, index |-> i] \in chunks[p]

(* A paper that students can search (hybrid-search joins on status =       *)
(* 'ready') never lacks chunks: one whole execution is in paper_chunks,     *)
(* even after crashes, reruns and two executions at once.                  *)
ReadyImpliesComplete ==
    \A p \in Papers : status[p] = "ready" => \E u \in upserted[p] : Stored(p, u)

(* A job that BullMQ shows as completed has told the admin how it ended,   *)
(* since process() swallows a failure only after it wrote "failed".        *)
CompletedJobSettled ==
    \A p \in Papers : job[p] = "completed" => status[p] \in Settled

(* No client hears an outcome by websocket that the database never had, and *)
(* the chunk_count of a "ready" is that of an execution of which every row  *)
(* is in the table, whatever was run again or went wrong since.             *)
PushIsBackedByRows ==
    \A p \in Papers : \A e \in pushed[p] :
        /\ status[p] \in Settled
        /\ e.status = "ready" => \E u \in upserted[p] : u.count = e.chunk_count /\ Stored(p, u)

(* The rows of p are as many as an execution reported. *)
HasReportedRows(p) == \E u \in upserted[p] : Cardinality(chunks[p]) = u.count

(* The chunk_count of a ready paper is the number an execution reported:   *)
(* ingestion.processor.spec.ts expects chunkRows.length = chunkCount.      *)
(* True without faults; an execution that follows a crash adds its rows to *)
(* those of the one before (ChunkUpsertService.upsertChunks only INSERTs). *)
ChunkCountIsReported == \A p \in Papers : status[p] = "ready" => HasReportedRows(p)

(* BullMQ has not put the job of p back: no execution of it threw, and none *)
(* lost its worker or its lock.                                             *)
NeverRerun(p) == attemptsMade[p] = 0 /\ stalled[p] = 0

(* Under all faults, leftover rows come to light only by a rerun: inserts   *)
(* that fail or lose their answers leave rows, but the same execution never *)
(* goes on to "ready" beside them - its catch block has the last word, and  *)
(* an error it wrote down is not retried.                                   *)
LeftoversTakeARerun ==
    \A p \in Papers : status[p] = "ready" /\ NeverRerun(p) => HasReportedRows(p)

(* Without faults every websocket event is the paper's final status: an    *)
(* emit that throws never turns a success into a failure (pushStatus).     *)
PushAgreesWithStatus ==
    \A p \in Papers : \A e \in pushed[p] : e.status = status[p]

(* A bound on the moves of a job: waiting, active and - after a rejection - *)
(* delayed, once for each execution it has left.                           *)
ExecutionsLeft(p) == Attempts + MaxStalled - attemptsMade[p] - stalled[p]

MovesLeft(p) == CASE job[p] = "delayed" -> 3 * ExecutionsLeft(p) + 2
                  [] job[p] = "waiting" -> 3 * ExecutionsLeft(p) + 1
                  [] job[p] = "active" -> 3 * ExecutionsLeft(p)
                  [] job[p] \in {"absent", "completed", "failed"} -> 0

(* Crashes, lost locks, lost answers and retries may move a job through    *)
(* the queue in any order, but never round and round: each move uses up    *)
(* some of at most ten.                                                    *)
EveryMoveIsProgress ==
    [][\A p \in Papers : job[p] # "absent" =>
           IF job'[p] = job[p] THEN MovesLeft(p)' = MovesLeft(p)
                               ELSE MovesLeft(p)' < MovesLeft(p)]_vars

(* Every job that got into the queue leaves it: at most three executions,  *)
(* then it is completed or dead.                                           *)
QueuedJobEnds ==
    \A p \in Papers : job[p] # "absent" ~> job[p] \in {"completed", "failed"}

(* A paper whose upload was answered "processing" becomes ready or failed  *)
(* (SPEC-SHEET section 11, step 3e).  True without faults.                 *)
AcceptedPaperSettles ==
    \A p \in Papers : UploadAt(p, "accepted") ~> status[p] \in Settled

(* The abstract life of a paper, with whole extractions for "complete".    *)
Life == INSTANCE PaperLifecycle WITH
            SettledIsFinal <- Faults = {},
            complete <- {p \in Papers : \E u \in upserted[p] : Stored(p, u)}
ImplementsLifecycle == Life!Spec
=============================================================================
