--------------------------- MODULE IngestionProofs ---------------------------
(***************************************************************************)
(* Proofs about Ingestion, for all papers, nodes, chunk counts and faults. *)
(***************************************************************************)
EXTENDS Ingestion, TLAPS, FiniteSetTheorems

-----------------------------------------------------------------------------
(* How the program counters move. *)

LEMMA ExecutionType ==
    ASSUME NEW l \in WorkerPcs, NEW p \in Papers \union {NoPaper}, NEW r \in Runs,
           NEW k \in 0 .. MaxChunks, NEW i \in 0 .. MaxChunks
    PROVE  Execution(l, p, r, k, i) \in Executions
BY DEF Execution, Executions

LEMMA IdleType == IdleWorker \in Executions
<1>1. "idle" \in WorkerPcs /\ 0 \in Runs /\ 0 \in 0 .. MaxChunks
  BY IngestionAssumption DEF WorkerPcs, Runs, Attempts, MaxStalled
<1> QED BY <1>1 DEF IdleWorker, Execution, Executions

(* Goto moves one worker, keeps its paper and - until the try block ends - *)
(* its locals.                                                             *)
LEMMA GotoEffect ==
    ASSUME TypeOK, NEW n \in Nodes, NEW l \in WorkerPcs, Goto(n, l)
    PROVE  /\ worker' \in [Nodes -> Executions]
           /\ worker'[n].pc = l
           /\ worker'[n].paper = worker[n].paper
           /\ l \notin Ending => /\ worker'[n].run = worker[n].run
                                 /\ worker'[n].size = worker[n].size
                                 /\ worker'[n].next = worker[n].next
           /\ l \in Ending => worker'[n].next = 0
           /\ \A m \in Nodes \ {n} : worker'[m] = worker[m]
<1> DEFINE w == worker[n]
           e == IF l \in Ending THEN Execution(l, w.paper, 0, 0, 0)
                                ELSE Execution(l, w.paper, w.run, w.size, w.next)
<1>1. w \in Executions
  BY DEF TypeOK
<1>2. 0 \in Runs /\ 0 \in 0 .. MaxChunks
  BY IngestionAssumption DEF Runs, Attempts, MaxStalled
<1>3. e \in Executions
  BY <1>1, <1>2, ExecutionType DEF Executions
<1>4. worker' = [worker EXCEPT ![n] = e]
  BY DEF Goto
<1>5. worker'[n] = e /\ \A m \in Nodes \ {n} : worker'[m] = worker[m]
  BY <1>4 DEF TypeOK
<1>6. worker' \in [Nodes -> Executions]
  BY <1>3, <1>4 DEF TypeOK
<1> QED BY <1>5, <1>6 DEF Execution

(* The same for the two steps that set the locals of process(). *)
LEMMA GotChunksEffect ==
    ASSUME TypeOK, NEW n \in Nodes, NEW k \in 0 .. MaxChunks, GotChunks(n, k)
    PROVE  /\ worker' \in [Nodes -> Executions]
           /\ worker'[n].pc = "embed"
           /\ worker'[n].paper = worker[n].paper
           /\ worker'[n].run = worker[n].run
           /\ worker'[n].size = k
           /\ worker'[n].next = 0
           /\ \A m \in Nodes \ {n} : worker'[m] = worker[m]
<1> DEFINE e == Execution("embed", Paper(n), worker[n].run, k, 0)
<1>1. worker[n] \in Executions /\ "embed" \in WorkerPcs /\ 0 \in 0 .. MaxChunks
  BY IngestionAssumption DEF TypeOK, WorkerPcs
<1>2. e \in Executions
  BY <1>1, ExecutionType DEF Executions, Paper
<1>3. worker' = [worker EXCEPT ![n] = e]
  BY DEF GotChunks
<1>4. worker'[n] = e /\ \A m \in Nodes \ {n} : worker'[m] = worker[m]
  BY <1>3 DEF TypeOK
<1>5. worker' \in [Nodes -> Executions]
  BY <1>2, <1>3 DEF TypeOK
<1> QED BY <1>4, <1>5 DEF Execution, Paper

LEMMA NextChunkEffect ==
    ASSUME TypeOK, NEW n \in Nodes, worker[n].next < worker[n].size,
           NextChunk(n, worker[n].next)
    PROVE  /\ worker' \in [Nodes -> Executions]
           /\ worker'[n].pc = "embed"
           /\ worker'[n].paper = worker[n].paper
           /\ worker'[n].run = worker[n].run
           /\ worker'[n].size = worker[n].size
           /\ worker'[n].next = worker[n].next + 1
           /\ \A m \in Nodes \ {n} : worker'[m] = worker[m]
<1> DEFINE w == worker[n]
           e == Execution("embed", w.paper, w.run, w.size, w.next + 1)
<1>1. w \in Executions /\ "embed" \in WorkerPcs
  BY DEF TypeOK, WorkerPcs
<1>2. w.next + 1 \in 0 .. MaxChunks
  BY <1>1, IngestionAssumption DEF Executions
<1>3. e \in Executions
  BY <1>1, <1>2, ExecutionType DEF Executions
<1>4. worker' = [worker EXCEPT ![n] = e]
  BY DEF NextChunk
<1>5. worker'[n] = e /\ \A m \in Nodes \ {n} : worker'[m] = worker[m]
  BY <1>4 DEF TypeOK
<1>6. worker' \in [Nodes -> Executions]
  BY <1>3, <1>4 DEF TypeOK
<1> QED BY <1>5, <1>6 DEF Execution

-----------------------------------------------------------------------------
(* Types, with what they rest on. *)

(* Where a job can be, given its upload, its counters and its lock. *)
QueueInv ==
    \A p \in Papers :
        /\ job[p] # "absent" => upload[p].pc \notin InFlight \union {"idle"}
        /\ job[p] = "absent" => attemptsMade[p] = 0 /\ stalled[p] = 0
        /\ job[p] \in {"waiting", "active", "delayed"} => attemptsMade[p] < Attempts
        /\ owner[p] # NoNode => job[p] = "active"

(* The loop of upsertChunks stays inside the extracted chunks. *)
InLoop(w) == /\ w.pc = "embed" => w.next <= w.size
             /\ w.pc = "insert" => w.next < w.size

(* An execution works on a paper whose job was enqueued. *)
WorkerInv ==
    \A n \in Nodes :
        /\ At(n, "idle") => worker[n] = IdleWorker
        /\ ~At(n, "idle") => Paper(n) \in Papers /\ job[Paper(n)] # "absent"
        /\ InLoop(worker[n])

TypeInv == TypeOK /\ QueueInv /\ WorkerInv

LEMMA InitTypeInv == Init => TypeInv
BY IdleType, IngestionAssumption
DEF Init, TypeInv, TypeOK, QueueInv, WorkerInv, InLoop, IdleWorker, Execution, Runs, Attempts,
    MaxStalled, Settled, JobStates, UploadPcs, WorkerPcs, InFlight, At, Paper

(* An execution that goes on keeps WorkerInv. *)
LEMMA MoveWorkerInv ==
    ASSUME TypeInv, NEW n \in Nodes, ~At(n, "idle"),
           worker' \in [Nodes -> Executions],
           worker'[n].pc # "idle", worker'[n].paper = worker[n].paper,
           InLoop(worker'[n]),
           \A m \in Nodes \ {n} : worker'[m] = worker[m],
           job' = job
    PROVE  WorkerInv'
BY DEF TypeInv, TypeOK, WorkerInv, InLoop, At, Paper

(* An execution that ends keeps WorkerInv. *)
LEMMA EndWorkerInv ==
    ASSUME TypeInv, NEW n \in Nodes,
           worker' = [worker EXCEPT ![n] = IdleWorker],
           \A p \in Papers : job[p] # "absent" => job'[p] # "absent"
    PROVE  worker' \in [Nodes -> Executions] /\ WorkerInv'
BY IdleType DEF TypeInv, TypeOK, WorkerInv, InLoop, IdleWorker, Execution, At, Paper

LEMMA UploadTypeInv ==
    ASSUME TypeInv, NEW p \in Papers, UploadStep(p) PROVE TypeInv'
<1> USE IngestionAssumption
        DEF TypeInv, TypeOK, QueueInv, WorkerInv, InLoop, Settled, JobStates, UploadPcs, InFlight,
            At, Paper, Took, UploadAt, UploadGoto, dbVars, queueVars, history, Attempts
<1>1. CASE StartUpload(p)
  BY <1>1 DEF StartUpload
<1>2. CASE UploadPdf(p)
  BY <1>2 DEF UploadPdf
<1>3. CASE InsertPaper(p)
  BY <1>3 DEF InsertPaper
<1>4. CASE Enqueue(p)
  BY <1>4 DEF Enqueue
<1> QED BY <1>1, <1>2, <1>3, <1>4 DEF UploadStep

LEMMA MoveStalledTypeInv ==
    ASSUME TypeInv, NEW p \in Papers, MoveStalled(p) PROVE TypeInv'
<1> USE DEF MoveStalled, TypeInv, TypeOK, dbVars, history
<1>1. /\ owner' \in [Papers -> Nodes \union {NoNode}]
      /\ stalled' \in [Papers -> 0 .. MaxStalled]
      /\ job' \in [Papers -> JobStates]
  <2>1. CASE stalled[p] < MaxStalled
    <3>1. stalled[p] + 1 \in 0 .. MaxStalled
      BY <2>1 DEF MaxStalled
    <3> QED BY <2>1, <3>1 DEF JobStates
  <2>2. CASE ~(stalled[p] < MaxStalled)
    BY <2>2 DEF JobStates
  <2> QED BY <2>1, <2>2
<1>2. TypeOK'
  BY <1>1
<1>3. QueueInv'
  BY DEF QueueInv
<1>4. WorkerInv'
  BY DEF WorkerInv, InLoop, At, Paper
<1> QED BY <1>2, <1>3, <1>4

LEMMA ProcessTypeInv ==
    ASSUME TypeInv, NEW n \in Nodes, Process(n) PROVE TypeInv'
<1> USE DEF dbVars, queueVars, history
<1>0. TypeOK /\ Paper(n) = worker[n].paper
  BY DEF TypeInv, Paper
<1>1. SUFFICES /\ ~At(n, "idle")
               /\ worker' \in [Nodes -> Executions] /\ worker'[n].pc # "idle"
               /\ worker'[n].paper = worker[n].paper /\ InLoop(worker'[n])
               /\ \A m \in Nodes \ {n} : worker'[m] = worker[m]
               /\ status' \in [Papers -> Settled \union {"none", "processing"}]
               /\ errorReason' \in [Papers -> BOOLEAN]
               /\ chunks' \in [Papers -> SUBSET [run : Runs, index : 0 .. MaxChunks - 1]]
               /\ upserted' \in [Papers -> SUBSET [run : Runs, count : 0 .. MaxChunks]]
               /\ pushed' \in [Papers -> SUBSET [status : Settled, chunk_count : 0 .. MaxChunks]]
               /\ UNCHANGED <<storage, queueVars, upload>>
  <2>1. WorkerInv'
    BY <1>1, MoveWorkerInv
  <2>2. TypeOK'
    BY <1>0, <1>1 DEF TypeOK
  <2>3. QueueInv'
    BY <1>1 DEF TypeInv, QueueInv
  <2> QED BY <2>1, <2>2, <2>3 DEF TypeInv
<1>2. worker[n] \in Executions /\ InLoop(worker[n])
  BY DEF TypeInv, TypeOK, WorkerInv
<1>3. ASSUME NEW l \in WorkerPcs \ {"idle", "embed", "insert"}, Goto(n, l)
      PROVE  /\ worker' \in [Nodes -> Executions] /\ worker'[n].pc # "idle"
             /\ worker'[n].paper = worker[n].paper /\ InLoop(worker'[n])
             /\ \A m \in Nodes \ {n} : worker'[m] = worker[m]
  BY <1>0, <1>3, GotoEffect DEF InLoop
<1>4. ASSUME NEW k \in 0 .. MaxChunks, GotChunks(n, k)
      PROVE  /\ worker' \in [Nodes -> Executions] /\ worker'[n].pc # "idle"
             /\ worker'[n].paper = worker[n].paper /\ InLoop(worker'[n])
             /\ \A m \in Nodes \ {n} : worker'[m] = worker[m]
  BY <1>0, <1>4, GotChunksEffect, IngestionAssumption DEF InLoop
<1>5. CASE LoadPaper(n)
  BY <1>0, <1>3, <1>5 DEF LoadPaper, At, WorkerPcs, TypeOK
<1>6. CASE DownloadPdf(n)
  BY <1>0, <1>3, <1>6 DEF DownloadPdf, At, WorkerPcs, TypeOK
<1>7. CASE ExtractChunks(n)
  BY <1>0, <1>3, <1>4, <1>7 DEF ExtractChunks, At, WorkerPcs, TypeOK
<1>8. CASE ParseFallback(n)
  BY <1>0, <1>3, <1>4, <1>8, IngestionAssumption DEF ParseFallback, At, WorkerPcs, TypeOK
<1>9. CASE Embed(n)
  <2>1. CASE Goto(n, "insert")
    <3>1. /\ worker' \in [Nodes -> Executions] /\ worker'[n].pc # "idle"
          /\ worker'[n].paper = worker[n].paper /\ InLoop(worker'[n])
          /\ \A m \in Nodes \ {n} : worker'[m] = worker[m]
      BY <1>0, <1>9, <2>1, GotoEffect DEF Embed, InLoop, Ending, WorkerPcs
    <3> QED BY <1>0, <1>9, <3>1 DEF Embed, At, TypeOK
  <2>2. CASE Goto(n, "fail")
    BY <1>0, <1>3, <1>9, <2>2 DEF Embed, At, WorkerPcs, TypeOK
  <2> QED BY <1>9, <2>1, <2>2 DEF Embed
<1>10. CASE InsertChunk(n)
  <2>1. worker[n].next < worker[n].size /\ ~At(n, "idle")
    BY <1>2, <1>10 DEF InsertChunk, InLoop, At
  <2>2. /\ worker' \in [Nodes -> Executions] /\ worker'[n].pc # "idle"
        /\ worker'[n].paper = worker[n].paper /\ InLoop(worker'[n])
        /\ \A m \in Nodes \ {n} : worker'[m] = worker[m]
    <3>1. CASE NextChunk(n, worker[n].next)
      <4>1. worker[n].size \in Nat /\ worker[n].next \in Nat
        BY <1>2, IngestionAssumption DEF Executions
      <4>2. worker[n].next + 1 <= worker[n].size
        BY <2>1, <4>1
      <4> QED BY <1>0, <2>1, <3>1, <4>2, NextChunkEffect DEF InLoop
    <3>2. CASE Goto(n, "fail")
      BY <1>3, <3>2 DEF WorkerPcs
    <3> QED BY <1>10, <3>1, <3>2 DEF InsertChunk
  <2>3. Row(n) \in [run : Runs, index : 0 .. MaxChunks - 1]
    <3>1. worker[n].next \in 0 .. MaxChunks - 1 /\ worker[n].run \in Runs
      BY <1>2, <2>1, IngestionAssumption DEF Executions
    <3> QED BY <3>1 DEF Row
  <2>4. chunks' \in [Papers -> SUBSET [run : Runs, index : 0 .. MaxChunks - 1]]
    <3> DEFINE R == [run : Runs, index : 0 .. MaxChunks - 1]
    <3>1. chunks' = chunks \/ chunks' = [chunks EXCEPT ![Paper(n)] = @ \union {Row(n)}]
      BY <1>10 DEF InsertChunk
    <3>2. chunks \in [Papers -> SUBSET R] /\ Row(n) \in R
      BY <1>0, <2>3 DEF TypeOK
    <3> HIDE DEF R
    <3>3. chunks' \in [Papers -> SUBSET R]
      BY <3>1, <3>2
    <3> QED BY <3>3 DEF R
  <2> QED BY <1>0, <1>10, <2>1, <2>2, <2>4 DEF InsertChunk, TypeOK
<1>11. CASE UpsertReturns(n)
  <2>1. [run |-> worker[n].run, count |-> worker[n].size] \in [run : Runs, count : 0 .. MaxChunks]
    BY <1>2 DEF Executions
  <2>2. upserted' \in [Papers -> SUBSET [run : Runs, count : 0 .. MaxChunks]]
    BY <1>0, <1>11, <2>1 DEF UpsertReturns, TypeOK
  <2> QED BY <1>0, <1>3, <1>11, <2>2 DEF UpsertReturns, At, WorkerPcs, TypeOK
<1>12. ASSUME NEW s \in Settled, SetStatus(Paper(n), s) \/ UNCHANGED status
       PROVE  status' \in [Papers -> Settled \union {"none", "processing"}]
  BY <1>0, <1>12 DEF SetStatus, TypeOK
<1>13. ASSUME NEW s \in Settled, NEW k \in 0 .. MaxChunks,
              Push(Paper(n), s, k) \/ UNCHANGED pushed
       PROVE  pushed' \in [Papers -> SUBSET [status : Settled, chunk_count : 0 .. MaxChunks]]
  BY <1>0, <1>13 DEF Push, TypeOK
<1>14. CASE MarkReady(n)
  <2>1. status' \in [Papers -> Settled \union {"none", "processing"}]
    BY <1>12, <1>14 DEF MarkReady, Settled
  <2>2. pushed' \in [Papers -> SUBSET [status : Settled, chunk_count : 0 .. MaxChunks]]
    BY <1>2, <1>13, <1>14 DEF MarkReady, Settled, Executions
  <2>3. Goto(n, "return") \/ Goto(n, "fail")
    BY <1>14 DEF MarkReady
  <2> QED BY <1>0, <1>3, <1>14, <2>1, <2>2, <2>3 DEF MarkReady, At, WorkerPcs, TypeOK
<1>15. CASE MarkFailed(n)
  <2>1. status' \in [Papers -> Settled \union {"none", "processing"}]
    BY <1>12, <1>15 DEF MarkFailed, Settled
  <2>2. pushed' \in [Papers -> SUBSET [status : Settled, chunk_count : 0 .. MaxChunks]]
    BY <1>13, <1>15, IngestionAssumption DEF MarkFailed, Settled
  <2>3. Goto(n, "return") \/ Goto(n, "throw")
    BY <1>15 DEF MarkFailed, AfterCatch
  <2>4. errorReason' \in [Papers -> BOOLEAN]
    BY <1>0, <1>15 DEF MarkFailed, TypeOK
  <2> QED BY <1>0, <1>3, <1>15, <2>1, <2>2, <2>3, <2>4 DEF MarkFailed, At, WorkerPcs, TypeOK
<1> QED BY <1>5, <1>6, <1>7, <1>8, <1>9, <1>10, <1>11, <1>14, <1>15 DEF Process

LEMMA FetchTypeInv ==
    ASSUME TypeInv, NEW n \in Nodes, NEW p \in Papers, Fetch(n, p) PROVE TypeInv'
<1> USE DEF Fetch, TypeInv, TypeOK, dbVars, history
<1>1. attemptsMade[p] + stalled[p] \in Runs /\ "load" \in WorkerPcs /\ 0 \in 0 .. MaxChunks
  BY IngestionAssumption DEF QueueInv, Runs, Attempts, MaxStalled, WorkerPcs
<1>2. Execution("load", p, attemptsMade[p] + stalled[p], 0, 0) \in Executions
  BY <1>1, ExecutionType
<1>3. /\ worker' \in [Nodes -> Executions]
      /\ owner' \in [Papers -> Nodes \union {NoNode}]
      /\ job' \in [Papers -> JobStates]
  BY <1>2 DEF JobStates
<1>4. TypeOK'
  BY <1>3
<1>5. QueueInv'
  BY DEF QueueInv
<1>6. WorkerInv'
  BY DEF WorkerInv, InLoop, At, Paper, Execution
<1> QED BY <1>4, <1>5, <1>6

LEMMA FinishTypeInv ==
    ASSUME TypeInv, NEW n \in Nodes, FinishJob(n) PROVE TypeInv'
<1> USE DEF FinishJob, TypeInv, dbVars, history
<1>1. Paper(n) \in Papers
  BY DEF WorkerInv, At
<1>2. worker' \in [Nodes -> Executions] /\ WorkerInv'
  BY <1>1, EndWorkerInv DEF TypeOK
<1>3. /\ owner' \in [Papers -> Nodes \union {NoNode}]
      /\ job' \in [Papers -> JobStates]
  BY <1>1 DEF TypeOK, JobStates
<1>4. TypeOK'
  BY <1>2, <1>3 DEF TypeOK
<1>5. QueueInv'
  BY <1>1, IngestionAssumption DEF QueueInv, TypeOK
<1> QED BY <1>2, <1>4, <1>5

LEMMA RejectTypeInv ==
    ASSUME TypeInv, NEW n \in Nodes, RejectJob(n) PROVE TypeInv'
<1> USE DEF RejectJob, TypeInv, dbVars, history
<1>1. Paper(n) \in Papers
  BY DEF WorkerInv, At
<1>2. worker' \in [Nodes -> Executions] /\ WorkerInv'
  BY <1>1, EndWorkerInv DEF TypeOK, AfterReject
<1>3. owner[Paper(n)] = n => Made(Paper(n)) \in 0 .. Attempts
  BY <1>1, IngestionAssumption DEF QueueInv, TypeOK, Made, Attempts
<1>4. /\ owner' \in [Papers -> Nodes \union {NoNode}]
      /\ attemptsMade' \in [Papers -> 0 .. Attempts]
      /\ job' \in [Papers -> JobStates]
  BY <1>1, <1>3 DEF TypeOK, JobStates, AfterReject
<1>5. TypeOK'
  BY <1>2, <1>4 DEF TypeOK
<1>6. QueueInv'
  BY <1>1, IngestionAssumption DEF QueueInv, TypeOK, AfterReject, Made
<1> QED BY <1>2, <1>5, <1>6

LEMMA CrashTypeInv ==
    ASSUME TypeInv, NEW n \in Nodes, Crash(n) PROVE TypeInv'
<1> USE DEF Crash, CutUploads, TypeInv, dbVars, queueVars, history
<1>1. worker' \in [Nodes -> Executions] /\ WorkerInv'
  BY EndWorkerInv
<1>2. TypeOK'
  BY <1>1 DEF TypeOK, UploadPcs
<1>3. QueueInv'
  BY DEF QueueInv, TypeOK, InFlight
<1> QED BY <1>1, <1>2, <1>3

LEMMA TypeInvStep == TypeInv /\ [Next]_vars => TypeInv'
<1> SUFFICES ASSUME TypeInv, [Next]_vars PROVE TypeInv'
  OBVIOUS
<1>1. CASE UNCHANGED vars
  BY <1>1 DEF vars, dbVars, queueVars, history, TypeInv, TypeOK, QueueInv, WorkerInv, InLoop,
              At, Paper
<1>2. ASSUME NEW p \in Papers, BackoffOver(p) PROVE TypeInv'
  BY <1>2 DEF BackoffOver, dbVars, queueVars, history, TypeInv, TypeOK, QueueInv, WorkerInv,
              InLoop, At, Paper, JobStates
<1>3. ASSUME NEW p \in Papers, StalledJob(p) \/ LockLost(p) PROVE TypeInv'
  BY <1>3, MoveStalledTypeInv DEF StalledJob, LockLost
<1>4. ASSUME NEW n \in Nodes, WorkerStep(n) PROVE TypeInv'
  BY <1>4, FetchTypeInv, ProcessTypeInv, FinishTypeInv, RejectTypeInv DEF WorkerStep
<1> QED BY <1>1, <1>2, <1>3, <1>4, UploadTypeInv, CrashTypeInv DEF Next, QueueStep

(* All variables have their types in every reachable state; in particular  *)
(* no job is executed more than Attempts + MaxStalled times (Runs).        *)
THEOREM TypeCorrect == Spec => []TypeOK
<1>1. TypeInv => TypeOK
  BY DEF TypeInv
<1> QED BY <1>1, InitTypeInv, TypeInvStep, PTL DEF Spec

-----------------------------------------------------------------------------
(* What a queued job can rely on. *)

(* The upload handler has done what comes before its program counter. *)
UploadInv ==
    \A p \in Papers :
        /\ upload[p].pc \in {"insert", "enqueue", "accepted"} => p \in storage
        /\ upload[p].pc = "enqueue" => status[p] # "none"

StorageInv == UploadInv /\ QueuedPaperExists

LEMMA StorageInvStep == TypeInv /\ StorageInv /\ [Next]_vars => StorageInv'
<1> SUFFICES ASSUME TypeInv, StorageInv, [Next]_vars PROVE StorageInv'
  OBVIOUS
<1> USE DEF StorageInv, UploadInv, QueuedPaperExists, dbVars, queueVars, history
<1>0. TypeOK
  BY DEF TypeInv
<1>1. ASSUME UNCHANGED <<storage, upload>>,
             \A p \in Papers : status[p] = "none" <=> status'[p] = "none",
             \A p \in Papers : job'[p] = "absent" <=> job[p] = "absent"
      PROVE  StorageInv'
  BY <1>1 DEF UploadAt
<1>2. CASE UNCHANGED vars
  BY <1>1, <1>2 DEF vars
<1>3. ASSUME NEW p \in Papers, UploadStep(p) PROVE StorageInv'
  <2> USE DEF TypeOK, UploadAt, UploadGoto, Took, InFlight
  <2>1. CASE StartUpload(p)
    BY <1>0, <2>1 DEF StartUpload
  <2>2. CASE UploadPdf(p)
    BY <1>0, <2>2 DEF UploadPdf
  <2>3. CASE InsertPaper(p)
    BY <1>0, <2>3 DEF InsertPaper
  <2>4. CASE Enqueue(p)
    BY <1>0, <2>4 DEF Enqueue
  <2> QED BY <1>3, <2>1, <2>2, <2>3, <2>4 DEF UploadStep
<1>4. ASSUME NEW p \in Papers, QueueStep(p) \/ LockLost(p) PROVE StorageInv'
  BY <1>0, <1>1, <1>4
  DEF QueueStep, BackoffOver, StalledJob, LockLost, MoveStalled, TypeOK
<1>5. ASSUME NEW n \in Nodes, Process(n) PROVE StorageInv'
  <2>1. UNCHANGED <<storage, upload, job>>
    BY <1>5 DEF Process, LoadPaper, DownloadPdf, ExtractChunks, ParseFallback, Embed,
                InsertChunk, UpsertReturns, MarkReady, MarkFailed
  <2>2. UNCHANGED status \/ \E s \in Settled : SetStatus(Paper(n), s)
    BY <1>5 DEF Process, LoadPaper, DownloadPdf, ExtractChunks, ParseFallback, Embed,
                InsertChunk, UpsertReturns, MarkReady, MarkFailed, Settled
  <2> QED BY <1>0, <1>1, <2>1, <2>2 DEF SetStatus, Settled, TypeOK
<1>6. ASSUME NEW n \in Nodes, NEW p \in Papers, Fetch(n, p) PROVE StorageInv'
  BY <1>0, <1>1, <1>6 DEF Fetch, TypeOK
<1>7. ASSUME NEW n \in Nodes, FinishJob(n) \/ RejectJob(n) PROVE StorageInv'
  <2>1. ~At(n, "idle") /\ Paper(n) \in Papers /\ job[Paper(n)] # "absent"
    BY <1>7 DEF FinishJob, RejectJob, At, TypeInv, WorkerInv
  <2>2. UNCHANGED <<storage, upload, status>>
    BY <1>7 DEF FinishJob, RejectJob
  <2>3. \A p \in Papers : job'[p] = "absent" <=> job[p] = "absent"
    BY <1>0, <1>7, <2>1 DEF FinishJob, RejectJob, AfterReject, TypeOK
  <2> QED BY <1>1, <2>2, <2>3
<1>8. ASSUME NEW n \in Nodes, Crash(n) PROVE StorageInv'
  BY <1>0, <1>8 DEF Crash, CutUploads, UploadAt, TypeOK
<1> QED BY <1>2, <1>3, <1>4, <1>5, <1>6, <1>7, <1>8 DEF Next, WorkerStep

-----------------------------------------------------------------------------
(* What a ready paper can rely on. *)

(* An execution has inserted the rows before its index, ... *)
RowsInv ==
    \A n \in Nodes : ~At(n, "idle") =>
        /\ \A i \in 0 .. worker[n].next - 1 :
               [run |-> worker[n].run, index |-> i] \in chunks[Paper(n)]
        /\ At(n, "upserted") =>
               [run |-> worker[n].run, count |-> worker[n].size] \in upserted[Paper(n)]

(* ... an execution that reported its count inserted them all, ... *)
UpsertedInv == \A p \in Papers : \A u \in upserted[p] : Stored(p, u)

(* ... and only such an execution makes a paper ready. *)
ReadyInv == \A p \in Papers : status[p] = "ready" => upserted[p] # {}

ChunksInv == RowsInv /\ UpsertedInv /\ ReadyInv

LEMMA ChunksInvReady == ChunksInv => ReadyImpliesComplete
BY DEF ChunksInv, UpsertedInv, ReadyInv, ReadyImpliesComplete

LEMMA ChunksInvStep == TypeInv /\ ChunksInv /\ [Next]_vars => ChunksInv'
<1> SUFFICES ASSUME TypeInv, ChunksInv, [Next]_vars PROVE ChunksInv'
  OBVIOUS
<1> USE DEF ChunksInv, dbVars, queueVars, history
<1>0. TypeOK
  BY DEF TypeInv
<1>1. ASSUME UNCHANGED <<chunks, upserted>>, ReadyInv',
             \A n \in Nodes : \/ worker'[n] = worker[n]
                              \/ worker'[n].pc = "idle"
                              \/ /\ worker'[n].next = 0
                                 /\ worker'[n].pc # "upserted"
                              \/ /\ worker[n].pc # "idle"
                                 /\ worker'[n].paper = worker[n].paper
                                 /\ worker'[n].next = worker[n].next
                                 /\ worker'[n].run = worker[n].run
                                 /\ worker'[n].pc # "upserted"
      PROVE  ChunksInv'
  <2>1. RowsInv'
    <3> SUFFICES ASSUME NEW n \in Nodes, worker'[n].pc # "idle"
                 PROVE  /\ \A i \in 0 .. worker'[n].next - 1 :
                              [run |-> worker'[n].run, index |-> i] \in chunks[worker'[n].paper]
                        /\ worker'[n].pc = "upserted" =>
                              [run |-> worker'[n].run, count |-> worker'[n].size]
                                 \in upserted[worker'[n].paper]
      BY <1>1 DEF RowsInv, At, Paper
    <3>1. CASE worker'[n] = worker[n]
      BY <3>1 DEF RowsInv, At, Paper
    <3>2. CASE worker'[n].next = 0 /\ worker'[n].pc # "upserted"
      BY <3>2
    <3>3. CASE /\ worker[n].pc # "idle"
               /\ worker'[n].paper = worker[n].paper /\ worker'[n].next = worker[n].next
               /\ worker'[n].run = worker[n].run /\ worker'[n].pc # "upserted"
      BY <3>3 DEF RowsInv, At, Paper
    <3> QED BY <1>1, <3>1, <3>2, <3>3
  <2>2. UpsertedInv'
    BY <1>1 DEF UpsertedInv, Stored
  <2> QED BY <1>1, <2>1, <2>2
<1>2. UNCHANGED <<status, upserted>> => ReadyInv'
  BY DEF ReadyInv
<1>3. CASE UNCHANGED vars
  BY <1>1, <1>2, <1>3 DEF vars
<1>4. ASSUME NEW p \in Papers, UploadStep(p) PROVE ChunksInv'
  <2>1. UNCHANGED <<chunks, upserted, worker>>
    BY <1>4 DEF UploadStep, StartUpload, UploadPdf, InsertPaper, Enqueue
  <2>2. ReadyInv'
    BY <1>0, <1>4 DEF UploadStep, StartUpload, UploadPdf, InsertPaper, Enqueue, ReadyInv, TypeOK
  <2> QED BY <1>1, <2>1, <2>2
<1>5. ASSUME NEW p \in Papers, QueueStep(p) \/ LockLost(p) PROVE ChunksInv'
  BY <1>1, <1>2, <1>5 DEF QueueStep, BackoffOver, StalledJob, LockLost, MoveStalled
<1>6. ASSUME NEW n \in Nodes, WorkerStep(n) \/ Crash(n), ~Process(n) PROVE ChunksInv'
  <2>1. UNCHANGED <<status, chunks, upserted>>
    BY <1>6 DEF WorkerStep, Fetch, FinishJob, RejectJob, Crash
  <2>2. \A m \in Nodes : \/ worker'[m] = worker[m]
                         \/ worker'[m].pc = "idle"
                         \/ worker'[m].next = 0 /\ worker'[m].pc # "upserted"
    BY <1>0, <1>6 DEF WorkerStep, Fetch, FinishJob, RejectJob, Crash, TypeOK, IdleWorker, Execution
  <2> QED BY <1>1, <1>2, <2>1, <2>2
<1>7. ASSUME NEW n \in Nodes, Process(n) PROVE ChunksInv'
  <2>0. /\ ~At(n, "idle") /\ Paper(n) \in Papers /\ worker[n] \in Executions
        /\ InLoop(worker[n]) /\ Paper(n) = worker[n].paper
    BY <1>7 DEF Process, LoadPaper, DownloadPdf, ExtractChunks, ParseFallback, Embed, InsertChunk,
                UpsertReturns, MarkReady, MarkFailed, At, Paper, TypeInv, TypeOK, WorkerInv
  <2>1. ASSUME NEW l \in WorkerPcs \ {"idle", "upserted"}, Goto(n, l),
               UNCHANGED <<chunks, upserted>>, ReadyInv'
        PROVE  ChunksInv'
    BY <1>0, <1>1, <2>0, <2>1, GotoEffect DEF Ending, At
  <2>2. ASSUME NEW k \in 0 .. MaxChunks, GotChunks(n, k), UNCHANGED <<status, chunks, upserted>>
        PROVE  ChunksInv'
    BY <1>0, <1>1, <1>2, <2>0, <2>2, GotChunksEffect
  <2>3. CASE LoadPaper(n) \/ DownloadPdf(n) \/ Embed(n)
    BY <1>2, <2>1, <2>3 DEF LoadPaper, DownloadPdf, Embed, WorkerPcs
  <2>4. CASE ExtractChunks(n) \/ ParseFallback(n)
    BY <1>2, <2>1, <2>2, <2>4, IngestionAssumption DEF ExtractChunks, ParseFallback, WorkerPcs
  <2>5. CASE InsertChunk(n)
    <3>1. \A p \in Papers : chunks[p] \subseteq chunks'[p]
      BY <1>0, <2>0, <2>5 DEF InsertChunk, TypeOK
    <3>2. UpsertedInv' /\ ReadyInv'
      BY <1>2, <2>5, <3>1 DEF InsertChunk, UpsertedInv, Stored
    <3>3. ASSUME NEW m \in Nodes \ {n} PROVE worker'[m] = worker[m]
      BY <1>0, <2>0, <2>5, <3>3, GotoEffect, NextChunkEffect DEF InsertChunk, InLoop, At, WorkerPcs
    <3>4. CASE NextChunk(n, worker[n].next) /\ Row(n) \in chunks'[Paper(n)]
      <4>1. worker[n].next < worker[n].size
        BY <2>0, <2>5 DEF InsertChunk, InLoop, At
      <4>2. /\ worker'[n].pc = "embed" /\ worker'[n].paper = worker[n].paper
            /\ worker'[n].run = worker[n].run /\ worker'[n].next = worker[n].next + 1
        BY <1>0, <3>4, <4>1, NextChunkEffect
      <4>3. ASSUME NEW i \in 0 .. worker'[n].next - 1
            PROVE  [run |-> worker'[n].run, index |-> i] \in chunks'[worker'[n].paper]
        <5>1. CASE i = worker[n].next
          BY <2>0, <3>4, <4>2, <5>1 DEF Row
        <5>2. CASE i # worker[n].next
          <6>1. i \in 0 .. worker[n].next - 1
            BY <2>0, <4>2, <5>2 DEF Executions
          <6> QED BY <2>0, <3>1, <4>2, <6>1 DEF RowsInv
        <5> QED BY <5>1, <5>2
      <4>4. RowsInv'
        BY <1>0, <2>5, <3>1, <3>3, <4>2, <4>3 DEF RowsInv, InsertChunk, At, Paper, TypeInv, WorkerInv
      <4> QED BY <3>2, <4>4
    <3>5. CASE Goto(n, "fail")
      <4>1. worker'[n].pc = "fail" /\ worker'[n].next = 0
        BY <1>0, <3>5, GotoEffect DEF Ending, WorkerPcs
      <4>2. RowsInv'
        BY <1>0, <2>5, <3>1, <3>3, <4>1 DEF RowsInv, InsertChunk, At, Paper, TypeInv, WorkerInv
      <4> QED BY <3>2, <4>2
    <3>6. Row(n) \in chunks'[Paper(n)] \/ Goto(n, "fail")
      BY <1>0, <2>0, <2>5 DEF InsertChunk, TypeOK, Took
    <3> QED BY <2>5, <3>4, <3>5, <3>6 DEF InsertChunk
  <2>6. CASE UpsertReturns(n)
    <3> DEFINE u == [run |-> worker[n].run, count |-> worker[n].size]
    <3>1. /\ \A p \in Papers : upserted'[p] = IF p = Paper(n) THEN upserted[p] \union {u}
                                                             ELSE upserted[p]
          /\ UNCHANGED <<status, chunks>>
          /\ worker[n].next = worker[n].size
      BY <1>0, <2>0, <2>6 DEF UpsertReturns, TypeOK
    <3>2. Stored(Paper(n), u)
      BY <2>0, <3>1 DEF Stored, RowsInv
    <3>3. UpsertedInv' /\ ReadyInv'
      BY <2>0, <3>1, <3>2 DEF UpsertedInv, ReadyInv, Stored
    <3>4. /\ worker'[n].paper = worker[n].paper /\ worker'[n].run = worker[n].run
          /\ worker'[n].size = worker[n].size /\ worker'[n].next = worker[n].next
          /\ \A m \in Nodes \ {n} : worker'[m] = worker[m]
      BY <1>0, <2>6, GotoEffect DEF UpsertReturns, Ending, WorkerPcs
    <3>5. \A p \in Papers : upserted[p] \subseteq upserted'[p]
      BY <3>1
    <3>6. u \in upserted'[Paper(n)]
      BY <2>0, <3>1
    <3>7. RowsInv'
      <4> SUFFICES ASSUME NEW m \in Nodes, worker'[m].pc # "idle"
                   PROVE  /\ \A i \in 0 .. worker'[m].next - 1 :
                                [run |-> worker'[m].run, index |-> i] \in chunks[worker'[m].paper]
                          /\ worker'[m].pc = "upserted" =>
                                [run |-> worker'[m].run, count |-> worker'[m].size]
                                   \in upserted'[worker'[m].paper]
        BY <3>1 DEF RowsInv, At, Paper
      <4>1. CASE m = n
        BY <2>0, <3>4, <3>6, <4>1 DEF RowsInv, At
      <4>2. CASE m # n
        <5>1. worker'[m] = worker[m] /\ worker[m].paper \in Papers
          BY <3>4, <4>2 DEF TypeInv, WorkerInv, At, Paper
        <5> QED BY <3>5, <5>1 DEF RowsInv, At, Paper
      <4> QED BY <4>1, <4>2
    <3> QED BY <3>3, <3>7
  <2>7. CASE MarkReady(n)
    <3>1. upserted[Paper(n)] # {}
      BY <2>0, <2>7 DEF MarkReady, RowsInv
    <3>2. ReadyInv'
      BY <1>0, <2>7, <3>1 DEF MarkReady, SetStatus, ReadyInv, TypeOK
    <3> QED BY <2>1, <2>7, <3>2 DEF MarkReady, WorkerPcs
  <2>8. CASE MarkFailed(n)
    <3>1. ReadyInv'
      BY <1>0, <2>8 DEF MarkFailed, SetStatus, ReadyInv, TypeOK
    <3> QED BY <2>1, <2>8, <3>1 DEF MarkFailed, AfterCatch, WorkerPcs
  <2> QED BY <1>7, <2>3, <2>4, <2>5, <2>6, <2>7, <2>8 DEF Process
<1> QED BY <1>3, <1>4, <1>5, <1>6, <1>7 DEF Next

-----------------------------------------------------------------------------
(* Who executes what.  The effects of a step of process() on the variables *)
(* that the invariants below speak of:                                     *)

LEMMA ProcessEffect ==
    ASSUME TypeInv, NEW n \in Nodes, Process(n)
    PROVE  /\ ~At(n, "idle") /\ Paper(n) \in Papers
           /\ UNCHANGED <<storage, queueVars, upload>>
           /\ worker'[n].pc # "idle" /\ worker'[n].paper = worker[n].paper
           /\ \A m \in Nodes \ {n} : worker'[m] = worker[m]
           /\ \/ UNCHANGED status /\ worker'[n].pc # "return"
              \/ \E s \in Settled : SetStatus(Paper(n), s)
           /\ worker[n].pc # "return"
<1>0. TypeOK
  BY DEF TypeInv
<1>1. ~At(n, "idle") /\ Paper(n) \in Papers /\ worker[n].pc # "return" /\ InLoop(worker[n])
  BY DEF Process, LoadPaper, DownloadPdf, ExtractChunks, ParseFallback, Embed, InsertChunk,
         UpsertReturns, MarkReady, MarkFailed, At, Paper, TypeInv, WorkerInv
<1>2. UNCHANGED <<storage, queueVars, upload>>
  BY DEF Process, LoadPaper, DownloadPdf, ExtractChunks, ParseFallback, Embed, InsertChunk,
         UpsertReturns, MarkReady, MarkFailed, dbVars, queueVars
<1>3. \/ \E l \in WorkerPcs \ {"idle"} : Goto(n, l)
      \/ \E k \in 0 .. MaxChunks : GotChunks(n, k)
      \/ NextChunk(n, worker[n].next) /\ worker[n].next < worker[n].size
  BY <1>1, IngestionAssumption
  DEF Process, LoadPaper, DownloadPdf, ExtractChunks, ParseFallback, Embed, InsertChunk,
      UpsertReturns, MarkReady, MarkFailed, AfterCatch, WorkerPcs, InLoop, At
<1>4. /\ worker'[n].pc # "idle" /\ worker'[n].paper = worker[n].paper
      /\ \A m \in Nodes \ {n} : worker'[m] = worker[m]
  BY <1>0, <1>3, GotoEffect, GotChunksEffect, NextChunkEffect
<1>5. \/ UNCHANGED status /\ worker'[n].pc # "return"
      \/ \E s \in Settled : SetStatus(Paper(n), s)
  <2>1. \/ \E s \in Settled : SetStatus(Paper(n), s)
        \/ /\ UNCHANGED status
           /\ \/ \E l \in WorkerPcs \ {"idle", "return"} : Goto(n, l)
              \/ \E k \in 0 .. MaxChunks : GotChunks(n, k)
              \/ NextChunk(n, worker[n].next) /\ worker[n].next < worker[n].size
    BY <1>1, IngestionAssumption
    DEF Process, LoadPaper, DownloadPdf, ExtractChunks, ParseFallback, Embed, InsertChunk,
        UpsertReturns, MarkReady, MarkFailed, AfterCatch, WorkerPcs, InLoop, At, dbVars, Settled,
        Took
  <2> QED BY <1>0, <2>1, GotoEffect, GotChunksEffect, NextChunkEffect
<1> QED BY <1>1, <1>2, <1>4, <1>5

(* An execution that returned has written an outcome. *)
SettledInv == /\ CompletedJobSettled
              /\ \A n \in Nodes : At(n, "return") => status[Paper(n)] \in Settled

LEMMA SettledInvStep == TypeInv /\ StorageInv /\ SettledInv /\ [Next]_vars => SettledInv'
<1> SUFFICES ASSUME TypeInv, StorageInv, SettledInv, [Next]_vars PROVE SettledInv'
  OBVIOUS
<1> USE DEF SettledInv, CompletedJobSettled
<1>0. TypeOK
  BY DEF TypeInv
<1>1. ASSUME \A p \in Papers : status[p] \in Settled => status'[p] \in Settled,
             \A p \in Papers : job'[p] = "completed" => job[p] = "completed",
             \A n \in Nodes : worker'[n] = worker[n] \/ worker'[n].pc \in {"idle", "load"}
      PROVE  SettledInv'
  BY <1>1 DEF At, Paper, TypeInv, WorkerInv
<1>2. CASE UNCHANGED vars
  BY <1>1, <1>2 DEF vars, dbVars, queueVars
<1>3. ASSUME NEW p \in Papers, UploadStep(p) PROVE SettledInv'
  <2>1. CASE InsertPaper(p)
    <3>1. job[p] = "absent" /\ UNCHANGED <<job, worker>>
      BY <2>1 DEF InsertPaper, UploadAt, InFlight, TypeInv, QueueInv, queueVars
    <3>2. \A q \in Papers \ {p} : status'[q] = status[q]
      BY <1>0, <2>1 DEF InsertPaper, TypeOK
    <3>3. \A n \in Nodes : ~At(n, "idle") => Paper(n) \in Papers \ {p}
      BY <3>1 DEF TypeInv, WorkerInv
    <3> QED BY <3>1, <3>2, <3>3 DEF At, Paper
  <2>2. CASE ~InsertPaper(p)
    BY <1>0, <1>1, <1>3, <2>2
    DEF UploadStep, StartUpload, UploadPdf, Enqueue, dbVars, queueVars, TypeOK
  <2> QED BY <2>1, <2>2
<1>4. ASSUME NEW p \in Papers, QueueStep(p) \/ LockLost(p) PROVE SettledInv'
  BY <1>0, <1>1, <1>4
  DEF QueueStep, BackoffOver, StalledJob, LockLost, MoveStalled, dbVars, TypeOK
<1>5. ASSUME NEW n \in Nodes, Process(n) PROVE SettledInv'
  <2>1. /\ Paper(n) \in Papers /\ UNCHANGED job
        /\ worker'[n].paper = worker[n].paper
        /\ \A m \in Nodes \ {n} : worker'[m] = worker[m]
        /\ \/ UNCHANGED status /\ worker'[n].pc # "return"
           \/ \E s \in Settled : SetStatus(Paper(n), s)
    BY <1>5, ProcessEffect DEF queueVars
  <2>2. status[Paper(n)] # "none"
    BY <1>5, ProcessEffect DEF TypeInv, WorkerInv, StorageInv, QueuedPaperExists
  <2>3. \A p \in Papers : status[p] \in Settled => status'[p] \in Settled
    BY <1>0, <2>1 DEF SetStatus, TypeOK, Settled
  <2>4. worker'[n].pc = "return" => status'[Paper(n)] \in Settled
    BY <1>0, <2>1, <2>2 DEF SetStatus, TypeOK
  <2>5. \A m \in Nodes : At(m, "return") => Paper(m) \in Papers
    BY DEF TypeInv, WorkerInv, At
  <2> QED BY <2>1, <2>3, <2>4, <2>5 DEF At, Paper
<1>6. ASSUME NEW n \in Nodes, NEW p \in Papers, Fetch(n, p) PROVE SettledInv'
  BY <1>0, <1>1, <1>6 DEF Fetch, Execution, dbVars, TypeOK
<1>7. ASSUME NEW n \in Nodes, FinishJob(n) PROVE SettledInv'
  <2>1. \A m \in Nodes : worker'[m] = worker[m] \/ worker'[m].pc = "idle"
    BY <1>0, <1>7 DEF FinishJob, IdleWorker, Execution, TypeOK
  <2>2. \A p \in Papers : job'[p] = "completed" => job[p] = "completed" \/ p = Paper(n)
    BY <1>0, <1>7 DEF FinishJob, TypeOK
  <2>3. status' = status /\ status[Paper(n)] \in Settled
    BY <1>7 DEF FinishJob, dbVars
  <2> QED BY <2>1, <2>2, <2>3 DEF At, Paper
<1>8. ASSUME NEW n \in Nodes, RejectJob(n) PROVE SettledInv'
  BY <1>0, <1>1, <1>8 DEF RejectJob, AfterReject, IdleWorker, Execution, dbVars, TypeOK
<1>9. ASSUME NEW n \in Nodes, Crash(n) PROVE SettledInv'
  BY <1>0, <1>1, <1>9 DEF Crash, IdleWorker, Execution, dbVars, queueVars, TypeOK
<1> QED BY <1>2, <1>3, <1>4, <1>5, <1>6, <1>7, <1>8, <1>9 DEF Next, WorkerStep

(* While Redis keeps the locks, an execution holds the lock of its job. *)
LockInv == "redis" \notin Faults => \A n \in Nodes : ~At(n, "idle") => owner[Paper(n)] = n

LEMMA LockInvStep == TypeInv /\ LockInv /\ [Next]_vars => LockInv'
<1> SUFFICES ASSUME TypeInv, LockInv, [Next]_vars, "redis" \notin Faults
             PROVE  \A n \in Nodes : worker'[n].pc # "idle" => owner'[worker'[n].paper] = n
  BY DEF LockInv, At, Paper
<1>0. /\ TypeOK
      /\ \A n \in Nodes : worker[n].pc # "idle" => /\ worker[n].paper \in Papers
                                                   /\ owner[worker[n].paper] = n
  BY DEF TypeInv, WorkerInv, LockInv, At, Paper
<1>1. CASE UNCHANGED <<worker, owner>>
  BY <1>0, <1>1
<1>2. ASSUME NEW p \in Papers, UploadStep(p) \/ BackoffOver(p)
      PROVE  UNCHANGED <<worker, owner>>
  BY <1>2 DEF UploadStep, StartUpload, UploadPdf, InsertPaper, Enqueue, BackoffOver, queueVars
<1>3. CASE \E p \in Papers : StalledJob(p)
  <2>1. PICK p \in Papers : StalledJob(p)
    BY <1>3
  <2>2. UNCHANGED worker /\ \A q \in Papers \ {p} : owner'[q] = owner[q]
    BY <1>0, <2>1 DEF StalledJob, MoveStalled, TypeOK
  <2>3. \A n \in Nodes : worker[n].pc # "idle" => worker[n].paper # p
    BY <1>0, <2>1 DEF StalledJob, Holds
  <2> QED BY <1>0, <2>2, <2>3
<1>4. ASSUME NEW n \in Nodes, Process(n)
      PROVE  \A m \in Nodes : worker'[m].pc # "idle" => owner'[worker'[m].paper] = m
  BY <1>0, <1>4, ProcessEffect DEF queueVars, At
<1>5. ASSUME NEW n \in Nodes, NEW p \in Papers, Fetch(n, p)
      PROVE  \A m \in Nodes : worker'[m].pc # "idle" => owner'[worker'[m].paper] = m
  <2>1. owner[p] = NoNode
    BY <1>5 DEF Fetch, TypeInv, QueueInv
  <2>2. \A m \in Nodes : worker[m].pc # "idle" => worker[m].paper # p
    BY <1>0, <2>1, IngestionAssumption
  <2> QED BY <1>0, <1>5, <2>2 DEF Fetch, Execution, TypeOK
<1>6. ASSUME NEW n \in Nodes, FinishJob(n) \/ RejectJob(n)
      PROVE  \A m \in Nodes : worker'[m].pc # "idle" => owner'[worker'[m].paper] = m
  <2>1. /\ worker' = [worker EXCEPT ![n] = IdleWorker]
        /\ owner' = owner \/ owner' = [owner EXCEPT ![worker[n].paper] = NoNode]
        /\ worker[n].pc # "idle"
    BY <1>6 DEF FinishJob, RejectJob, Paper, At
  <2>2. \A m \in Nodes \ {n} : worker[m].pc # "idle" => worker[m].paper # worker[n].paper
    BY <1>0, <2>1
  <2> QED BY <1>0, <2>1, <2>2 DEF IdleWorker, Execution, TypeOK
<1>7. ASSUME NEW n \in Nodes, Crash(n)
      PROVE  \A m \in Nodes : worker'[m].pc # "idle" => owner'[worker'[m].paper] = m
  BY <1>0, <1>7 DEF Crash, IdleWorker, Execution, queueVars, TypeOK
<1>8. CASE UNCHANGED vars
  BY <1>1, <1>8 DEF vars, queueVars
<1> QED BY <1>1, <1>2, <1>3, <1>4, <1>5, <1>6, <1>7, <1>8
        DEF Next, WorkerStep, QueueStep, LockLost

-----------------------------------------------------------------------------
(* Without faults every paper is executed once, and is "processing" until  *)
(* that execution writes its outcome.                                      *)

FreshInv == \A p \in Papers : upload[p].pc \in {"idle", "store", "insert"} => status[p] = "none"

OnceInv ==
    Faults = {} =>
        /\ \A p \in Papers :
             /\ upload[p].pc = "enqueue" \/ job[p] = "waiting" => status[p] = "processing"
             /\ job[p] # "delayed"
             /\ job[p] = "active" => \E n \in Nodes : Holds(n, p)
        /\ \A n \in Nodes :
             ~At(n, "idle") => /\ ~At(n, "throw")
                               /\ ~At(n, "return") => status[Paper(n)] = "processing"

LEMMA FreshInvStep == TypeInv /\ FreshInv /\ [Next]_vars => FreshInv'
<1> SUFFICES ASSUME TypeInv, FreshInv, [Next]_vars PROVE FreshInv'
  OBVIOUS
<1> USE DEF FreshInv, dbVars, queueVars
<1>0. TypeOK
  BY DEF TypeInv
<1>1. CASE UNCHANGED vars
  BY <1>1 DEF vars
<1>2. ASSUME NEW p \in Papers, UploadStep(p) PROVE FreshInv'
  <2> USE <1>0 DEF UploadAt, UploadGoto, TypeOK
  <2>1. CASE StartUpload(p)
    BY <2>1 DEF StartUpload
  <2>2. CASE UploadPdf(p)
    BY <2>2 DEF UploadPdf
  <2>3. CASE InsertPaper(p)
    BY <2>3 DEF InsertPaper
  <2>4. CASE Enqueue(p)
    BY <2>4 DEF Enqueue
  <2> QED BY <1>2, <2>1, <2>2, <2>3, <2>4 DEF UploadStep
<1>3. ASSUME NEW p \in Papers, QueueStep(p) \/ LockLost(p) PROVE FreshInv'
  BY <1>3 DEF QueueStep, BackoffOver, StalledJob, LockLost, MoveStalled
<1>4. ASSUME NEW n \in Nodes, Process(n) PROVE FreshInv'
  <2>1. UNCHANGED upload /\ \A p \in Papers : status[p] = "none" => status'[p] = "none"
    BY <1>0, <1>4, ProcessEffect DEF SetStatus, TypeOK
  <2> QED BY <2>1
<1>5. ASSUME NEW n \in Nodes, WorkerStep(n), ~Process(n) PROVE FreshInv'
  BY <1>5 DEF WorkerStep, Fetch, FinishJob, RejectJob
<1>6. ASSUME NEW n \in Nodes, Crash(n) PROVE FreshInv'
  BY <1>0, <1>6 DEF Crash, CutUploads, TypeOK
<1> QED BY <1>1, <1>2, <1>3, <1>4, <1>5, <1>6 DEF Next

LEMMA OnceInvStep ==
    TypeInv /\ LockInv /\ FreshInv /\ OnceInv /\ [Next]_vars => OnceInv'
<1> SUFFICES ASSUME TypeInv, LockInv, FreshInv, OnceInv, [Next]_vars, Faults = {}
             PROVE  OnceInv'
  BY DEF OnceInv
<1> USE DEF dbVars, queueVars
<1>0. /\ TypeOK /\ "crash" \notin Faults /\ "redis" \notin Faults
      /\ \A n \in Nodes : worker[n].pc # "idle" => /\ worker[n].paper \in Papers
                                                   /\ owner[worker[n].paper] = n
                                                   /\ job[worker[n].paper] = "active"
  BY IngestionAssumption DEF TypeInv, TypeOK, WorkerInv, LockInv, QueueInv, At, Paper
<1>1. CASE UNCHANGED vars
  BY <1>1 DEF vars, OnceInv, Holds, At, Paper
<1>2. ASSUME NEW p \in Papers, UploadStep(p) PROVE OnceInv'
  <2>1. UNCHANGED <<worker, owner>> /\ \A q \in Papers \ {p} : job'[q] = job[q] /\ status'[q] = status[q]
                                                             /\ upload'[q] = upload[q]
    BY <1>0, <1>2 DEF UploadStep, StartUpload, UploadPdf, InsertPaper, Enqueue, UploadGoto, TypeOK
  <2>2. job[p] = "absent" /\ job'[p] \in {"absent", "waiting"}
    BY <1>0, <1>2 DEF UploadStep, StartUpload, UploadPdf, InsertPaper, Enqueue, UploadAt, TypeOK,
                      InFlight, TypeInv, QueueInv
  <2>3. upload'[p].pc = "enqueue" \/ job'[p] = "waiting" => status'[p] = "processing"
    BY <1>0, <1>2, <2>2 DEF UploadStep, StartUpload, UploadPdf, InsertPaper, Enqueue, UploadAt,
                            UploadGoto, Took, TypeOK, OnceInv
  <2>4. \A n \in Nodes : worker[n].pc # "idle" => worker[n].paper # p
    BY <1>0, <2>2
  <2> QED BY <1>0, <2>1, <2>2, <2>3, <2>4 DEF OnceInv, Holds, At, Paper
<1>3. ASSUME NEW p \in Papers, QueueStep(p) \/ LockLost(p) PROVE FALSE
  BY <1>0, <1>3 DEF QueueStep, BackoffOver, StalledJob, LockLost, MoveStalled, OnceInv
<1>4. ASSUME NEW n \in Nodes, Process(n) PROVE OnceInv'
  <2> DEFINE q == worker[n].paper
  <2>1. /\ worker[n].pc \notin {"idle", "return"} /\ q \in Papers /\ job[q] = "active"
        /\ UNCHANGED <<job, owner, upload>>
        /\ worker'[n].pc # "idle" /\ worker'[n].paper = q
        /\ \A m \in Nodes \ {n} : worker'[m] = worker[m]
    BY <1>0, <1>4, ProcessEffect DEF At, Paper
  <2>2. \A p \in Papers \ {q} : status'[p] = status[p]
    BY <1>0, <1>4, ProcessEffect DEF SetStatus, Paper, TypeOK
  <2>3. \A m \in Nodes \ {n} : worker[m].pc # "idle" => worker[m].paper # q
    BY <1>0, <2>1
  <2>4. upload[q].pc # "enqueue"
    BY <2>1 DEF TypeInv, QueueInv, InFlight
  <2>5. worker'[n].pc # "throw" /\ (worker'[n].pc # "return" => status'[q] = "processing")
    <3>1. status[q] = "processing"
      BY <2>1 DEF OnceInv, At, Paper
    <3>2. CASE status' = status
      <4>1. \/ \E l \in WorkerPcs \ {"throw"} : Goto(n, l)
            \/ \E k \in 0 .. MaxChunks : GotChunks(n, k)
            \/ NextChunk(n, worker[n].next) /\ worker[n].next < worker[n].size
        BY <1>0, <1>4, IngestionAssumption
        DEF Process, LoadPaper, DownloadPdf, ExtractChunks, ParseFallback, Embed, InsertChunk,
            UpsertReturns, MarkReady, MarkFailed, AfterCatch, WorkerPcs, InLoop, At, TypeInv,
            WorkerInv, Replies
      <4>2. worker'[n].pc # "throw"
        BY <1>0, <4>1, GotoEffect, GotChunksEffect, NextChunkEffect
      <4> QED BY <3>1, <3>2, <4>2
    <3>3. CASE status' # status
      <4>1. MarkReady(n) \/ MarkFailed(n)
        BY <1>4, <3>3 DEF Process, LoadPaper, DownloadPdf, ExtractChunks, ParseFallback, Embed,
                          InsertChunk, UpsertReturns
      <4>2. Goto(n, "return")
        BY <1>0, <4>1 DEF MarkReady, MarkFailed, AfterCatch, Replies
      <4> QED BY <1>0, <4>2, GotoEffect DEF WorkerPcs
    <3> QED BY <3>2, <3>3
  <2> QED BY <2>1, <2>2, <2>3, <2>4, <2>5, <1>0 DEF OnceInv, Holds, At, Paper, TypeInv, WorkerInv
<1>5. ASSUME NEW n \in Nodes, NEW p \in Papers, Fetch(n, p) PROVE OnceInv'
  <2>1. status[p] = "processing" /\ worker[n].pc = "idle" /\ UNCHANGED <<status, upload>>
    BY <1>5 DEF Fetch, OnceInv, At
  <2>2. /\ worker'[n].pc = "load" /\ worker'[n].paper = p
        /\ \A m \in Nodes \ {n} : worker'[m] = worker[m]
        /\ owner'[p] = n /\ \A r \in Papers \ {p} : owner'[r] = owner[r]
        /\ job'[p] = "active" /\ \A r \in Papers \ {p} : job'[r] = job[r]
    BY <1>0, <1>5 DEF Fetch, Execution, TypeOK
  <2> QED BY <1>0, <2>1, <2>2 DEF OnceInv, Holds, At, Paper
<1>6. ASSUME NEW n \in Nodes, FinishJob(n) PROVE OnceInv'
  <2> DEFINE q == worker[n].paper
  <2>1. q \in Papers /\ owner[q] = n /\ UNCHANGED <<status, upload>>
    BY <1>0, <1>6 DEF FinishJob, At
  <2>2. /\ worker'[n].pc = "idle" /\ \A m \in Nodes \ {n} : worker'[m] = worker[m]
        /\ \A r \in Papers \ {q} : owner'[r] = owner[r] /\ job'[r] = job[r]
        /\ job'[q] = "completed"
    BY <1>0, <1>6, <2>1 DEF FinishJob, IdleWorker, Execution, TypeOK, Took, Paper, Replies
  <2> QED BY <1>0, <2>1, <2>2 DEF OnceInv, Holds, At, Paper
<1>7. ASSUME NEW n \in Nodes, RejectJob(n) \/ Crash(n) PROVE FALSE
  BY <1>0, <1>7 DEF RejectJob, Crash, OnceInv, At
<1> QED BY <1>1, <1>2, <1>3, <1>4, <1>5, <1>6, <1>7 DEF Next, WorkerStep

-----------------------------------------------------------------------------
(* What a websocket event stands for: a status in the table and the count  *)
(* of one execution.                                                       *)
PushInv ==
    \A p \in Papers : \A e \in pushed[p] :
        /\ status[p] \in Settled
        /\ e.status = "ready" => \E u \in upserted[p] : u.count = e.chunk_count

(* The rows 0 .. k - 1 of execution r, and how many they are. *)
Rows(r, k) == {[run |-> r, index |-> i] : i \in 0 .. k - 1}

LEMMA RowsCount ==
    ASSUME NEW r, NEW k \in Nat
    PROVE  IsFiniteSet(Rows(r, k)) /\ Cardinality(Rows(r, k)) = k
<1> DEFINE f == [i \in 0 .. k - 1 |-> [run |-> r, index |-> i]]
<1>1. f \in Bijection(0 .. k - 1, Rows(r, k))
  <2>1. f \in [0 .. k - 1 -> Rows(r, k)]
    BY DEF Rows
  <2>2. ASSUME NEW i \in 0 .. k - 1, NEW j \in 0 .. k - 1, f[i] = f[j] PROVE i = j
    <3>1. f[i].index = i /\ f[j].index = j
      OBVIOUS
    <3> QED BY <2>2, <3>1
  <2>3. \A c \in Rows(r, k) : \E i \in 0 .. k - 1 : f[i] = c
    BY DEF Rows
  <2> HIDE DEF f
  <2> QED BY <2>1, <2>2, <2>3 DEF Bijection, Injection, Surjection, IsInjective
<1>2. IsFiniteSet(0 .. k - 1) /\ Cardinality(0 .. k - 1) = k
  BY FS_Interval
<1> HIDE DEF f
<1>3. ExistsBijection(0 .. k - 1, Rows(r, k))
  BY <1>1 DEF ExistsBijection
<1> QED BY <1>2, <1>3, FS_Bijection

LEMMA RowsGrow ==
    ASSUME NEW r, NEW k \in Nat
    PROVE  Rows(r, k) \union {[run |-> r, index |-> k]} = Rows(r, k + 1)
<1>1. ASSUME NEW c \in Rows(r, k + 1)
      PROVE  c \in Rows(r, k) \union {[run |-> r, index |-> k]}
  <2>1. PICK i \in 0 .. (k + 1) - 1 : c = [run |-> r, index |-> i]
    BY DEF Rows
  <2>2. i = k \/ i \in 0 .. k - 1
    OBVIOUS
  <2> QED BY <2>1, <2>2 DEF Rows
<1>2. ASSUME NEW c \in Rows(r, k) PROVE c \in Rows(r, k + 1)
  <2>1. PICK i \in 0 .. k - 1 : c = [run |-> r, index |-> i]
    BY DEF Rows
  <2>2. i \in 0 .. (k + 1) - 1
    OBVIOUS
  <2> QED BY <2>1, <2>2 DEF Rows
<1>3. [run |-> r, index |-> k] \in Rows(r, k + 1)
  <2>1. k \in 0 .. (k + 1) - 1
    OBVIOUS
  <2> QED BY <2>1 DEF Rows
<1> QED BY <1>1, <1>2, <1>3

LEMMA PushInvBacked == ChunksInv /\ PushInv => PushIsBackedByRows
BY DEF ChunksInv, UpsertedInv, PushInv, PushIsBackedByRows

LEMMA PushInvStep ==
    TypeInv /\ StorageInv /\ ChunksInv /\ FreshInv /\ PushInv /\ [Next]_vars => PushInv'
<1> SUFFICES ASSUME TypeInv, StorageInv, ChunksInv, FreshInv, PushInv, [Next]_vars PROVE PushInv'
  OBVIOUS
<1> USE DEF dbVars, queueVars, history
<1>0. TypeOK
  BY DEF TypeInv
<1>1. ASSUME UNCHANGED pushed, \A p \in Papers : status[p] \in Settled => status'[p] \in Settled,
             \A p \in Papers : upserted[p] \subseteq upserted'[p]
      PROVE  PushInv'
  BY <1>1 DEF PushInv
<1>2. CASE UNCHANGED vars
  BY <1>1, <1>2 DEF vars
<1>3. ASSUME NEW p \in Papers, UploadStep(p) PROVE PushInv'
  <2>1. UNCHANGED <<pushed, upserted>>
    BY <1>3 DEF UploadStep, StartUpload, UploadPdf, InsertPaper, Enqueue
  <2>2. \A q \in Papers : status[q] \in Settled => status'[q] \in Settled
    BY <1>0, <1>3 DEF UploadStep, StartUpload, UploadPdf, InsertPaper, Enqueue, UploadAt, FreshInv,
                      Settled, TypeOK
  <2> QED BY <1>1, <2>1, <2>2
<1>4. ASSUME NEW p \in Papers, QueueStep(p) \/ LockLost(p) PROVE PushInv'
  BY <1>1, <1>4 DEF QueueStep, BackoffOver, StalledJob, LockLost, MoveStalled
<1>5. ASSUME NEW n \in Nodes, WorkerStep(n) \/ Crash(n), ~Process(n) PROVE PushInv'
  BY <1>1, <1>5 DEF WorkerStep, Fetch, FinishJob, RejectJob, Crash
<1>6. ASSUME NEW n \in Nodes, Process(n) PROVE PushInv'
  <2> DEFINE q == Paper(n)
  <2>1. q \in Papers /\ status[q] # "none" /\ ~At(n, "idle")
    BY <1>6, ProcessEffect DEF TypeInv, WorkerInv, StorageInv, QueuedPaperExists
  <2>2. \A p \in Papers : status[p] \in Settled => status'[p] \in Settled
    BY <1>0, <1>6, ProcessEffect DEF SetStatus, Settled, TypeOK
  <2>3. \A p \in Papers : upserted[p] \subseteq upserted'[p]
    BY <1>0, <1>6 DEF Process, LoadPaper, DownloadPdf, ExtractChunks, ParseFallback, Embed,
                      InsertChunk, UpsertReturns, MarkReady, MarkFailed, TypeOK
  <2>4. CASE UNCHANGED pushed
    BY <1>1, <2>2, <2>3, <2>4
  <2>5. CASE ~UNCHANGED pushed
    <3>1. PICK s \in Settled : SetStatus(q, s)
      BY <1>6, <2>5 DEF Process, LoadPaper, DownloadPdf, ExtractChunks, ParseFallback, Embed,
                        InsertChunk, UpsertReturns, MarkReady, MarkFailed, Settled, Took
    <3>2. status'[q] \in Settled
      BY <1>0, <2>1, <3>1 DEF SetStatus, TypeOK
    <3>3. PICK e : /\ pushed' = [pushed EXCEPT ![q] = @ \union {e}]
                   /\ e.status = "ready" => \E u \in upserted[q] : u.count = e.chunk_count
      <4>1. CASE MarkReady(n)
        <5>1. pushed' = [pushed EXCEPT ![q] =
                            @ \union {[status |-> "ready", chunk_count |-> worker[n].size]}]
          BY <2>5, <4>1 DEF MarkReady, Push
        <5>2. [run |-> worker[n].run, count |-> worker[n].size] \in upserted[q]
          BY <2>1, <4>1 DEF MarkReady, ChunksInv, RowsInv
        <5> DEFINE e == [status |-> "ready", chunk_count |-> worker[n].size]
        <5>3. pushed' = [pushed EXCEPT ![q] = @ \union {e}]
          BY <5>1
        <5>4. \E u \in upserted[q] : u.count = e.chunk_count
          BY <5>2
        <5> HIDE DEF e, q
        <5> QED BY <5>3, <5>4
      <4>2. CASE MarkFailed(n)
        <5>1. pushed' = [pushed EXCEPT ![q] = @ \union {[status |-> "failed", chunk_count |-> 0]}]
          BY <2>5, <4>2 DEF MarkFailed, Push
        <5> DEFINE e == [status |-> "failed", chunk_count |-> 0]
        <5>2. pushed' = [pushed EXCEPT ![q] = @ \union {e}] /\ e.status # "ready"
          BY <5>1
        <5> HIDE DEF e, q
        <5> QED BY <5>2
      <4> QED BY <1>6, <2>5, <4>1, <4>2
              DEF Process, LoadPaper, DownloadPdf, ExtractChunks, ParseFallback, Embed,
                  InsertChunk, UpsertReturns
    <3>4. \A p \in Papers : pushed'[p] = IF p = q THEN pushed[p] \union {e} ELSE pushed[p]
      BY <1>0, <3>3 DEF TypeOK
    <3> HIDE DEF q
    <3> QED BY <2>2, <2>3, <3>2, <3>3, <3>4 DEF PushInv
  <2> QED BY <2>4, <2>5
<1> QED BY <1>2, <1>3, <1>4, <1>5, <1>6 DEF Next, WorkerStep

-----------------------------------------------------------------------------
(***************************************************************************)
(* Before the queue puts a job back, its paper has had one execution at     *)
(* most: it holds the lock, and paper_chunks holds exactly the rows that it *)
(* has inserted, as many as it reported once it reported.                  *)
(***************************************************************************)
Reading == {"load", "download", "extract", "parse"}

FirstInv ==
    \A p \in Papers : NeverRerun(p) =>
        /\ job[p] # "delayed"
        /\ job[p] \in {"absent", "waiting"} => chunks[p] = {} /\ upserted[p] = {}
        /\ \A u \in upserted[p] : chunks[p] = Rows(u.run, u.count)
        /\ \A n \in Nodes : worker[n].pc # "idle" /\ worker[n].paper = p =>
             /\ job[p] = "active" /\ owner[p] = n
             /\ worker[n].pc \in Reading => worker[n].next = 0
             /\ worker[n].pc \in Reading \union {"embed", "insert"} =>
                    upserted[p] = {} /\ chunks[p] = Rows(worker[n].run, worker[n].next)

LEMMA FirstInvCounts == TypeOK /\ ChunksInv /\ FirstInv => LeftoversTakeARerun
<1> SUFFICES ASSUME TypeOK, ChunksInv, FirstInv,
                    NEW p \in Papers, status[p] = "ready", NeverRerun(p)
             PROVE  \E u \in upserted[p] : Cardinality(chunks[p]) = u.count
  BY DEF LeftoversTakeARerun, HasReportedRows
<1>1. PICK u \in upserted[p] : chunks[p] = Rows(u.run, u.count)
  BY DEF ChunksInv, ReadyInv, FirstInv
<1>2. u.count \in Nat
  BY IngestionAssumption DEF TypeOK
<1> QED BY <1>1, <1>2, RowsCount

(* A step that moves neither rows nor jobs, and at most ends executions. *)
LEMMA FirstInvFrame ==
    ASSUME FirstInv, UNCHANGED <<chunks, upserted, queueVars>>,
           \A n \in Nodes : worker'[n] = worker[n] \/ worker'[n].pc = "idle"
    PROVE  FirstInv'
BY DEF FirstInv, NeverRerun, queueVars

(* What a step of process() on node n has to establish for its own paper. *)
LEMMA FirstInvProcess ==
    ASSUME TypeInv, FirstInv, NEW n \in Nodes, Process(n), NEW q, q = worker[n].paper,
           \A p \in Papers \ {q} : chunks'[p] = chunks[p] /\ upserted'[p] = upserted[p],
           NeverRerun(q) =>
               /\ \A u \in upserted'[q] : chunks'[q] = Rows(u.run, u.count)
               /\ worker'[n].pc \in Reading => worker'[n].next = 0
               /\ worker'[n].pc \in Reading \union {"embed", "insert"} =>
                      upserted'[q] = {} /\ chunks'[q] = Rows(worker'[n].run, worker'[n].next)
    PROVE  FirstInv'
<1>1. /\ UNCHANGED queueVars /\ worker'[n].paper = q /\ worker[n].pc # "idle"
      /\ \A m \in Nodes \ {n} : worker'[m] = worker[m]
      /\ q \in Papers
  BY ProcessEffect DEF TypeInv, WorkerInv, At, Paper
<1>2. ASSUME NEW p \in Papers, NeverRerun(p)', p # q
      PROVE  /\ job'[p] # "delayed"
             /\ job'[p] \in {"absent", "waiting"} => chunks'[p] = {} /\ upserted'[p] = {}
             /\ \A u \in upserted'[p] : chunks'[p] = Rows(u.run, u.count)
             /\ \A m \in Nodes : worker'[m].pc # "idle" /\ worker'[m].paper = p =>
                  /\ job'[p] = "active" /\ owner'[p] = m
                  /\ worker'[m].pc \in Reading => worker'[m].next = 0
                  /\ worker'[m].pc \in Reading \union {"embed", "insert"} =>
                         upserted'[p] = {} /\ chunks'[p] = Rows(worker'[m].run, worker'[m].next)
  BY <1>1, <1>2 DEF FirstInv, NeverRerun, queueVars
<1>3. ASSUME NeverRerun(q)'
      PROVE  /\ job'[q] = "active"
             /\ \A u \in upserted'[q] : chunks'[q] = Rows(u.run, u.count)
             /\ \A m \in Nodes : worker'[m].pc # "idle" /\ worker'[m].paper = q =>
                  /\ m = n /\ owner'[q] = m
                  /\ worker'[m].pc \in Reading => worker'[m].next = 0
                  /\ worker'[m].pc \in Reading \union {"embed", "insert"} =>
                         upserted'[q] = {} /\ chunks'[q] = Rows(worker'[m].run, worker'[m].next)
  <2>1. NeverRerun(q)
    BY <1>1, <1>3 DEF NeverRerun, queueVars
  <2>2. job[q] = "active" /\ owner[q] = n
    BY <1>1, <2>1 DEF FirstInv
  <2>3. \A m \in Nodes \ {n} : worker[m].pc # "idle" => worker[m].paper # q
    BY <1>1, <2>1, <2>2 DEF FirstInv
  <2> QED BY <1>1, <2>1, <2>2, <2>3 DEF queueVars
<1> QED BY <1>2, <1>3 DEF FirstInv

LEMMA FirstInvStep == TypeInv /\ ChunksInv /\ FirstInv /\ [Next]_vars => FirstInv'
<1> SUFFICES ASSUME TypeInv, ChunksInv, FirstInv, [Next]_vars PROVE FirstInv'
  OBVIOUS
<1>0. TypeOK
  BY DEF TypeInv
<1>1. CASE UNCHANGED vars
  BY <1>1, FirstInvFrame DEF vars, dbVars, history
<1>2. ASSUME NEW p \in Papers, UploadStep(p) PROVE FirstInv'
  <2>1. /\ UNCHANGED <<worker, chunks, upserted, attemptsMade, stalled, owner>>
        /\ \A q \in Papers : job'[q] = job[q] \/ (job[q] = "absent" /\ job'[q] = "waiting")
    BY <1>0, <1>2 DEF UploadStep, StartUpload, UploadPdf, InsertPaper, Enqueue, UploadAt, InFlight,
                      TypeInv, QueueInv, TypeOK, dbVars, queueVars, history
  <2> QED BY <2>1 DEF FirstInv, NeverRerun
<1>3. ASSUME NEW p \in Papers, BackoffOver(p) PROVE FirstInv'
  <2>1. /\ UNCHANGED <<worker, chunks, upserted, attemptsMade, stalled, owner>>
        /\ ~NeverRerun(p) /\ \A q \in Papers \ {p} : job'[q] = job[q]
    BY <1>0, <1>3 DEF BackoffOver, dbVars, history, FirstInv, TypeOK
  <2> QED BY <2>1 DEF FirstInv, NeverRerun
<1>4. ASSUME NEW p \in Papers, MoveStalled(p) PROVE FirstInv'
  <2>1. UNCHANGED <<worker, chunks, upserted, attemptsMade>>
    BY <1>4 DEF MoveStalled, dbVars, history
  <2>2. stalled'[p] # 0 /\ \A q \in Papers \ {p} : /\ job'[q] = job[q] /\ owner'[q] = owner[q]
                                                   /\ stalled'[q] = stalled[q]
    BY <1>0, <1>4 DEF MoveStalled, MaxStalled, TypeOK
  <2> QED BY <2>1, <2>2 DEF FirstInv, NeverRerun
<1>5. ASSUME NEW n \in Nodes, NEW p \in Papers, Fetch(n, p) PROVE FirstInv'
  <2>1. /\ UNCHANGED <<chunks, upserted, attemptsMade, stalled>>
        /\ job[p] = "waiting" /\ job'[p] = "active" /\ owner'[p] = n
        /\ \A q \in Papers \ {p} : job'[q] = job[q] /\ owner'[q] = owner[q]
    BY <1>0, <1>5 DEF Fetch, dbVars, history, TypeOK
  <2>2. /\ worker'[n].pc = "load" /\ worker'[n].paper = p /\ worker'[n].next = 0
        /\ \A m \in Nodes \ {n} : worker'[m] = worker[m]
    BY <1>0, <1>5 DEF Fetch, Execution, TypeOK
  <2>3. Rows(worker'[n].run, 0) = {}
    BY DEF Rows
  <2>4. NeverRerun(p) => /\ chunks[p] = {} /\ upserted[p] = {}
                         /\ \A m \in Nodes : worker[m].pc # "idle" => worker[m].paper # p
    BY <2>1 DEF FirstInv
  <2>5. ASSUME NEW q \in Papers \ {p}, NEW m \in Nodes,
               worker'[m].pc # "idle" /\ worker'[m].paper = q
        PROVE  worker'[m] = worker[m]
    BY <2>2, <2>5
  <2>6. NeverRerun(p) => \A m \in Nodes : worker'[m].pc # "idle" /\ worker'[m].paper = p => m = n
    BY <2>2, <2>4
  <2>7. NeverRerun(p) => chunks[p] = Rows(worker'[n].run, worker'[n].next)
    BY <2>2, <2>3, <2>4
  <2>8. \A q \in Papers : NeverRerun(q)' <=> NeverRerun(q)
    BY <2>1 DEF NeverRerun
  <2> QED BY <2>1, <2>2, <2>4, <2>5, <2>6, <2>7, <2>8 DEF FirstInv, Reading
<1>6. ASSUME NEW n \in Nodes, FinishJob(n) PROVE FirstInv'
  <2> DEFINE q == worker[n].paper
  <2>1. /\ UNCHANGED <<chunks, upserted, attemptsMade, stalled>>
        /\ worker[n].pc # "idle" /\ worker'[n].pc = "idle"
        /\ \A m \in Nodes \ {n} : worker'[m] = worker[m]
        /\ \A p \in Papers \ {q} : job'[p] = job[p] /\ owner'[p] = owner[p]
        /\ job'[q] \in {job[q], "completed"}
    BY <1>0, <1>6 DEF FinishJob, IdleWorker, Execution, At, Paper, dbVars, history, TypeOK
  <2>2. NeverRerun(q) => \A m \in Nodes \ {n} : worker[m].pc # "idle" => worker[m].paper # q
    BY <2>1 DEF FirstInv, TypeInv, WorkerInv, At, Paper
  <2> HIDE DEF q
  <2> QED BY <2>1, <2>2 DEF FirstInv, NeverRerun
<1>7. ASSUME NEW n \in Nodes, RejectJob(n) PROVE FirstInv'
  <2> DEFINE q == worker[n].paper
  <2>1. /\ UNCHANGED <<chunks, upserted, stalled>> /\ q \in Papers
        /\ \A m \in Nodes : worker'[m] = worker[m] \/ worker'[m].pc = "idle"
        /\ \A p \in Papers \ {q} : /\ job'[p] = job[p] /\ owner'[p] = owner[p]
                                   /\ attemptsMade'[p] = attemptsMade[p]
        /\ \/ UNCHANGED <<job, owner, attemptsMade>>
           \/ attemptsMade'[q] = attemptsMade[q] + 1 /\ attemptsMade[q] \in Nat
    BY <1>0, <1>7 DEF RejectJob, Made, IdleWorker, Execution, At, Paper, dbVars, history, TypeOK,
                      TypeInv, WorkerInv
  <2> HIDE DEF q
  <2>2. UNCHANGED <<job, owner, attemptsMade>> \/ attemptsMade'[q] # 0
    BY <2>1
  <2> QED BY <2>1, <2>2 DEF FirstInv, NeverRerun
<1>8. ASSUME NEW n \in Nodes, Crash(n) PROVE FirstInv'
  BY <1>0, <1>8, FirstInvFrame DEF Crash, IdleWorker, Execution, dbVars, history, TypeOK
<1>9. ASSUME NEW n \in Nodes, Process(n) PROVE FirstInv'
  <2> DEFINE q == worker[n].paper
             r == worker[n].run
  <2>1. /\ q \in Papers /\ worker[n] \in Executions /\ InLoop(worker[n]) /\ Paper(n) = q
        /\ worker[n].pc # "idle"
    BY <1>0, <1>9, ProcessEffect DEF At, Paper, TypeInv, TypeOK, WorkerInv
  <2>2. NeverRerun(q) =>
          /\ \A u \in upserted[q] : chunks[q] = Rows(u.run, u.count)
          /\ worker[n].pc \in Reading => worker[n].next = 0
          /\ worker[n].pc \in Reading \union {"embed", "insert"} =>
                 upserted[q] = {} /\ chunks[q] = Rows(r, worker[n].next)
    BY <2>1 DEF FirstInv
  <2> HIDE DEF q, r
  <2>3. CASE LoadPaper(n) \/ DownloadPdf(n) \/ ExtractChunks(n) \/ ParseFallback(n)
    <3>1. UNCHANGED <<chunks, upserted>> /\ worker[n].pc \in Reading
      BY <2>3 DEF LoadPaper, DownloadPdf, ExtractChunks, ParseFallback, dbVars, history, At, Reading
    <3>2. \/ \E l \in {"download", "extract", "parse", "fail"} : Goto(n, l)
          \/ \E k \in 0 .. MaxChunks : GotChunks(n, k)
      BY <2>3, IngestionAssumption DEF LoadPaper, DownloadPdf, ExtractChunks, ParseFallback
    <3>3. worker'[n].next = worker[n].next \/ worker'[n].next = 0
      BY <1>0, <3>2, GotoEffect, GotChunksEffect DEF Ending, WorkerPcs
    <3>4. Rows(r, 0) = {} /\ Rows(worker'[n].run, 0) = {}
      BY DEF Rows
    <3> QED BY <1>9, <2>2, <3>1, <3>3, <3>4, FirstInvProcess DEF q
  <2>4. CASE Embed(n)
    <3>1. UNCHANGED <<chunks, upserted>> /\ worker[n].pc = "embed"
      BY <2>4 DEF Embed, dbVars, history, At
    <3>2. \/ /\ worker'[n].pc = "insert" /\ worker'[n].run = worker[n].run
             /\ worker'[n].next = worker[n].next
          \/ worker'[n].pc = "fail"
      BY <1>0, <2>4, GotoEffect DEF Embed, Ending, WorkerPcs
    <3> QED BY <1>9, <2>2, <3>1, <3>2, FirstInvProcess DEF Reading, q, r
  <2>5. CASE InsertChunk(n)
    <3>1. /\ UNCHANGED upserted /\ worker[n].pc = "insert"
          /\ \A p \in Papers \ {q} : chunks'[p] = chunks[p]
          /\ \/ /\ worker'[n].pc = "embed" /\ worker'[n].run = r
                /\ worker'[n].next = worker[n].next + 1
                /\ chunks'[q] = chunks[q] \union {Row(n)}
             \/ worker'[n].pc = "fail"
      <4>1. PICK rep \in Replies("db") :
               /\ At(n, "insert")
               /\ chunks' = IF Took(rep) THEN [chunks EXCEPT ![Paper(n)] = @ \union {Row(n)}]
                                         ELSE chunks
               /\ IF rep = "ok" THEN NextChunk(n, worker[n].next) ELSE Goto(n, "fail")
               /\ UNCHANGED <<storage, status, errorReason, queueVars, upload, history>>
        BY <2>5 DEF InsertChunk
      <4>2. CASE rep = "ok"
        <5>1. chunks' = [chunks EXCEPT ![q] = @ \union {Row(n)}] /\ NextChunk(n, worker[n].next)
          BY <2>1, <4>1, <4>2 DEF Took
        <5>2. worker[n].next < worker[n].size
          BY <2>1, <4>1 DEF InLoop, At
        <5>3. /\ worker'[n].pc = "embed" /\ worker'[n].run = worker[n].run
              /\ worker'[n].next = worker[n].next + 1
          BY <1>0, <5>1, <5>2, NextChunkEffect
        <5> QED BY <1>0, <2>1, <4>1, <5>1, <5>3 DEF TypeOK, At, history, r
      <4>3. CASE rep # "ok"
        <5>1. worker'[n].pc = "fail"
          BY <1>0, <4>1, <4>3, GotoEffect DEF WorkerPcs
        <5> QED BY <1>0, <2>1, <4>1, <5>1 DEF TypeOK, At, history
      <4> QED BY <4>2, <4>3
    <3>2. worker[n].next \in Nat
      BY <2>1, IngestionAssumption DEF Executions
    <3>3. Rows(r, worker[n].next) \union {Row(n)} = Rows(r, worker[n].next + 1)
      BY <3>2, RowsGrow DEF Row, r
    <3> QED BY <1>9, <2>2, <3>1, <3>3, FirstInvProcess DEF Reading, q
  <2>6. CASE UpsertReturns(n)
    <3>1. /\ UNCHANGED chunks /\ worker[n].pc = "embed" /\ worker[n].next = worker[n].size
          /\ upserted'[q] = upserted[q] \union {[run |-> r, count |-> worker[n].size]}
          /\ \A p \in Papers \ {q} : upserted'[p] = upserted[p]
      BY <1>0, <2>1, <2>6 DEF UpsertReturns, dbVars, At, TypeOK, r
    <3>2. worker'[n].pc = "upserted"
      BY <1>0, <2>6, GotoEffect DEF UpsertReturns, WorkerPcs
    <3> QED BY <1>9, <2>2, <3>1, <3>2, FirstInvProcess DEF Reading, q
  <2>7. CASE MarkReady(n) \/ MarkFailed(n)
    <3>1. UNCHANGED <<chunks, upserted>>
      BY <2>7 DEF MarkReady, MarkFailed
    <3>2. \E l \in {"return", "fail", "throw"} : Goto(n, l)
      BY <2>7 DEF MarkReady, MarkFailed, AfterCatch
    <3>3. worker'[n].pc \in {"return", "fail", "throw"}
      BY <1>0, <3>2, GotoEffect DEF WorkerPcs
    <3> QED BY <1>9, <2>2, <3>1, <3>3, FirstInvProcess DEF Reading, q
  <2> QED BY <1>9, <2>3, <2>4, <2>5, <2>6, <2>7 DEF Process
<1> QED BY <1>1, <1>2, <1>3, <1>4, <1>5, <1>6, <1>7, <1>8, <1>9
        DEF Next, WorkerStep, QueueStep, StalledJob, LockLost

(* Without faults no job is run again, ... *)
NoRerunInv == Faults = {} => \A p \in Papers : NeverRerun(p)

LEMMA NoRerunInvStep == TypeInv /\ OnceInv /\ NoRerunInv /\ [Next]_vars => NoRerunInv'
<1> SUFFICES ASSUME TypeInv, OnceInv, NoRerunInv, [Next]_vars, Faults = {}
             PROVE  UNCHANGED <<attemptsMade, stalled>>
  BY DEF NoRerunInv, NeverRerun
<1> USE DEF queueVars
<1>1. ASSUME NEW p \in Papers, StalledJob(p) \/ LockLost(p) PROVE FALSE
  BY <1>1 DEF StalledJob, LockLost, MoveStalled, OnceInv
<1>2. ASSUME NEW n \in Nodes, RejectJob(n) PROVE FALSE
  BY <1>2 DEF RejectJob, OnceInv, At
<1>3. ASSUME NEW p \in Papers, UploadStep(p) \/ BackoffOver(p) PROVE UNCHANGED <<attemptsMade, stalled>>
  BY <1>3 DEF UploadStep, StartUpload, UploadPdf, InsertPaper, Enqueue, BackoffOver
<1>4. ASSUME NEW n \in Nodes, Process(n) PROVE UNCHANGED <<attemptsMade, stalled>>
  BY <1>4, ProcessEffect
<1> QED BY <1>1, <1>2, <1>3, <1>4
        DEF Next, WorkerStep, QueueStep, Fetch, FinishJob, Crash, vars

(* ... and the one outcome that is written is the one that is pushed. *)
AgreeInv == Faults = {} => PushAgreesWithStatus

LEMMA AgreeInvStep ==
    TypeInv /\ FreshInv /\ OnceInv /\ PushInv /\ AgreeInv /\ [Next]_vars => AgreeInv'
<1> SUFFICES ASSUME TypeInv, FreshInv, OnceInv, PushInv, AgreeInv, [Next]_vars, Faults = {}
             PROVE  PushAgreesWithStatus'
  BY DEF AgreeInv
<1> USE DEF dbVars, queueVars, history
<1>0. TypeOK /\ PushAgreesWithStatus
  BY DEF TypeInv, AgreeInv
<1>1. CASE UNCHANGED <<status, pushed>>
  BY <1>0, <1>1 DEF PushAgreesWithStatus
<1>2. ASSUME NEW p \in Papers, InsertPaper(p) PROVE PushAgreesWithStatus'
  <2>1. status[p] = "none"
    BY <1>2 DEF InsertPaper, UploadAt, FreshInv
  <2>2. pushed[p] = {}
    BY <2>1 DEF PushInv, Settled
  <2>3. UNCHANGED pushed /\ \A q \in Papers \ {p} : status'[q] = status[q]
    BY <1>0, <1>2 DEF InsertPaper, TypeOK
  <2> QED BY <1>0, <2>2, <2>3 DEF PushAgreesWithStatus
<1>3. ASSUME NEW n \in Nodes, NEW s \in Settled, NEW k, SetStatus(Paper(n), s), Push(Paper(n), s, k),
             ~At(n, "idle"), ~At(n, "return")
      PROVE  PushAgreesWithStatus'
  <2> DEFINE q == Paper(n)
  <2>1. q \in Papers /\ status[q] = "processing"
    BY <1>3 DEF TypeInv, WorkerInv, OnceInv
  <2>2. pushed[q] = {}
    BY <2>1 DEF PushInv, Settled
  <2>3. \A p \in Papers : status'[p] = IF p = q THEN s ELSE status[p]
    BY <1>0, <1>3, <2>1 DEF SetStatus, TypeOK
  <2>4. /\ \A p \in Papers \ {q} : pushed'[p] = pushed[p]
        /\ \A e \in pushed'[q] : e.status = s
    BY <1>0, <1>3, <2>1, <2>2 DEF Push, TypeOK
  <2> HIDE DEF q
  <2> QED BY <1>0, <2>3, <2>4 DEF PushAgreesWithStatus
<1>4. ASSUME NEW n \in Nodes, MarkReady(n) PROVE PushAgreesWithStatus'
  BY <1>3, <1>4, IngestionAssumption DEF MarkReady, Replies, Took, At, Settled
<1>5. ASSUME NEW n \in Nodes, MarkFailed(n) PROVE PushAgreesWithStatus'
  BY <1>3, <1>5, IngestionAssumption DEF MarkFailed, Replies, Took, At, Settled
<1>6. ASSUME NEW n \in Nodes, Process(n), ~MarkReady(n), ~MarkFailed(n) PROVE UNCHANGED <<status, pushed>>
  BY <1>6 DEF Process, LoadPaper, DownloadPdf, ExtractChunks, ParseFallback, Embed, InsertChunk,
              UpsertReturns
<1>7. ASSUME NEW p \in Papers, UploadStep(p), ~InsertPaper(p) PROVE UNCHANGED <<status, pushed>>
  BY <1>7 DEF UploadStep, StartUpload, UploadPdf, Enqueue
<1>8. ASSUME NEW p \in Papers, QueueStep(p) \/ LockLost(p) PROVE UNCHANGED <<status, pushed>>
  BY <1>8 DEF QueueStep, BackoffOver, StalledJob, LockLost, MoveStalled
<1>9. ASSUME NEW n \in Nodes, WorkerStep(n) \/ Crash(n), ~Process(n) PROVE UNCHANGED <<status, pushed>>
  BY <1>9 DEF WorkerStep, Fetch, FinishJob, RejectJob, Crash
<1>10. CASE UNCHANGED vars
  BY <1>1, <1>10 DEF vars
<1> QED BY <1>1, <1>2, <1>4, <1>5, <1>6, <1>7, <1>8, <1>9, <1>10 DEF Next, WorkerStep

-----------------------------------------------------------------------------
(* The inductive invariant and the properties it implies. *)

IInv == /\ TypeInv /\ StorageInv /\ ChunksInv /\ SettledInv /\ LockInv /\ FreshInv /\ OnceInv
        /\ PushInv /\ FirstInv /\ NoRerunInv /\ AgreeInv

LEMMA InitIInv == Init => IInv
<1> SUFFICES ASSUME Init PROVE IInv
  OBVIOUS
<1>1. TypeInv
  BY InitTypeInv
<1>2. \A n \in Nodes : At(n, "idle")
  BY DEF Init, At, IdleWorker, Execution
<1>3. StorageInv /\ FreshInv
  BY DEF Init, StorageInv, UploadInv, QueuedPaperExists, FreshInv, UploadAt
<1>4. ChunksInv
  BY <1>2 DEF Init, ChunksInv, RowsInv, UpsertedInv, ReadyInv
<1>5. SettledInv /\ LockInv /\ OnceInv
  BY <1>2 DEF Init, SettledInv, CompletedJobSettled, LockInv, OnceInv, At
<1>6. PushInv /\ FirstInv
  BY <1>2 DEF Init, PushInv, FirstInv, At
<1>7. NoRerunInv /\ AgreeInv
  BY DEF Init, NoRerunInv, NeverRerun, AgreeInv, PushAgreesWithStatus
<1> QED BY <1>1, <1>3, <1>4, <1>5, <1>6, <1>7 DEF IInv

LEMMA IInvStep == IInv /\ [Next]_vars => IInv'
BY TypeInvStep, StorageInvStep, ChunksInvStep, SettledInvStep, LockInvStep, FreshInvStep,
   OnceInvStep, PushInvStep, FirstInvStep, NoRerunInvStep, AgreeInvStep
DEF IInv

(* IInv holds in every reachable state: the upload's order of calls, the   *)
(* rows of each execution, the job's outcome and the locks.                *)
THEOREM Invariance == Spec => []IInv
BY InitIInv, IInvStep, PTL DEF Spec

(* A worker that gets a job finds the paper's row and its PDF, whatever    *)
(* crashes or fails: the order of upload's three calls guarantees it.      *)
THEOREM QueuedPapersExist == Spec => []QueuedPaperExists
<1>1. IInv => QueuedPaperExists
  BY DEF IInv, StorageInv
<1> QED BY <1>1, Invariance, PTL

(* A ready paper has all the chunks of one execution of process(), however *)
(* many executions crashed, failed or ran beside it.                       *)
THEOREM ReadyPapersAreComplete == Spec => []ReadyImpliesComplete
<1>1. IInv => ReadyImpliesComplete
  BY ChunksInvReady DEF IInv
<1> QED BY <1>1, Invariance, PTL

(* A job that counts as completed has left an outcome in papers.status. *)
THEOREM CompletedJobsSettle == Spec => []CompletedJobSettled
<1>1. IInv => CompletedJobSettled
  BY DEF IInv, SettledInv
<1> QED BY <1>1, Invariance, PTL

(* Rows that fail or lose their answers never stay beside a ready paper     *)
(* unless the queue ran the job again: the catch block of process() ends    *)
(* the execution that left them, under every order of faults.              *)
THEOREM LeftoversAreOfReruns == Spec => []LeftoversTakeARerun
<1>1. IInv => LeftoversTakeARerun
  BY FirstInvCounts DEF IInv, TypeInv
<1> QED BY <1>1, Invariance, PTL

(* Nobody is told by websocket what the table does not say: an event's     *)
(* paper is settled, and the table has all the rows of an execution with    *)
(* the chunk_count that a "ready" reported.                                *)
THEOREM PushesAreBacked == Spec => []PushIsBackedByRows
<1>1. IInv => PushIsBackedByRows
  BY PushInvBacked DEF IInv
<1> QED BY <1>1, Invariance, PTL

(* When nothing fails, chunk_count is the number of rows in paper_chunks.  *)
THEOREM ChunkCountsAreReported == Faults = {} /\ Spec => []ChunkCountIsReported
<1> SUFFICES ASSUME Faults = {} PROVE Spec => []ChunkCountIsReported
  OBVIOUS
<1>1. IInv => ChunkCountIsReported
  BY FirstInvCounts DEF IInv, TypeInv, NoRerunInv, LeftoversTakeARerun, ChunkCountIsReported
<1> QED BY <1>1, Invariance, PTL

(* When nothing fails, an event names the status that the paper keeps.     *)
THEOREM PushesAgree == Faults = {} /\ Spec => []PushAgreesWithStatus
<1> SUFFICES ASSUME Faults = {} PROVE Spec => []PushAgreesWithStatus
  OBVIOUS
<1>1. IInv => PushAgreesWithStatus
  BY DEF IInv, AgreeInv
<1> QED BY <1>1, Invariance, PTL

-----------------------------------------------------------------------------
(* Ingestion implements PaperLifecycle. *)

CompletePapers == {p \in Papers : \E u \in upserted[p] : Stored(p, u)}

LEMMA CompleteIfUpserted ==
    ASSUME ChunksInv PROVE CompletePapers = {p \in Papers : upserted[p] # {}}
BY DEF ChunksInv, UpsertedInv, CompletePapers

LEMMA LifecycleInit == Init => Life!Init
BY DEF Init, Life!Init

LEMMA LifecycleStep == IInv /\ IInv' /\ [Next]_vars => [Life!Next]_(Life!lifeVars)
<1> SUFFICES ASSUME IInv, IInv', [Next]_vars, ~UNCHANGED <<status, CompletePapers>>
             PROVE  Life!Next
  BY DEF Life!lifeVars, CompletePapers
<1>0. TypeOK /\ TypeInv
  BY DEF IInv, TypeInv
<1>1. /\ CompletePapers = {p \in Papers : upserted[p] # {}}
      /\ CompletePapers' = {p \in Papers : upserted'[p] # {}}
  <2>1. ChunksInv /\ UpsertedInv'
    BY DEF IInv, ChunksInv
  <2> QED BY <2>1, CompleteIfUpserted DEF UpsertedInv, CompletePapers
<1>2. ~UNCHANGED <<status, upserted>>
  BY <1>1
<1>3. ASSUME NEW p \in Papers, UploadStep(p) PROVE Life!Next
  <2>1. InsertPaper(p)
    BY <1>2, <1>3 DEF UploadStep, StartUpload, UploadPdf, Enqueue, dbVars, history
  <2>2. status[p] = "none"
    BY <2>1 DEF InsertPaper, UploadAt, IInv, FreshInv
  <2>3. status' = [status EXCEPT ![p] = "processing"] /\ CompletePapers' = CompletePapers
    BY <1>1, <1>2, <2>1 DEF InsertPaper, history
  <2>4. Life!Accept(p)
    BY <2>2, <2>3 DEF Life!Accept, CompletePapers
  <2> QED BY <2>4 DEF Life!Next
<1>4. ASSUME NEW n \in Nodes, Process(n) PROVE Life!Next
  <2> PICK p \in Papers : p = Paper(n)
    BY <1>4, ProcessEffect, <1>0
  <2>0. /\ p = Paper(n) /\ status[p] # "none" /\ ~At(n, "idle")
        /\ Faults = {} => status[p] = "processing"
    BY <1>0, <1>4, ProcessEffect
    DEF IInv, TypeInv, WorkerInv, StorageInv, QueuedPaperExists, OnceInv, At
  <2>1. CASE UpsertReturns(n)
    <3>1. status' = status /\ CompletePapers' = CompletePapers \union {p}
      BY <1>0, <1>1, <2>0, <2>1 DEF UpsertReturns, TypeOK, dbVars
    <3>2. Life!Complete(p)
      BY <2>0, <3>1 DEF Life!Complete, CompletePapers
    <3> QED BY <2>0, <3>2 DEF Life!Next
  <2>2. ASSUME NEW s \in Settled, SetStatus(p, s), UNCHANGED upserted,
               s = "ready" => p \in CompletePapers
        PROVE  Life!Next
    <3>1. status' = [status EXCEPT ![p] = s] /\ CompletePapers' = CompletePapers
      BY <1>1, <2>0, <2>2 DEF SetStatus
    <3>2. Life!Settle(p, s)
      BY <2>0, <2>2, <3>1 DEF Life!Settle, CompletePapers
    <3> QED BY <2>0, <2>2, <3>2 DEF Life!Next, Life!Settled, Settled
  <2>3. CASE MarkReady(n)
    <3>1. p \in CompletePapers
      BY <1>1, <2>0, <2>3 DEF MarkReady, IInv, ChunksInv, RowsInv
    <3> QED BY <1>2, <2>2, <2>3, <3>1 DEF MarkReady, Settled
  <2>4. CASE MarkFailed(n)
    BY <1>2, <2>2, <2>4 DEF MarkFailed, Settled
  <2>5. UpsertReturns(n) \/ MarkReady(n) \/ MarkFailed(n)
    BY <1>2, <1>4 DEF Process, LoadPaper, DownloadPdf, ExtractChunks, ParseFallback, Embed,
                      InsertChunk, dbVars, history
  <2> QED BY <2>1, <2>3, <2>4, <2>5
<1>5. ASSUME UNCHANGED vars PROVE FALSE
  BY <1>2, <1>5 DEF vars, dbVars, history
<1>6. ASSUME NEW p \in Papers, QueueStep(p) \/ LockLost(p) PROVE FALSE
  BY <1>2, <1>6 DEF QueueStep, BackoffOver, StalledJob, LockLost, MoveStalled, dbVars, history
<1>7. ASSUME NEW n \in Nodes, WorkerStep(n) \/ Crash(n), ~Process(n) PROVE FALSE
  BY <1>2, <1>7 DEF WorkerStep, Fetch, FinishJob, RejectJob, Crash, dbVars, history
<1> QED BY <1>3, <1>4, <1>5, <1>6, <1>7 DEF Next

(* Every behaviour of the pipeline is one of the abstract paper: a row is  *)
(* created once, turns ready only with a whole extraction stored, and is   *)
(* settled only once when nothing fails.                                   *)
THEOREM IngestionImplementsLifecycle == Spec => ImplementsLifecycle
BY LifecycleInit, LifecycleStep, Invariance, PTL DEF Spec, ImplementsLifecycle, Life!Spec

-----------------------------------------------------------------------------
(* The queue comes to an end. *)

(* A move of a job that has executions left. *)
LEMMA MoveShortens ==
    ASSUME TypeInv, TypeInv', NEW p \in Papers, job'[p] # job[p],
           \/ job[p] = "waiting" /\ job'[p] = "active" /\ ExecutionsLeft(p)' = ExecutionsLeft(p)
           \/ job[p] = "delayed" /\ job'[p] = "waiting" /\ ExecutionsLeft(p)' = ExecutionsLeft(p)
           \/ /\ job[p] = "active" /\ job'[p] \in {"waiting", "delayed"}
              /\ ExecutionsLeft(p)' = ExecutionsLeft(p) - 1
           \/ job[p] = "active" /\ job'[p] \in {"completed", "failed"}
    PROVE  MovesLeft(p)' < MovesLeft(p)
<1>1. attemptsMade[p] \in 0 .. Attempts /\ stalled[p] \in 0 .. MaxStalled
  BY DEF TypeInv, TypeOK
<1>2. ExecutionsLeft(p) \in Int
  BY <1>1 DEF ExecutionsLeft, Attempts, MaxStalled
<1>3. job[p] = "active" => ExecutionsLeft(p) > 0
  BY <1>1 DEF ExecutionsLeft, TypeInv, QueueInv, Attempts, MaxStalled
<1> QED BY <1>2, <1>3 DEF MovesLeft

LEMMA UnmovedKeeps ==
    ASSUME NEW p \in Papers, job'[p] = job[p],
           attemptsMade'[p] = attemptsMade[p], stalled'[p] = stalled[p]
    PROVE  MovesLeft(p)' = MovesLeft(p)
BY DEF MovesLeft, ExecutionsLeft

(* What can happen to a job that was enqueued. *)
LEMMA JobMoves ==
    ASSUME TypeInv, [Next]_vars, NEW p \in Papers, job[p] # "absent"
    PROVE  \/ /\ job'[p] = job[p]
              /\ attemptsMade'[p] = attemptsMade[p] /\ stalled'[p] = stalled[p]
           \/ /\ job'[p] # job[p]
              /\ \/ job[p] = "waiting" /\ job'[p] = "active"
                                       /\ ExecutionsLeft(p)' = ExecutionsLeft(p)
                 \/ job[p] = "delayed" /\ job'[p] = "waiting"
                                       /\ ExecutionsLeft(p)' = ExecutionsLeft(p)
                 \/ /\ job[p] = "active" /\ job'[p] \in {"waiting", "delayed"}
                    /\ ExecutionsLeft(p)' = ExecutionsLeft(p) - 1
                 \/ job[p] = "active" /\ job'[p] \in {"completed", "failed"}
<1> DEFINE Still == job'[p] = job[p] /\ attemptsMade'[p] = attemptsMade[p] /\ stalled'[p] = stalled[p]
<1>0. /\ attemptsMade \in [Papers -> 0 .. Attempts] /\ stalled \in [Papers -> 0 .. MaxStalled]
      /\ job \in [Papers -> JobStates]
  BY DEF TypeInv, TypeOK
<1>1. ASSUME NEW q \in Papers, UploadStep(q) PROVE Still
  <2>1. upload[p].pc \notin InFlight \union {"idle"}
    BY DEF TypeInv, QueueInv
  <2>2. CASE Enqueue(q)
    <3>1. q # p
      BY <2>1, <2>2 DEF Enqueue, UploadAt, InFlight
    <3> QED BY <1>0, <2>2, <3>1 DEF Enqueue
  <2> QED BY <1>1, <2>2 DEF UploadStep, StartUpload, UploadPdf, InsertPaper, queueVars
<1>2. ASSUME NEW q \in Papers, NEW n \in Nodes, Fetch(n, q)
      PROVE  \/ Still
             \/ /\ job[p] = "waiting" /\ job'[p] = "active"
                /\ ExecutionsLeft(p)' = ExecutionsLeft(p)
  BY <1>0, <1>2 DEF Fetch, ExecutionsLeft
<1>3. ASSUME NEW q \in Papers, BackoffOver(q)
      PROVE  \/ Still
             \/ /\ job[p] = "delayed" /\ job'[p] = "waiting"
                /\ ExecutionsLeft(p)' = ExecutionsLeft(p)
  BY <1>0, <1>3 DEF BackoffOver, ExecutionsLeft
<1>4. ASSUME NEW q \in Papers, MoveStalled(q)
      PROVE  \/ Still
             \/ /\ job[p] = "active" /\ job'[p] = "waiting"
                /\ ExecutionsLeft(p)' = ExecutionsLeft(p) - 1
             \/ job[p] = "active" /\ job'[p] = "failed"
  BY <1>0, <1>4 DEF MoveStalled, ExecutionsLeft, Attempts, MaxStalled
<1>5. ASSUME NEW n \in Nodes, FinishJob(n) \/ RejectJob(n)
      PROVE  \/ Still
             \/ /\ job[p] = "active" /\ job'[p] = "delayed"
                /\ ExecutionsLeft(p)' = ExecutionsLeft(p) - 1
             \/ job[p] = "active" /\ job'[p] \in {"completed", "failed"}
  <2>1. Paper(n) \in Papers /\ n # NoNode
    BY <1>5, IngestionAssumption DEF FinishJob, RejectJob, TypeInv, WorkerInv, At
  <2>2. owner[Paper(n)] = n => job[Paper(n)] = "active"
    BY <2>1 DEF TypeInv, QueueInv
  <2>3. CASE FinishJob(n)
    BY <1>0, <2>1, <2>2, <2>3 DEF FinishJob
  <2>4. CASE RejectJob(n)
    <3>1. CASE UNCHANGED <<job, attemptsMade, owner>>
      BY <2>4, <3>1 DEF RejectJob
    <3>2. CASE /\ attemptsMade' = [attemptsMade EXCEPT ![Paper(n)] = Made(Paper(n))]
               /\ job' = [job EXCEPT ![Paper(n)] = AfterReject(Made(Paper(n)))]
               /\ owner[Paper(n)] = n
      BY <1>0, <2>1, <2>2, <2>4, <3>2
         DEF RejectJob, AfterReject, Made, ExecutionsLeft, Attempts, MaxStalled
    <3> QED BY <2>4, <3>1, <3>2 DEF RejectJob
  <2> QED BY <1>5, <2>3, <2>4
<1>6. ASSUME NEW n \in Nodes, Process(n) \/ Crash(n) PROVE Still
  BY <1>6 DEF Process, LoadPaper, DownloadPdf, ExtractChunks, ParseFallback, Embed, InsertChunk,
              UpsertReturns, MarkReady, MarkFailed, Crash, queueVars
<1>7. CASE UNCHANGED vars
  BY <1>7 DEF vars, queueVars
<1>8. CASE Next
  <2>1. CASE \E q \in Papers : UploadStep(q) \/ QueueStep(q) \/ LockLost(q)
    BY <2>1, <1>1, <1>3, <1>4 DEF QueueStep, StalledJob, LockLost
  <2>2. CASE \E n \in Nodes : WorkerStep(n) \/ Crash(n)
    BY <2>2, <1>2, <1>5, <1>6 DEF WorkerStep
  <2> QED BY <1>8, <2>1, <2>2 DEF Next
<1> QED BY <1>7, <1>8

(* No job goes round for ever: a bound on its moves goes down with each, for *)
(* every order of crashes, stalls, lost locks, lost answers and retries.     *)
THEOREM JobsWearOut == Spec => EveryMoveIsProgress
<1> DEFINE A == \A p \in Papers : job[p] # "absent" =>
                    IF job'[p] = job[p] THEN MovesLeft(p)' = MovesLeft(p)
                                        ELSE MovesLeft(p)' < MovesLeft(p)
<1>1. TypeInv /\ TypeInv' /\ [Next]_vars => A
  <2> SUFFICES ASSUME TypeInv, TypeInv', [Next]_vars, NEW p \in Papers, job[p] # "absent"
               PROVE  IF job'[p] = job[p] THEN MovesLeft(p)' = MovesLeft(p)
                                          ELSE MovesLeft(p)' < MovesLeft(p)
    OBVIOUS
  <2> QED BY JobMoves, MoveShortens, UnmovedKeeps
<1>2. IInv => TypeInv
  BY DEF IInv
<1> QED BY <1>1, <1>2, Invariance, PTL DEF Spec, EveryMoveIsProgress
=============================================================================
