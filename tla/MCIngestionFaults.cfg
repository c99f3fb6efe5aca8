SPECIFICATION FairSpec
CONSTANTS
    Papers = {p1}
    Nodes = {n1, n2}
    WorkerNodes = {n1, n2}
    MaxChunks = 2
    Faults = {"crash", "db", "redis"}
    NoPaper = NoPaper
    NoNode = NoNode
INVARIANTS QueuedPaperExists ReadyImpliesComplete CompletedJobSettled PushIsBackedByRows LeftoversTakeARerun
PROPERTIES ImplementsLifecycle QueuedJobEnds
\* The system stops when every upload is over and every job has ended.
CHECK_DEADLOCK FALSE
