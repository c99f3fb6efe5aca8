SPECIFICATION FairSpec
CONSTANTS
    Papers = {p1, p2}
    Nodes = {n1, n2}
    WorkerNodes = {n1, n2}
    MaxChunks = 2
    Faults = {}
    NoPaper = NoPaper
    NoNode = NoNode
INVARIANTS ChunkCountIsReported PushAgreesWithStatus
PROPERTIES ImplementsLifecycle AcceptedPaperSettles
\* The system stops when every upload is over and every job has ended.
CHECK_DEADLOCK FALSE
