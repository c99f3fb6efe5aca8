SPECIFICATION Spec
CONSTANTS
    Papers = {p1}
    Nodes = {n1}
    WorkerNodes = {n1}
    MaxChunks = 2
    Faults = {"crash"}
    NoPaper = NoPaper
    NoNode = NoNode
INVARIANT ChunkCountIsReported
CHECK_DEADLOCK FALSE
