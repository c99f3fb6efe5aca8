SPECIFICATION FairSpec
CONSTANTS
    Papers = {p1}
    Nodes = {n1}
    WorkerNodes = {n1}
    MaxChunks = 2
    Faults = {"crash"}
    NoPaper = NoPaper
    NoNode = NoNode
PROPERTY AcceptedPaperSettles
CHECK_DEADLOCK FALSE
