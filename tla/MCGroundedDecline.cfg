SPECIFICATION Spec
CONSTANTS
    p1 = p1
    p2 = p2
    c1 = c1
    c2 = c2
    c3 = c3
    c4 = c4
    Papers = {p1}
    Chunks = {c1, c2}
    PaperOf <- OnePaper
    k = 60
    CandidatesPerList = 2
    FusedLimit = 2
    topK = 2
INVARIANT NothingFoundIsDeclined
CHECK_DEADLOCK FALSE
