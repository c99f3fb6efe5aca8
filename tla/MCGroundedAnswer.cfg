SPECIFICATION FairSpec
CONSTANTS
    p1 = p1
    p2 = p2
    c1 = c1
    c2 = c2
    c3 = c3
    c4 = c4
    Papers = {p1, p2}
    Chunks = {c1, c2, c3, c4}
    PaperOf <- TwoEach
    k = 2
    CandidatesPerList = 3
    FusedLimit = 2
    topK = 2
INVARIANTS AgreementWins DominationRespected CitationsWereSearchable UncitedOnlyIfStrict
PROPERTIES ImplementsAnswering AskEnds
\* The system stops when the question is answered and no paper changes.
CHECK_DEADLOCK FALSE
