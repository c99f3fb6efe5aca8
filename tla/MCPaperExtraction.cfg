SPECIFICATION FairSpec
CONSTANTS
    MaxChunks = 2
    MaxWords = 11
    windowTokens = 4
    overlapTokens = 1
INVARIANTS NoTimerLeft ExitIsNoticed EveryWordIsChunked NeighboursOverlap
PROPERTIES ImplementsExtraction ExtractionEnds NoThreadLeft
\* The system stops when the extraction has ended and its thread is dead.
CHECK_DEADLOCK FALSE
