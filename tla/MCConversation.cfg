SPECIFICATION FairSpec
CONSTANTS
    Devices = {d1}
    Students = {s1}
    VoiceAsks = 2
    ChatAsks = 1
    MaxAsks <- AsksOf
    HistoryLimit = 1
    Faults = {"crash", "db", "timeout"}
INVARIANTS AnswersFollowQuestions HeardTurnIsStored
PROPERTIES ImplementsTranscript FollowUpKnowsHeardTurns EveryQuestionEnds
\* The system stops when nobody has a question left.
CHECK_DEADLOCK FALSE
