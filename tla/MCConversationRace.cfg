SPECIFICATION Spec
CONSTANTS
    Devices = {d1}
    Students = {}
    VoiceAsks = 3
    ChatAsks = 0
    MaxAsks <- AsksOf
    HistoryLimit = 6
    Faults = {"timeout"}
PROPERTY EveryFollowUpKnowsHeardTurns
CHECK_DEADLOCK FALSE
