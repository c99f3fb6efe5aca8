SPECIFICATION Spec
CONSTANTS
    Requests = {r1, r2, r3}
    Limit = 2
    MaxDay = 0
    Faults = {}
    NoDay = NoDay
INVARIANT AnsweredWithinSlice
CHECK_DEADLOCK FALSE
