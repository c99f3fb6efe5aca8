SPECIFICATION FairSpec
CONSTANTS
    Requests = {r1, r2, r3}
    Limit = 1
    MaxDay = 1
    Faults = {"crash", "db"}
    NoDay = NoDay
INVARIANTS SlotsAccountedFor ServedWithinBudget FailureIsRefunded
PROPERTIES RefusedOnlyWhenFull EveryRequestEnds
\* The system stops when every request is answered and the last day is reached.
CHECK_DEADLOCK FALSE
