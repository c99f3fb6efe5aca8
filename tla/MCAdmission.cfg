SPECIFICATION FairSpec
CONSTANTS
    Voice = {v1}
    App = {a1}
    Installed = {k1}
    NoKey = NoKey
    Students = {s1}
    SigningKeys = {j1, j2}
    Trusted = {j1}
    NoKid = NoKid
    LegacySecret = TRUE
    Faults = {"crash", "db", "jwks"}
INVARIANTS TypeOK AdmittedWasEntitled EntitledIsNotRefused GivenKeyWorks
PROPERTY EveryRequestIsDecided
\* The system stops when every request was decided and everything has expired.
CHECK_DEADLOCK FALSE
