SPECIFICATION FairSpec
CONSTANTS
    MaxSteps = 2
    MaxText = 2
    MaxCalls = 2
    Cap = 2
    Failures = 1
INVARIANTS
    TypeOK
    RefreshSeesAll
    TextArrivesWhole
    ExecutedAsSent
PROPERTIES
    RequestEnds
CHECK_DEADLOCK FALSE
