SPECIFICATION FairSpec
CONSTANTS
    Slots = {1, 2, 3}
    Calls = {c1}
    Risky = {c1}
    Workers = {w1, w2}
    MaxSteps = 2
    MaxCalls = 1
    Failures = 1
    Crashes = TRUE
INVARIANTS
    TypeOK
    RecordedBeforeEffect
    PausePointSaved
    TranscriptIsLogged
PROPERTIES
    RunSettles
    SettledEndStays
CHECK_DEADLOCK FALSE
