SPECIFICATION FairSpec
CONSTANTS
    Slots = {1, 2, 3}
    Calls = {c1}
    Risky = {c1}
    Workers = {w1}
    MaxSteps = 2
    MaxCalls = 1
    Failures = 0
    Crashes = FALSE
PROPERTIES
    ApprovedRunResumes
CHECK_DEADLOCK FALSE
