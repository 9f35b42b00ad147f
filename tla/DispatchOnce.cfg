SPECIFICATION Spec
CONSTANTS
    Types = {shell}
    ShellType = shell
    BlankType = blank
    Jobs = {j1}
    Workers = {w1}
    WorkerType <- AllShell
    Requests = {r1, r2}
    Kinds = {"agent", "approve"}
    Targets <- ExactlyOne
    Calls = {c1}
    Decisions = {TRUE}
    Faults = FALSE
    NoWorker = NoWorker
    NoJob = NoJob
    NoCall = NoCall
    NoKey = NoKey
INVARIANTS
    DispatchedOnce
CHECK_DEADLOCK FALSE
