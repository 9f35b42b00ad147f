SPECIFICATION Spec
CONSTANTS
    Types = {shell}
    ShellType = shell
    BlankType = blank
    Jobs = {j1}
    Workers = {w1}
    WorkerType <- AllShell
    Requests = {r1, r2, r3}
    Kinds = {"create", "dispatch", "delete"}
    Targets <- AtMostOne
    Calls = {}
    Decisions = {}
    Faults = FALSE
    NoWorker = NoWorker
    NoJob = NoJob
    NoCall = NoCall
    NoKey = NoKey
PROPERTIES
    DeleteOnlyUndispatched
CHECK_DEADLOCK FALSE
