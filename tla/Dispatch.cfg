SPECIFICATION Spec
CONSTANTS
    Types = {shell}
    ShellType = shell
    BlankType = blank
    Jobs = {j1, j2}
    Workers = {w1, w2}
    WorkerType <- AllShell
    Requests = {r1, r2, r3}
    Kinds = {"create", "agent", "dispatch", "approve", "reject", "delete"}
    Targets <- ExactlyOne
    Calls = {c1}
    Decisions = {TRUE, FALSE}
    Faults = TRUE
    NoWorker = NoWorker
    NoJob = NoJob
    NoCall = NoCall
    NoKey = NoKey
SYMMETRY Perms
INVARIANTS
    TypeOK
    ApprovalGate
    ResultFromAssignee
    OneJobPerKey
PROPERTIES
    RejectionStands
CHECK_DEADLOCK FALSE
