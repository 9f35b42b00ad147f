SPECIFICATION Spec
CONSTANTS
    Admins = {boot, a1}
    Boot = boot
    Ops = {o1}
    Policies = {p1, p2}
    Groups = {g1}
    Codes = {c1}
    Contents <- MCContents
    Files <- MCFiles
    Source <- MCSource
    NoRow = NoRow
    Faults = FALSE
INVARIANTS
    PolicyIsActive
CHECK_DEADLOCK FALSE
