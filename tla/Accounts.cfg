SPECIFICATION Spec
CONSTANTS
    Users = {root, u1}
    Initial = root
    Passwords = {p1, p2, padded, long}
    TooLong = {long}
    Salts = {s1}
    Padded = padded
    Bare = p1
    Trim <- MCTrim
    Requests = {r1, r2}
    NoUser = NoUser
    Faults = TRUE
SYMMETRY Perms
INVARIANTS
    TypeOK
    AcknowledgedHolds
    InitialAdminStays
