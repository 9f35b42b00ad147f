SPECIFICATION FairSpec
CONSTANTS
    a1 = a1
    k1 = k1
    Agents = {a1}
    Keys = {k1, k2}
    KeyOf <- MCKeyOf
    Streams = {1, 2}
    Cap = 1
    MaxID = 4
    MaxRows = 2
    MaxStarts = 1
    Failures = 1
    None = None
INVARIANTS
    TypeOK
    IdentityHolds
    NoIDCollision
    OneRowPerKey
PROPERTIES
    ServedIsOnline
CHECK_DEADLOCK FALSE
