SPECIFICATION FairSpec
CONSTANTS
    Workers = {w1, w2}
    Streams = {s1, s2}
    Msgs = {m1, m2}
    Cap = 1
    None = None
INVARIANTS
    TypeOK
    NoPanic
    RoutedToLiveStream
    StreamFIFO
PROPERTIES
    DeadStreamEnds
    ReceiverEnds
    ImplementsLink
CHECK_DEADLOCK FALSE
