SPECIFICATION FairSpec
CONSTANTS
    c1 = c1
    c2 = c2
    k1 = k1
    k2 = k2
    Conns = {c1, c2}
    Closers = {k1, k2}
    Kinds <- MCKinds
CHECK_DEADLOCK FALSE
INVARIANTS
    NoDoomedConnServed
    NoSocketLeaks
    DrainedIsQuiet
PROPERTIES
    NoAddDuringWait
    ListenerReleased
    TunnelsEnd
