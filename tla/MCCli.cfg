SPECIFICATION FairSpec
CONSTANTS
    u = u
    t = t
    None = None
    MaxFails = 1
    Queries = {u, t}
    Proto <- MCProto
    IdOf <- MCIdOf
    Ids = {i1, i2}
    i1 = i1
    i2 = i2
    Modes = {"resolve", "proxy", "run"}
CHECK_DEADLOCK FALSE
PROPERTIES
    UDPDrained
    EndsAsAWhole
    QueriesAnswered
