SPECIFICATION Spec
CONSTANTS
    u = u
    t = t
    None = None
    MaxFails = 1
    Queries = {u, t}
    Proto <- MCProto
    IdOf <- MCIdOf
    Ids = {i1, i2}
    i1 = i1
    i2 = i2
    Modes = {"proxy"}
CHECK_DEADLOCK FALSE
INVARIANTS
    TunnelsClosedAtExit
