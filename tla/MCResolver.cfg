SPECIFICATION FairSpec
CONSTANTS
    c1 = c1
    c2 = c2
    c3 = c3
    a1 = a1
    x = x
    y = y
    z = z
    Callers = {c1, c2, c3}
    Names = {"X", "x", "y", "z"}
    Keys = {x, y, z}
    KeyOf <- MCKeyOf
    Asks <- MCAsks
    Addrs = {a1}
    TTLs = {5}
    MinTTL = 1
    MaxTTL = 1
    MaxCacheEntries = 2
    MaxClock = 1
CHECK_DEADLOCK FALSE
INVARIANTS
    SingleFlight
    FollowerGetsAnswer
    CacheBounded
PROPERTIES
    ContractSpec
    EvictsLiveOnlyWhenFull
    EveryCallReturns
