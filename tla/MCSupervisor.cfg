SPECIFICATION FairSpec
CONSTANTS
    Empty = Empty
    Malformed = Malformed
    Settings <- MCSettings
    Modes = {"proxy", "resolve"}
    Proxies = {"http"}
    MaxStarts = 2
    MaxFails = 1
CHECK_DEADLOCK FALSE
INVARIANTS
    ShownIsLive
    StatusIsOfThisSet
    OnlyThisSetAccepts
    BindFailureLeavesNothing
PROPERTIES
    StopIsNoFailure
    ProxyPortsReleased
    FirstExitStopsBoth
