SPECIFICATION FairSpec
CONSTANTS
    Empty = Empty
    Malformed = Malformed
    Settings = {}
    Modes = {"resolve"}
    Proxies = {"http", "socks"}
    MaxStarts = 1
    MaxFails = 0
CHECK_DEADLOCK FALSE
PROPERTIES
    StopTearsDownAll
