SPECIFICATION FairSpec
CONSTANTS
    p1 = p1
    p2 = p2
    User = User
    Local = Local
    Unset = Unset
    None = None
    Platforms = {"windows", "linux", "darwin"}
    Ports = {p1, p2}
    UserSettings <- MCUserSettings
    MaxCalls = 2
    MaxFaults = 1
    MaxCrashes = 1
INVARIANTS
    NeverLost
    RestoreOwed
    NotLeftAtDeadListener
PROPERTIES
    StopRestoresFirst
    CrashRepaired
