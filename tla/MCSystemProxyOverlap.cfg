SPECIFICATION Spec
CONSTANTS
    p1 = p1
    p2 = p2
    User = User
    Local = Local
    Unset = Unset
    None = None
    Platforms = {"windows", "linux", "darwin"}
    Ports = {p1, p2}
    UserSettings <- MCUserSettings
    MaxCalls = 2
    MaxFaults = 0
    MaxCrashes = 0
INVARIANTS
    NeverAtDeadListener
