SPECIFICATION Spec
CONSTANTS
    bg = bg
    ui = ui
    None = None
    Callers = {bg, ui}
    Background = bg
    Releases <- MCReleases
    Shipped <- MCShipped
    Reuploaded <- MCReuploaded
    MaxBuild = 2
CHECK_DEADLOCK FALSE
INVARIANTS
    InstalledVerified
PROPERTIES
    NeverBackwards
