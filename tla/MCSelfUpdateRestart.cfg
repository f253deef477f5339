SPECIFICATION Spec
CONSTANTS
    bg = bg
    ui = ui
    None = None
    Callers = {bg, ui}
    Background = bg
    Releases <- MCReleases
    Shipped <- MCShipped
    Reuploaded = {}
    MaxBuild = 1
CHECK_DEADLOCK FALSE
INVARIANTS
    NotIntoNothing
