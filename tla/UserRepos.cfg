SPECIFICATION Spec
CONSTANTS
    Windows = {w1, w2}
    Companies = {c1, c2}
    Repos = {e1, e2}
    Names = {a, b}
    MaxProjects = 2
    MaxRequests = 3
    None = None
SYMMETRY Symmetry
INVARIANTS
    SwitchOfOwnProject
    OneHookAtMost
    ProjectsListen
PROPERTIES
    SyncMirrorsService
    ProjectsAreKept
CHECK_DEADLOCK FALSE
