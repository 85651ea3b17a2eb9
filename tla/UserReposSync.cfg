SPECIFICATION Spec
CONSTANTS
    Windows = {w1}
    Companies = {c1}
    Repos = {e1, e2}
    Names = {a, b}
    MaxProjects = 1
    MaxRequests = 3
    None = None
SYMMETRY Symmetry
PROPERTIES
    SyncKeepsProjects
CHECK_DEADLOCK FALSE
