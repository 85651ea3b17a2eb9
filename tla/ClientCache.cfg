\* Two branches, pages of one build, a cache of two entries.
SPECIFICATION Spec
CONSTANTS
    Branches = {b1, b2}
    All = All
    PageSize = 1
    Capacity = 2
    Requests = {r1, r2}
    MaxWrites = 3
    Opened = {1}
    None = None
SYMMETRY Symmetry
VIEW View
INVARIANTS
    NewestFirst
    CacheFollowsServer
