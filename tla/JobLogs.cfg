\* Two lines in two runs, one crash.
SPECIFICATION Spec
CONSTANTS
    None = None
    Text = {"x", "y", "z"}
    NL = NL
    CR = CR
    Chunks <- MCChunks
    MaxLines = 2
    MaxRuns = 2
    MaxCrashes = 1
INVARIANTS
    CollectionFollowsRows
    ScreenShowsLog
    LaterLinesAreKept
\* A job that is over, and whose page nobody opens, sees no further event.
CHECK_DEADLOCK FALSE
