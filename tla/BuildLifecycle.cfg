\* Two regular jobs and two deploy jobs behind them, three runs, two requests.
CONSTANTS
    Regular = {r1, r2}
    Deploy = {d1, d2}
    Requests = {q1, q2}
    MaxRuns = 3
SPECIFICATION Spec
SYMMETRY Symmetry
INVARIANTS
    VerdictIffSettled
    PassedMeansAllPassed
    RedMeansWorst
    DeployGate
    HistoryOncePerRun
    VerdictAnnouncedOnce
PROPERTIES
    RestartOnlyWhenSettled
    FinishedLogsKept
    ImplementsContract
