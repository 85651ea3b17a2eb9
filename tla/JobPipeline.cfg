\* A regular job, a deploy job behind it and two restarts; one crash of the
\* consumer, at any point of its work on a message.  With the second restart
\* an answer that a crash lets in twice reaches a run after the next.
CONSTANTS
    Regular = {r1}
    Deploy = {d1}
    Requests = {q1}
    MaxRuns = 3
    Consumers = {c1}
    MaxCrashes = 1
    None = None
SPECIFICATION PipelineSpec
INVARIANTS
    OutcomesReported
    DeployAfterSuccess
PROPERTIES
    EveryRunEnds
\* A build that was rolled back, or is over, may see no further event.
CHECK_DEADLOCK FALSE
