\* Two transactions, two branches, up to three builds.
CONSTANTS
    Transactions = {t1, t2}
    Branches = {master, topic}
    MaxBuilds = 3
    Configurations <- SomeConfigurations
    None = None
SPECIFICATION FairSpec
INVARIANTS
    NumbersContiguous
    NumberStaysFree
    EveryBuildHasJobs
    JobNumbersDistinct
PROPERTIES
    ImplementsLog
    RebuildEnds
