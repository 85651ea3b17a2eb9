\* Two builds of a branch, under fairness.
SPECIFICATION FairSpec
CONSTANTS
    Builds <- Two
    BranchOf <- TwoOnMaster
    Users = {ann}
    Requests = {}
    Loyal = {ann}
    MaxRestarts = 1
    MaxInterruptions = 1
    MaxQueue = 1
    None = None
INVARIANTS
    SubscribersKnowTheVerdict
PROPERTIES
    RedReachesSubscribers
CHECK_DEADLOCK FALSE
