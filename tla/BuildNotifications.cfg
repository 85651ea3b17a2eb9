\* One build under two concurrent requests about subscriptions.
SPECIFICATION Spec
CONSTANTS
    Builds <- One
    BranchOf <- TwoOnMaster
    Users = {ann, bob}
    Requests = {r1, r2}
    Loyal = {ann}
    MaxRestarts = 1
    MaxInterruptions = 1
    MaxQueue = 3
    None = None
SYMMETRY Symmetry
INVARIANTS
    ServiceShowsStatus
    OneMailPerVerdict
PROPERTIES
    AuthorsAreNotResubscribed
CHECK_DEADLOCK FALSE
