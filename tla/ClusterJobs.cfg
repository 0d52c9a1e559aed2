SPECIFICATION FairSpec
CONSTANTS
    Instances = {1, 2}
    Workers = {wa, wb}
    Addrs = {a1}
    Threads = {ta, tb}
    QueryKinds = {"name", "address"}
    MaxRequests = 4
    MaxRestarts = 1
    RootFails = TRUE
    None = None
INVARIANTS
    InterestedOnce
    UnfilledIsBeingFilled
PROPERTIES
    RootForgetsOnlyUnwanted
    DeploymentsAnnounced
    HttpRequestsEnd
CHECK_DEADLOCK FALSE
