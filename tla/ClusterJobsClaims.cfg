SPECIFICATION Spec
CONSTANTS
    Instances = {1}
    Workers = {wa, wb}
    Addrs = {a1}
    Threads = {ta}
    QueryKinds = {"name", "address"}
    MaxRequests = 6
    MaxRestarts = 0
    RootFails = FALSE
    None = None
INVARIANTS OneEntryPerInstance CachedListIsComplete InterestReachesRoot HandlerSurvives
CHECK_DEADLOCK FALSE
