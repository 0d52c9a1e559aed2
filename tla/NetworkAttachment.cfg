CONSTANTS
    Containers = {c1}
    Unikernels = {k1}
    Undeployers = {u1}
    LimitV4 = 3
    LimitV6 = 3
    MaxRequests = 3
    MaxPortFaults = 1
    MaxRestarts = 1
    NoAddr = NoAddr
    NoService = NoService
    BadName = BadName
SPECIFICATION FairSpec
INVARIANTS AddressAccounting DeployedPortsOpen PortsFollowEntries
    StrayRulesAreBeingClosed NothingLeftBehind
PROPERTY RequestsEnd
CHECK_DEADLOCK FALSE
