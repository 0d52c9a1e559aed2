CONSTANTS
    Containers = {c1, c2}
    Unikernels = {}
    Undeployers = {u1}
    LimitV4 = 3
    LimitV6 = 3
    MaxRequests = 4
    MaxPortFaults = 0
    MaxRestarts = 0
    NoAddr = NoAddr
    NoService = NoService
    BadName = BadName
SPECIFICATION Spec
INVARIANT AddressesDiffer
CHECK_DEADLOCK FALSE
