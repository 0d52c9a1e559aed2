CONSTANTS
    Containers = {c1}
    Unikernels = {k1}
    Undeployers = {u1}
    LimitV4 = 3
    LimitV6 = 3
    MaxRequests = 2
    MaxPortFaults = 1
    MaxRestarts = 1
    NoAddr = NoAddr
    NoService = NoService
    BadName = BadName
SPECIFICATION Spec
INVARIANTS RulesLeadHome UnikernelHasNat
CHECK_DEADLOCK FALSE
