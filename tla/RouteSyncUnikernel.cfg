CONSTANTS
    n1 = n1
    n2 = n2
    unikernel = unikernel
    Nsips = {n1, n2, unikernel}
    Lists <- MCLists
    Reported <- MCReported
    Locals = {unikernel}
    Refreshers = {r1, r2}
    MaxEvents = 3
    None = None
SPECIFICATION Spec
SYMMETRY Symmetry
INVARIANT LocalServicesHaveEntries
CHECK_DEADLOCK FALSE
