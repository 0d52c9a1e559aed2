CONSTANTS
    Jobs = {j1, j2}
    Addresses = {n1, n2}
    MaxLength = 4
    NoLoop = NoLoop
SPECIFICATION TableSpec
INVARIANTS LoopInRange RemovalIsExact
