SPECIFICATION Spec
CONSTANTS
    na = na  nb = nb  ca = ca
    Nodes = {na}
    Calls = {ca, cb}
    MaxSubnets = 3
    Callers <- MCCallers
    MaxLives <- MCMaxLives
    Unreliable = TRUE
    None = None
    eth = eth  wlan = wlan
    Wanted = None
    AddressGiven = {na}
    RouteLists <- MCRouteLists
INVARIANTS RecordIsUsed InitializedOnce RegisteredIsInitialized
CHECK_DEADLOCK FALSE
