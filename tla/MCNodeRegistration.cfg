SPECIFICATION FairSpec
CONSTANTS
    na = na  nb = nb  ca = ca
    Nodes = {na, nb}
    Calls = {ca, cb}
    MaxSubnets = 2
    Callers <- MCCallers
    MaxLives <- MCMaxLives
    Unreliable = TRUE
    None = None
    eth = eth  wlan = wlan
    Wanted = None
    AddressGiven = {na}
    RouteLists <- MCRouteLists
INVARIANTS
    SubnetsDisjoint
    ServingMeansReady
    NoOldRules
PROPERTIES
    ServingNodeStays
    CallsEnd
CHECK_DEADLOCK FALSE
