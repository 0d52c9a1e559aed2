CONSTANTS
    Jobs = {j1, j2}
    Sips = {s1}
    Owner = j1
    JobOf <- MCJobOf
    SipList <- MCSipList
    Requests = {r1, r2}
    MaxVersion = 1
    Lossy = TRUE
    None = None
SPECIFICATION FairSpec
INVARIANTS WaiterStaysRegistered AnswerIsAboutTheKey
PROPERTIES CallsReturn OnlyLossBlocksKeys
CHECK_DEADLOCK FALSE
