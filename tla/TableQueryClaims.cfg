CONSTANTS
    Jobs = {j1}
    Sips = {s1}
    Owner = j1
    JobOf <- MCJobOf
    SipList <- MCSipList
    Requests = {r1, r2}
    MaxVersion = 1
    Lossy = TRUE
    None = None
SPECIFICATION FairSpec
INVARIANT AnswerIsFresh
PROPERTY KeysAreReleased
CHECK_DEADLOCK FALSE
