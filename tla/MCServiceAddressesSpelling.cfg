CONSTANTS
    Names = {n1, n2}
    Ids = {id1, id2}
    Instances = {i1}
    Rows <- RowsOfPools
    Columns <- ColumnsOfPools
    CustomIps <- TwoSpellings
    MaxCopies = 2
    NoJob = NoJob
    NoIp = NoIp
    Length = 2
SPECIFICATION ServiceSpec
INVARIANT EveryAddressOwnedOnce
CHECK_DEADLOCK FALSE
