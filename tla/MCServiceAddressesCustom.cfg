CONSTANTS
    Names = {n1, n2}
    Ids = {id1, id2}
    Instances = {i1}
    Rows <- RowsOfPools
    Columns <- ColumnsOfPools
    CustomIps <- InsideThePool
    MaxCopies = 2
    NoJob = NoJob
    NoIp = NoIp
    Length = 3
SPECIFICATION ServiceSpec
INVARIANT EveryAddressOwnedOnce
CHECK_DEADLOCK FALSE
