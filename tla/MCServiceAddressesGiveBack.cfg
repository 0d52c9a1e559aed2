CONSTANTS
    Names = {n1}
    Ids = {id1}
    Instances = {i1}
    Rows <- RowsOfPools
    Columns <- ColumnsOfPools
    CustomIps <- NoCustomIps
    MaxCopies = 2
    NoJob = NoJob
    NoIp = NoIp
    Length = 2
SPECIFICATION ServiceSpec
INVARIANT AddressGiveBackAccepted
CHECK_DEADLOCK FALSE
