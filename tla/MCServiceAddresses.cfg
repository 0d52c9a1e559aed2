CONSTANTS
    Names = {n1, n2}
    Ids = {id1, id2}
    Instances = {i1, i2}
    Rows <- RowsOfPools
    Columns <- ColumnsOfPools
    CustomIps <- CustomAddresses
    MaxCopies = 2
    NoJob = NoJob
    NoIp = NoIp
    Length = 2
SPECIFICATION ServiceSpec
SYMMETRY Symmetry
INVARIANTS AddressOwnedOnce OfferedIsUnused
CHECK_DEADLOCK FALSE
