CONSTANTS
    c1 = c1  c2 = c2  n2 = n2
    i1 = i1  i2 = i2  i3 = i3  i4 = i4
    s1 = s1  s2 = s2
    remote = remote
    SrcPorts = {1}
    DstPorts = {0, 1}
    SrcIps = {c1, c2}
    InstanceIps = {i1, i2, i3, i4}
    ServiceIps = {s1, s2}
    NsIps = {c1, c2, n2}
    MaxSize = 1
    Timeout = 0
    NilIp = NilIp
    NilList = NilList
    NotUsed = NotUsed
    Traffic <- MCTraffic
    Arriving <- MCArriving
    Empty = Empty
    Entries <- MCEntries
    LocalNode = local
    Nodes = {local, remote}
    InCap = 1
    MaxAttempts = 1
    None = None
SPECIFICATION FairSpec
INVARIANTS SendsOnlyToInstances AnswersFollowLastDestination
PROPERTY PacketsAreDealtWith
