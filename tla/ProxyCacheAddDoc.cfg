CONSTANTS
    SrcPorts = {p1}
    DstPorts = {1, 2, 3}
    SrcIps = {c1, c2}
    InstanceIps = {i1}
    ServiceIps = {s1, s2}
    NsIps = {n1}
    MaxSize = 3
    Timeout = 1
    NilIp = NilIp
    NilList = NilList
    NotUsed = NotUsed
SPECIFICATION CacheSpec
PROPERTY AddUpdatesOwnFlowOnly
