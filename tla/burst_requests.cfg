\* getReqNum and updateAddrVec agree and cover the burst.
CONSTANTS
    burstLen = 8
    MaxWidth = 10
    Addrs <- SmallAddrs
    Lengths <- SmallLengths
    Graphs <- SmallGraphs
    count <- SmallOrganization
    prefetch_size = 8
    channel_width = 8
    MaxBits = 8
SPECIFICATION BurstSpec
INVARIANTS RequestsMatch BurstCovered PlacesDistinct 
\* A burst is cut once.
CHECK_DEADLOCK FALSE
