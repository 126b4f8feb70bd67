\* TLDRAM: a write counted twice and completed at a time nobody assigned.
CONSTANTS
    burstLen = 2
    MaxWidth = 10
    PNUM = 1
    None = None
    ReadPort <- NoPort
    Work <- WritesOnly
    Ratio = 2
    QueueMax = 2
    ReadLatency = 2
    TLDRAM = TRUE
SPECIFICATION Spec
INVARIANT ResponsesInOrder
