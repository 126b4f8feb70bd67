\* Bursts are answered once and in order, whatever the controller does.
CONSTANTS
    burstLen = 2
    MaxWidth = 10
    PNUM = 2
    None = None
    ReadPort <- FirstPort
    Work <- ReadsAndWrites
    Ratio = 2
    QueueMax = 2
    ReadLatency = 2
    TLDRAM = FALSE
SPECIFICATION FairSpec
INVARIANTS TypeOK EveryRequestCounted NoEarlyAnswer
PROPERTIES ServesThePe AllAnswered
