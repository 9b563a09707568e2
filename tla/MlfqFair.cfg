SPECIFICATION FairSpec
CONSTANTS
    N = 3
    NCpu = 1
    Last = 2
    Slice <- MCSlice
    BoostPeriod = 3
    TickWrap = 5
    TickInScan = FALSE
PROPERTIES NoStarvation
