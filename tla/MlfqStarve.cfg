SPECIFICATION CpuBoundSpec
CONSTANTS
    N = 4
    NCpu = 1
    Last = 2
    Slice <- MCSlice
    BoostPeriod = 2
    TickWrap = 2
    TickInScan = FALSE
PROPERTIES NoStarvation
