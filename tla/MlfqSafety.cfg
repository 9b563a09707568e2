SPECIFICATION Spec
CONSTANTS
    N = 2
    NCpu = 2
    Last = 2
    Slice <- MCSlice
    BoostPeriod = 3
    TickWrap = 5
    TickInScan = TRUE
INVARIANTS OneCpu LockOrder SliceBound ScanPicksBest PreemptionHonoured
