SPECIFICATION MCSpec
CONSTANTS
    N = 3
    Blocks = {b1, b2, b3, b4}
    Spare = {b4}
    Vals = {v0, v1}
    LOGBLOCKS = 4
    MAXOPBLOCKS = 2
    OpBlocks = 2
    CanCrash = TRUE
    Killable = {1}
SYMMETRY Symmetry
INVARIANTS Inv LogAwake SyncDurable
PROPERTIES IsAtomicDisk
