SPECIFICATION LockSpec
CONSTANT N = 4
INVARIANTS Exclusion NoLostWakeup
PROPERTIES IsMutex
