SPECIFICATION LifeSpec
CONSTANTS
    N = 3
    MaxPid = 4
    KillTargets = {0, 3}
INVARIANTS ParentsLive NoLostExit
PROPERTIES IsProcTree
