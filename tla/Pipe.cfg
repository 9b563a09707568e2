SPECIFICATION Spec
CONSTANTS
    N = 3
    Readers = {1}
    Writers = {2, 3}
    Killable = {1, 2}
    PIPESIZE = 2
    Wrap = 4
    Bytes = {0, 1}
    MaxLen = 3
INVARIANTS Inv Awake
PROPERTIES IsFifo
