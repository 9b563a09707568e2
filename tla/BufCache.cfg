SPECIFICATION Spec
CONSTANTS
  N = 2
  Bufs = {b1, b2, b3}
  NUMs = {5, 6}
  Blocks = {k1, k2, k3, k4}
  Vals = {v0, v1}
  MaxLogged = 1
  Writers = {1}
  Killable = {1}
SYMMETRY Symmetry
INVARIANTS Inv ReadsLatest DeviceOwnsBuffer NoLostCompletion
