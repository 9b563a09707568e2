CONSTANTS
  N = 2
  PGSIZE = 2
  FANOUT = 2
  MAXARG = 1
  Deltas <- MCDeltas
  Images <- MCImages
  Workloads <- MCWorkloads
SPECIFICATION Spec
INVARIANTS Inv OwnedOnce
PROPERTIES ForkCopies ExecKeepsOld
