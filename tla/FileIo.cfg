CONSTANTS
  N = 2
  NFILE = 2
  NOFILE = 2
  Inodes = {1, 2}
  ConsoleInode = 3
  NDIRECT = 1
  NINDIRECT = 2
  BSIZE = 2
  Blocks = {1, 2, 3, 4}
  BPB = 2
  MAXOPBLOCKS = 6
  MaxBytes = 4
  INPUT_BUF_SIZE = 2
  Wrap = 4
  Keys = {"a", "nl", "^D", "^H", "^U"}
  BATCH = 1
  MaxLen = 2
  MaxTyped = 1
  Workloads <- MCWorkloads
SPECIFICATION Spec
INVARIANTS Inv SharedOffset ConsoleAwake
PROPERTIES IsByteFile IsTty
