SPECIFICATION Spec
CONSTANTS
    N = 2
    Inodes = {1, 2, 3}
    Names = {"a", "b"}
    Workloads <- MCWorkloads
INVARIANTS Inv LinksExact LocksDown NoOrphan
