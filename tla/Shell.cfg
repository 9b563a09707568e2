SPECIFICATION Spec
CONSTANTS
    MaxPid = 3
    MAX_JOBS = 2
    Pipelines <- MCPipelines
INVARIANTS Inv TerminalBack JobsKnown PipeEnds
