SPECIFICATION Spec
CONSTANTS
    N = 4
    End <- MCEnd
INVARIANTS
    HelloFirst
    ChunkingIndependent
CHECK_DEADLOCK FALSE
