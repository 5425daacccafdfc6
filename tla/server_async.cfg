SPECIFICATION Spec
CONSTANTS
    Conn = {c1, c2}
    Request = {r1, r2}
    MaxCalls = 1
    None = None
    Async = TRUE
    MayThrowForeign = TRUE
    FactoryMayThrow = TRUE
SYMMETRY Symmetry
INVARIANTS
    FlagsMirrorHandles
    RequestsAccounted
    OnlyEstablishedAreServed
    PeerCallsAccounted
CHECK_DEADLOCK FALSE
