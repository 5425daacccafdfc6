SPECIFICATION Spec
CONSTANTS
    Conn = {c1, c2}
    Request = {r1, r2}
    MaxCalls = 1
    None = None
    Async = FALSE
    MayThrowForeign = TRUE
    FactoryMayThrow = TRUE
SYMMETRY Symmetry
INVARIANT OwnHandlersNeverThrow
CHECK_DEADLOCK FALSE
