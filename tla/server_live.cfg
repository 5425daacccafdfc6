SPECIFICATION FairSpec
CONSTANTS
    Conn = {c1, c2}
    Request = {r1}
    MaxCalls = 1
    None = None
    Async = TRUE
    MayThrowForeign = TRUE
    FactoryMayThrow = TRUE
PROPERTY StopWindsDown
CHECK_DEADLOCK FALSE
