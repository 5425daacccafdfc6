SPECIFICATION Spec
CONSTANTS
    Conn = {h1, h2, h3}
    Timer = {t1, t2}
    None = None
    MaxCalls = 2
    MayReject = TRUE
    MayReconnect = TRUE
    MayThrowForeign = TRUE
    MayAnswerLate = FALSE
SYMMETRY Symmetry
INVARIANTS
    TypeOK
    CallOrder
    CallsAccounted
    FlagsMirrorHandle
    TimerNotDangling
PROPERTIES
    KeepsLedger
CHECK_DEADLOCK FALSE
