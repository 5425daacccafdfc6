SPECIFICATION Spec
CONSTANTS
    Conn = {h1, h2}
    Timer = {t1, t2}
    None = None
    MaxCalls = 1
    MayReject = TRUE
    MayReconnect = FALSE
    MayThrowForeign = FALSE
    MayAnswerLate = FALSE
INVARIANTS
    RefusalNotFatal
CHECK_DEADLOCK FALSE
