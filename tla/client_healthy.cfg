SPECIFICATION LoopSpec
CONSTANTS
    Conn = {h1, h2}
    Timer = {t1, t2}
    None = None
    MaxCalls = 2
    MayReject = FALSE
    MayReconnect = FALSE
    MayThrowForeign = TRUE
    MayAnswerLate = TRUE
INVARIANTS
    SingleAttempt
    OwnHandlersNeverThrow
PROPERTIES
    StopWindsDown
    KeepsTrying
    QueueDrains
CHECK_DEADLOCK FALSE
