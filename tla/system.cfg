SPECIFICATION Spec
CONSTANTS
    Script <- TwoRequests
    MaxFaults = 2
    H = H
    T = T
    None = None
INVARIANTS
    NoAbort
    AnswersAwaited
    InFlight
    ExecutedInOrder
PROPERTIES
    ForwardCalls
    BackwardCalls
    CallsComplete
    CallbacksComplete
CHECK_DEADLOCK FALSE
