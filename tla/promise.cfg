SPECIFICATION Spec
CONSTANTS
    MaxPromises = 5
INVARIANTS
    AtMostOnce
    ExactlyOnce
CHECK_DEADLOCK FALSE
