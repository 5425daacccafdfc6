SPECIFICATION Spec
CONSTANTS
    Base = 4
    LengthWidth = 1
    Table <- MCTable
    Messages <- MCMessages
    Frames <- MCFrames
    Values <- MCValues
    MaxChanges = 2
INVARIANTS
    RoundTrip
    Canonical
    SelfDelimiting
    FrameSpellsLength
    SignatureAgrees
CHECK_DEADLOCK FALSE
