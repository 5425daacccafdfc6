SPECIFICATION Spec
CONSTANTS
    Process = {p1, p2, p3}
    Path = {u1, u2}
    Port = {t1}
    None = None
SYMMETRY Symmetry
INVARIANTS
    ListenersReachable
    CleanRestartListens
    CrashCostsItsPaths
CHECK_DEADLOCK FALSE
