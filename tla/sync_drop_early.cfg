SPECIFICATION Spec
CONSTANTS
    Recorders = {r1, r2}
    Samples = {s1}
    Uses <- DropsOnly
    MaxPhase = 1
    Free = Free
SYMMETRY Symmetry
CHECK_DEADLOCK FALSE
INVARIANT RefreshComplete
