SPECIFICATION Spec
CONSTANTS
    Recorders = {r1}
    Samples = {s1}
    Uses <- IdlesOnly
    MaxPhase = 1
    Free = Free
SYMMETRY Symmetry
INVARIANT ReaderNotStranded
