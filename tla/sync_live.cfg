SPECIFICATION FairSpec
CONSTANTS
    Recorders = {r1, r2}
    Samples = {s1}
    Uses <- TimedUses
    MaxPhase = 2
    Free = Free
CHECK_DEADLOCK FALSE
INVARIANT ReaderNotStranded
PROPERTIES RefreshReturns WriteReturns VisibilitySpec
