SPECIFICATION Spec
CONSTANTS
    Recorders = {r1, r2}
    Samples = {s1, s2}
    Uses <- AllUses
    MaxPhase = 2
    Free = Free
SYMMETRY Symmetry
CHECK_DEADLOCK FALSE
INVARIANTS TypeOK RecordersCounted SamplesConserved DropsVisible
