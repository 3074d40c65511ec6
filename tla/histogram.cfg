SPECIFICATION Spec
CONSTANTS
    W = 4
    Base = 2
    MaxSig = 1
    CounterMax = 7
    Names = {a, b}
    Precision = 8
    Clients <- AllClients
SYMMETRY Symmetry
CHECK_DEADLOCK FALSE
INVARIANTS
    TypeOK NeverPanics StatsMatchCounts
    AddThenSubtract CopiesAreEqual  CorrectionCommutes
