SPECIFICATION Spec
CONSTANTS
    W = 4
    Base = 2
    MaxSig = 1
    CounterMax = 7
    Names = {a, b}
    Precision = 8
    Clients <- ZeroingClients
SYMMETRY Symmetry
CHECK_DEADLOCK FALSE
INVARIANT MinNzDescribes
