SPECIFICATION Spec
CONSTANTS
    W = 5
    Base = 2
    MaxSig = 1
    CounterMax = 31
    Inputs <- ApartInputs
    MsTicks = 2
    MaxI64 = 7
CHECK_DEADLOCK FALSE
INVARIANT EveryRowCorresponds
