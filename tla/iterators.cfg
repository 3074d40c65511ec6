SPECIFICATION Spec
CONSTANTS
    W = 4
    Base = 2
    MaxSig = 1
    CounterMax = 15
    Hists <- AllHists
    Kinds <- AllKinds
    StepSizes = {1, 2, 3, 5, 9}
    LogBase = 2
    Ticks = 2
    Halvings = 3
CHECK_DEADLOCK FALSE
INVARIANTS
    TypeOK EverySampleOnce StepsAreCumulative QuantilesReached SlotsTile
PROPERTY Terminates
