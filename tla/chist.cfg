SPECIFICATION Spec
CONSTANTS
    W = 5
    Base = 2
    MaxSig = 1
    CounterMax = 31
    Inputs <- AllInputs
    MsTicks = 2
    MaxI64 = 7
CHECK_DEADLOCK FALSE
INVARIANTS
    TypeOK EachRecordOnce RowsInTimeOrder RowsAddUp
    FailureExplained RowsCorrespond WarnsIffIrregular
