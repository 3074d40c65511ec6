SPECIFICATION Spec
CONSTANTS
    W = 4
    Base = 2
    MaxSig = 1
    CounterMax = 15
    ChunkBits = 1
    MaxBytes = 3
    Hists <- AllHists
    Later <- LaterHists
    Formats <- BothFormats
    ReadMax = 4
    MaxUses = 2
CHECK_DEADLOCK FALSE
INVARIANTS TypeOK RoundTrip CutOffRejected AcceptedConsistent BufferSuffices
