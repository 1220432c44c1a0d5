SPECIFICATION SyncSpec
CONSTANTS
    Callers = {c1, c2}
    SyncRequests <- MCSyncRequests
    HeightBits = 2
    CountBits = 4
    BlockBytes = 2
    MaxStored = 2
INVARIANTS
    OneWalk
    LastIsTruthful
    QuotaHolds
    CompleteCounts
PROPERTY
    StartReturns
