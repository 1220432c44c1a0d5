SPECIFICATION ExecSpec
CONSTANTS
    k1 = k1
    k2 = k2
    v1 = v1
    v2 = v2
    NoKey = NoKey
    Unlocked = Unlocked
    KeyOrder <- MCKeyOrder
    Values = {v1, v2}
    Batchers = {c1, c2}
    Batches <- MCBatches
    VersionHeights = {1, 2}
    MaxGas = 4
    MaxTxGas = 3
PROPERTIES
    AllOrNothing
    BatchReturns
