SPECIFICATION PoolSpec
CONSTANTS
    a1 = a1
    a2 = a2
    i1 = i1
    i2 = i2
    i3 = i3
    k = k
    v = v
    NoID = NoID
    Txs <- MCTxs
    TxIDs <- MCTxIDs
    Accounts = {a1, a2}
    Nonces = {0, 1}
    MaxPool = 2
    TicksPerSecond = 2
    MaxTime = 6
INVARIANTS
    PoolTypeOK
    IndexAgrees
    PoolBounded
PROPERTIES
    FeeOnlyRises
    ExpireCoversList
    ImplementsSlotPool
