SPECIFICATION NodeSpec
CONSTANTS
    a1 = a1
    a2 = a2
    i1 = i1
    i2 = i2
    i3 = i3
    k1 = k1
    k2 = k2
    v1 = v1
    v2 = v2
    NoID = NoID
    NoKey = NoKey
    Nobody = Nobody
    Posted <- MCPosted
    Txs <- MCTxs
    TxIDs = {i1, i2, i3}
    RandomIDs = {i3}
    Accounts = {a1, a2}
    Nonces = {0}
    KeyOrder <- MCKeyOrder
    Values = {v1, v2}
    Submits = {s1, s2, s3}
    Mines = {m1, m2}
    Snapshots = {}
    Verifies = {}
    ProofReads = {}
    MaxPool = 2
    TicksPerSecond = 1
    MaxTime = 2
SYMMETRY MCSymmetry
INVARIANTS
    StateMatchesChain
    ChainVerifies
    CommitTrail
    NothingLost
    NoDoubleCommit
