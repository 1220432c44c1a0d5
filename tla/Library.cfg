SPECIFICATION LibrarySpec
CONSTANTS
    x1 = x1
    x2 = x2
    h1 = h1
    h2 = h2
    h3 = h3
    h4 = h4
    h5 = h5
    w1 = w1
    w2 = w2
    c1 = c1
    c2 = c2
    b1 = b1
    b2 = b2
    NoName = NoName
    NoWorker = NoWorker
    NoPeerID = NoPeerID
    NoRoute = NoRoute
    Known <- MCKnown
    TopHeight = 3
    BlockTxs <- MCBlockTxs
    MaxChain = 3
    Workers = {w1, w2, NoWorker}
    Reservable = {x1, x2}
    PeerIDs = {c1, NoPeerID}
    Scores <- MCScores
    Penalties = {3, 4}
    BanBelow <- MCBanBelow
    ScoreBits = 4
    MaxCalls = 4
    AddressLists <- MCAddressLists
    Simulations = {b1, b2}
    MaxDrops = 1
    SnapshotIDs = {c1, c2}
    EntryKeys <- MCEntryKeys
    EntryValues <- MCEntryValues
    Source <- MCSource
    MaxCatalog = 2
    MaxSnapshots = 3
    MaxWrites = 3
    Base = 16
    StringSize = 1
    NumberSize = 3
    CountSize = 2
    FrameSize = 2
    MaxBytes = 46
    WireTxs <- MCWireTxs
    WireBlocks <- MCWireBlocks
    MaxFrames = 2
CHECK_DEADLOCK FALSE
INVARIANTS
    LookupsAgree
    RollbackKeepsChain
    ReservationExclusive
    BanHolds
    MessagesInOrder
    CatalogVerdict
    WireFaithful
