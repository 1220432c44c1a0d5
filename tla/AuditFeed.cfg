SPECIFICATION FeedSpec
CONSTANTS
    Writers = {w1, w2}
    SubscriberIDs = {u1, u2}
    ChanCap = 1
    Secret = Secret
    MaxRecords = 3
    MaxChans = 3
    Idle = Idle
SYMMETRY MCSymmetry
CHECK_DEADLOCK FALSE
INVARIANTS
    PollSeesAll
    FeedHasNoGaps
