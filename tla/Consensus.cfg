SPECIFICATION EngineSpec
CONSTANTS
    x1 = x1
    x2 = x2
    x3 = x3
    other = other
    NoAddress = NoAddress
    PowerBits = 4
    Networks <- MCNetworks
    Voters = {x1, x2, x3, other}
    MaxRound = 1
INVARIANTS
    VotesOfRound
    
    QuorumIsTwoThirds
