SPECIFICATION RecordSpec
CONSTANTS
    x1 = x1
    x2 = x2
    x3 = x3
    NoAddress = NoAddress
    PowerBits = 4
    Genesis <- MCGenesis
    Rotations <- MCRotations
    RoundHeight = 1
    MaxView = 1
    MaxRotation = 3
    ViewBits = 4
    Signers = {x1, x2}
    Proposed = {b1}
    EvidenceIDs = {e1, e2}
    MaxEvidence = 1
INVARIANTS
    AtIsLatest
    ProposersRotate
PROPERTY
    RecordsStay
