SPECIFICATION ProofSpec
CONSTANTS
    KeyOrder <- MCKeyOrder
    NoKey <- MCNoKey
    NoProof = NoProof
    Values <- MCValues
INVARIANTS
    ProofVerifies
    HeldProofBinds
