-------------------------------- MODULE Repo --------------------------------
(***************************************************************************)
(* repository.Repo (internal/repository/repo.go, retention.go): the        *)
(* committed blocks by height and the state snapshots by ID.  Every method *)
(* holds r.mu throughout and copies what it stores and returns.            *)
(***************************************************************************)
EXTENDS ChainDomain, FiniteSets, GoMap

VARIABLES
    blocks,     \* Repo.blocks: height -> block
    snaps       \* Repo.snaps: ID -> snapshot

\* PutBlock(b) == nil: the height is free.
HeightFree(b) == b.Header.Height \notin DOMAIN blocks

PutBlock(b) ==
    blocks' = IF HeightFree(b) THEN MapPut(blocks, b.Header.Height, b)
              ELSE blocks

\* The block of the greatest height, the zero Block where there is none.
Latest ==
    LET stored == {blocks[h] : h \in DOMAIN blocks}
        highest == {b \in stored :
                      /\ b.Header.Height > 0
                      /\ \A c \in stored : c.Header.Height <= b.Header.Height}
    IN IF highest = {} THEN ZeroBlock ELSE CHOOSE b \in highest : TRUE

PutSnapshot(s) == snaps' = MapPut(snaps, s.ID, s)

\* VerifyChain() == nil
VerifyChain ==
    \A h \in 1..Cardinality(DOMAIN blocks) :
        /\ h \in DOMAIN blocks
        /\ ValidateBlock(blocks[h], IF h = 1 THEN ZeroBlock ELSE blocks[h-1])

RepoInit == blocks = EmptyMap /\ snaps = EmptyMap
=============================================================================
