----------------------------- MODULE Retention -----------------------------
(***************************************************************************)
(* The repository when the chain is cut and grows again (retention.go):    *)
(* blocks are put on the latest one, as mine does, and DeleteAbove is      *)
(* called for a valid RollbackPlan.  Both are critical sections of opMu:   *)
(* DeleteAbove has no caller in the repository, and would leave a gap      *)
(* between the two steps of mine that read the latest block and store one. *)
(***************************************************************************)
EXTENDS Repo

CONSTANTS
    BlockTxs,   \* the transactions of a block, as sequences
    MaxChain    \* bound on the height of the chain

ASSUME ChainBoundAssumption == MaxChain \in Nat

\* Bug: a single block is deleted.
DeleteNext(h) == blocks' = MapDelete(blocks, {h + 1})

DeleteAbove(h) == blocks' = MapDelete(blocks, {x \in DOMAIN blocks : x > h})

\* Range(from, to), for a bound below the greatest height: there h++ wraps
\* around, and the loop never ends.  Every block is stored under its own
\* height, so what the loop collects is sorted already.
RepoRange(from, to) ==
    LET found[h \in (from - 1)..to] ==
            IF h = from - 1 THEN <<>>
            ELSE IF h \in DOMAIN blocks THEN Append(found[h-1], blocks[h])
            ELSE found[h-1]
    IN IF from <= to THEN found[to] ELSE <<>>

\* RollbackPlan.Valid, for a plan that gives a reason and asks for votes.
ValidPlan(target, current) == target < current

Grow(txs) ==
    LET h == Header(Latest.Header.Height + 1, Latest.Hash, NoHash, MerkleRoot(txs), 0)
    IN /\ h.Height <= MaxChain
       /\ PutBlock([Header |-> h, Transactions |-> txs, Hash |-> HeaderHash(h)])
       /\ UNCHANGED snaps

RollBack(target) ==
    /\ ValidPlan(target, Latest.Header.Height)
    /\ DeleteAbove(target)
    /\ UNCHANGED snaps

RollbackNext ==
    (\E txs \in BlockTxs : Grow(txs)) \/ (\E target \in 0..MaxChain : RollBack(target))

RollbackSpec == RepoInit /\ [][RollbackNext]_<<blocks, snaps>>
-----------------------------------------------------------------------------
\* However often the chain is cut and grown again, VerifyChain accepts it,
\* its heights have no gap, and a Range of it is linked block by block and
\* ends at Latest (retention.go:9-46, repo.go:18-43).
RollbackKeepsChain ==
    /\ VerifyChain
    /\ DOMAIN blocks = 1..Latest.Header.Height
    /\ \A from \in 1..MaxChain, to \in 1..MaxChain :
         LET part == RepoRange(from, to)
         IN /\ \A i \in 1..(Len(part) - 1) : part[i+1].Header.PrevHash = part[i].Hash
            /\ (part # <<>> /\ to >= Latest.Header.Height) =>
                  part[Len(part)] = Latest
=============================================================================
