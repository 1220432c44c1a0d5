---------------------------- MODULE MerkleProof ----------------------------
(***************************************************************************)
(* Merkle proofs of single entries of a state (internal/proof/merkle.go).  *)
(* BuildTree and Proof each fold the sorted entries in a loop of their     *)
(* own; VerifyProof folds a proof's steps.  A light client holds a proof   *)
(* while the state it was made for is written on.  Keys and values are     *)
(* strings of bytes: a leaf joins them with "=".                           *)
(***************************************************************************)
EXTENDS KVState

CONSTANT NoProof    \* the client holds no proof yet

ASSUME BytesAssumption == Keys \subseteq Seq(Nat) /\ Values \subseteq Seq(Nat)

VARIABLES
    items,      \* the state
    held        \* the proof the client holds

ProofVars == <<items, held>>

\* k + "=" + v, which different pairs may share when a key has an "=".
Equals == 61
Text(k, v) == k \o <<Equals>> \o v

\* hash(k + "=" + v), which hash(a + b) of two hashes never is: they have no
\* "=".
Leaf(k, v) == SHA256(<<Text(k, v)>>)

\* keys, sorted
SortedKeys(its) == InOrder(DOMAIN its)

Leaves(its) ==
    LET keys == SortedKeys(its)
    IN [i \in 1..Len(keys) |-> Leaf(keys[i], its[keys[i]])]

\* Root: the hash of BuildTree's root.  A level's odd node is paired with
\* itself; Len(leaves) rounds are enough.
TreeRoot(its) ==
    LET leaves == Leaves(its)
        level[n \in 0..Len(leaves)] ==
            IF n = 0 THEN leaves
            ELSE IF Len(level[n-1]) > 1 THEN MerkleLevel(level[n-1])
            ELSE level[n-1]
    IN IF leaves = <<>> THEN SHA256(<<>>) ELSE level[Len(leaves)][1]

\* Bug: a node is its own sibling.
SiblingSelf(index) == index

\* index ^ 1, counted from 0
Sibling(index) == IF index % 2 = 0 THEN index + 1 ELSE index - 1

\* One round of Proof's loop: an odd level is padded with its last hash, the
\* sibling becomes a step, and neighbours are hashed together.
Climb(s) ==
    LET a == IF Len(s.hashes) % 2 = 1 THEN Append(s.hashes, s.hashes[Len(s.hashes)])
             ELSE s.hashes
        sibling == Sibling(s.index)
    IN [hashes |-> [i \in 1 .. Len(a) \div 2 |-> SHA256(<<a[2*i - 1], a[2*i]>>)],
        index |-> s.index \div 2,
        steps |-> Append(s.steps, [Hash |-> a[sibling + 1], Left |-> sibling < s.index])]

\* Proof(its, key), which fails for a key that is not there.
Proof(its, key) ==
    LET leaves == Leaves(its)
        at == CHOOSE i \in 1..Len(leaves) : SortedKeys(its)[i] = key
        climbed[n \in 0..Len(leaves)] ==
            IF n = 0 THEN [hashes |-> leaves, index |-> at - 1, steps |-> <<>>]
            ELSE IF Len(climbed[n-1].hashes) > 1 THEN Climb(climbed[n-1])
            ELSE climbed[n-1]
        top == climbed[Len(leaves)]
    IN [Key |-> key, Value |-> its[key], Root |-> top.hashes[1], Steps |-> top.steps,
        Version |-> 1]

\* What a step makes of the hash so far, and what all steps make of a leaf.
StepUp(current, step) ==
    IF step.Left THEN SHA256(<<step.Hash, current>>) ELSE SHA256(<<current, step.Hash>>)

Folded(leaf, steps) ==
    LET current[i \in 0..Len(steps)] ==
            IF i = 0 THEN leaf ELSE StepUp(current[i-1], steps[i])
    IN current[Len(steps)]

\* Bug: any proof with steps will do.
VerifyProofUnfolded(p) ==
    p.Key # NoKey /\ p.Root # NoHash /\ p.Version # 0 /\ p.Steps # <<>>

VerifyProof(p) ==
    /\ p.Key # NoKey /\ p.Root # NoHash /\ p.Version # 0
    /\ \A i \in 1..Len(p.Steps) : p.Steps[i].Hash # NoHash
    /\ p.Root = Folded(Leaf(p.Key, p.Value), p.Steps)
-----------------------------------------------------------------------------
ProofInit == items = EmptyMap /\ held = NoProof

\* The state is written.
Put(k, v) == items' = MapPut(items, k, v) /\ UNCHANGED held

Issue(k) ==
    /\ k \in DOMAIN items
    /\ held' = Proof(items, k)
    /\ UNCHANGED items

ProofNext ==
    \/ \E k \in Keys, v \in Values : Put(k, v)
    \/ \E k \in Keys : Issue(k)

ProofSpec == ProofInit /\ [][ProofNext]_ProofVars
-----------------------------------------------------------------------------
\* Every key of a state of any shape has a proof that verifies, and the root
\* Proof computes with its own loop is the one BuildTree computes
\* (merkle.go:39-49, 68-80, 83-99).
ProofVerifies ==
    \A k \in DOMAIN items :
        LET p == Proof(items, k) IN VerifyProof(p) /\ p.Root = TreeRoot(items)

HasEquals(k) == \E i \in 1..Len(k) : k[i] = Equals

\* The steps of a proof, issued for this state or for an earlier one, convince
\* a client that has the present root of nothing but an entry the state has
\* now.  What they vouch for is the entry's text, key=value: while no key has
\* an "=", that is the key and its value, but {"a=b": "c"} also vouches for
\* "a" having "b=c" (merkle.go:83-99, merkle_test.go:15-18).
HeldProofBinds ==
    held # NoProof =>
        LET root == TreeRoot(items)
        IN \A k \in Keys, v \in Values :
             VerifyProof([held EXCEPT !.Key = k, !.Value = v, !.Root = root])
                => /\ \E e \in DOMAIN items : Text(e, items[e]) = Text(k, v)
                   /\ (\A e \in DOMAIN items \cup {k} : ~HasEquals(e))
                        => k \in DOMAIN items /\ items[k] = v
=============================================================================
