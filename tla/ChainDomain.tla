---------------------------- MODULE ChainDomain ----------------------------
(***************************************************************************)
(* The value types of the chain and what is computed from them             *)
(* (internal/chain_domain/types.go): transaction hashes, the Merkle root   *)
(* of a block's transactions, header hashes and ValidateBlock.             *)
(*                                                                         *)
(* SHA256 is a constructor: two hashes are equal exactly when what they    *)
(* were computed from is, so a hash also tells in which order and nesting  *)
(* its parts were hashed.                                                  *)
(***************************************************************************)
EXTENDS Integers, Sequences

SHA256(x) == <<"sha256", x>>

\* "", the hash of the zero Block
NoHash == <<>>

\* The fields hashed into a transaction's hash (To, which nothing reads, is
\* left out); neither ExpiresAt, Size nor Signature is among them.
TxHash(t) == SHA256(<<t.ID, t.From, t.Nonce, t.Fee, t.Gas, t.Key, t.Value>>)

\* One round of MerkleRoot's loop: neighbours are hashed together, the last
\* of an odd level with itself.
MerkleLevel(a) ==
    [i \in 1 .. (Len(a) + 1) \div 2 |->
        SHA256(<<a[2*i - 1], IF 2*i > Len(a) THEN a[2*i - 1] ELSE a[2*i]>>)]

\* Every round shortens a level longer than 1, so Len(txs) rounds are enough.
MerkleRoot(txs) ==
    LET leaves == [i \in 1..Len(txs) |-> TxHash(txs[i])]
        level[n \in Nat] ==
            IF n = 0 THEN leaves
            ELSE IF Len(level[n-1]) > 1 THEN MerkleLevel(level[n-1])
            ELSE level[n-1]
    IN IF txs = <<>> THEN SHA256(<<>>) ELSE level[Len(txs)][1]

\* View, Proposer and Version are the same in every header the node builds.
Header(height, prevHash, stateRoot, txRoot, timestamp) ==
    [Height |-> height, PrevHash |-> prevHash, StateRoot |-> stateRoot,
     TxRoot |-> txRoot, Timestamp |-> timestamp]

HeaderHash(h) ==
    SHA256(<<h.Height, h.PrevHash, h.StateRoot, h.TxRoot, h.Timestamp>>)

\* var b Block
ZeroBlock == [Header |-> Header(0, NoHash, NoHash, NoHash, 0),
              Transactions |-> <<>>, Hash |-> NoHash]

\* ValidateBlock(b, prev) == nil.  prev is ZeroBlock for a nil pointer, where
\* the code checks neither the height nor the previous hash.
ValidateBlock(b, prev) ==
    /\ b.Header.Height # 0
    /\ prev # ZeroBlock =>
         /\ b.Header.Height = prev.Header.Height + 1
         /\ b.Header.PrevHash = prev.Hash
    /\ b.Header.TxRoot = MerkleRoot(b.Transactions)
    /\ b.Hash # NoHash
=============================================================================
