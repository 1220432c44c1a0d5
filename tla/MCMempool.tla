----------------------------- MODULE MCMempool -----------------------------
(***************************************************************************)
(* A small pool: two accounts, two slots of one of them, replacements,     *)
(* a reused ID, a transaction without an ID, and one that expires.         *)
(***************************************************************************)
EXTENDS Mempool

CONSTANTS a1, a2, i1, i2, i3, k, v

MCTx(id, from, nonce, fee, expires) ==
    [ID |-> id, From |-> from, Nonce |-> nonce, Fee |-> fee,
     Gas |-> 1, Key |-> k, Value |-> v, ExpiresAt |-> expires]

MCTxs ==
    { MCTx(i1, a1, 0, 1, 0),      \* the first of slot a1/0
      MCTx(i2, a1, 0, 2, 1),      \* replaces it, and expires at second 1
      MCTx(i1, a2, 0, 2, 0),      \* reuses its ID from another account
      MCTx(i3, a1, 0, 2, 0),      \* ties with the replacement
      MCTx(NoID, a1, 1, 1, 1),    \* expires, ID from its hash
      MCTx(NoID, a2, 0, 3, 2) }   \* replaces, ID from its hash

MCTxIDs == {i1, i2, i3} \cup {TxHash(t) : t \in {u \in MCTxs : u.ID = NoID}}
=============================================================================
