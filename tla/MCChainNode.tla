---------------------------- MODULE MCChainNode ----------------------------
(***************************************************************************)
(* A node serving a few requests of every kind at once.                    *)
(***************************************************************************)
EXTENDS ChainNode, TLC

CONSTANTS a1, a2, i1, i2, i3, k1, k2, v1, v2

MCTx(id, from, fee, gas, key, value, expires) ==
    [ID |-> id, From |-> from, Nonce |-> 0, Fee |-> fee, Gas |-> gas,
     Key |-> key, Value |-> value, ExpiresAt |-> expires]

MCPosted ==
    { MCTx(i1, a1, 1, 1, k1, v1, 0),      \* the first in the slot of a1
      MCTx(i2, a1, 2, 1, k1, v2, 0),      \* replaces it and writes the same key
      MCTx(i1, a2, 2, 1, k2, v1, 0),      \* reuses the first one's ID
      MCTx(NoID, a2, 1, 1, NoKey, v1, 1) }  \* fails to apply, and expires

\* Two for one slot and one for another: those that apply.
MCFewPosted == {t \in MCPosted : t.ID # NoID}

MCTxs == UNION {Drawn(t) : t \in MCPosted}

MCKeyOrder == <<k1, k2>>

MCSymmetry == Permutations(Submits) \cup Permutations(Mines)
=============================================================================
