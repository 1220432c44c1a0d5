----------------------------- MODULE MCExecutor -----------------------------
(***************************************************************************)
(* Batches that succeed, that write a key twice, and that fail for each of *)
(* the four reasons.                                                       *)
(***************************************************************************)
EXTENDS Executor

CONSTANTS k1, k2, v1, v2

MCTx(gas, key, value, ok) ==
    [Gas |-> gas, Key |-> key, Value |-> value, WellFormed |-> ok]

MCBatches ==
    { <<MCTx(1, k1, v1, TRUE)>>,
      <<MCTx(2, k1, v2, TRUE), MCTx(1, k1, v1, TRUE), MCTx(1, k2, v1, TRUE)>>,
      <<MCTx(2, k2, v2, TRUE), MCTx(3, k1, v1, TRUE)>>,     \* the gas limit
      <<MCTx(4, k1, v1, TRUE)>>,                            \* too much gas
      <<MCTx(1, k1, v2, TRUE), MCTx(1, k2, v1, FALSE)>>,    \* malformed
      <<MCTx(1, k2, v1, TRUE), MCTx(1, NoKey, v1, TRUE)>> } \* no key

MCKeyOrder == <<k1, k2>>
=============================================================================
