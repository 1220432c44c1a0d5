------------------------------- MODULE Ledger -------------------------------
(***************************************************************************)
(* What the node promises of its chain, without requests, locks or a state *)
(* that is written step by step: blocks are only ever appended, each with  *)
(* the root of the state that all blocks up to it lead to, and a version   *)
(* of the state is only kept for the height the chain has at that moment.  *)
(* ChainNode implements it.                                                *)
(***************************************************************************)
EXTENDS KVState

CONSTANT Bodies     \* the sequences of transactions a block may have

VARIABLES
    chain,      \* the blocks: their transactions and state roots
    kept        \* height -> the state kept for it

Written == [h \in 1..Len(chain) |-> chain[h].txs]

LInit == chain = <<>> /\ kept = EmptyMap

Commit ==
    /\ Len(chain') = Len(chain) + 1
    /\ \E txs \in Bodies :
         chain' = Append(chain,
                    [txs |-> txs, root |-> Root(Replay(Append(Written, txs)))])
    /\ UNCHANGED kept

Keep ==
    /\ kept' = MapPut(kept, Len(chain), Replay(Written))
    /\ UNCHANGED chain

LSpec == LInit /\ [][Commit \/ Keep]_<<chain, kept>>
=============================================================================
