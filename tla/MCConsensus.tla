---------------------------- MODULE MCConsensus ----------------------------
(***************************************************************************)
(* Validator sets with equal and with unequal power, one whose doubled     *)
(* power does not fit its width, and one that lists an address twice.      *)
(***************************************************************************)
EXTENDS Consensus

CONSTANTS x1, x2, x3, other

MCVal(a, p) == [Address |-> a, Power |-> p]

MCNetworks ==
    { <<MCVal(x1, 1), MCVal(x2, 1), MCVal(x3, 1)>>,
      <<MCVal(x1, 1), MCVal(x2, 2), MCVal(x3, 1)>>,
      <<MCVal(x1, 1), MCVal(x2, 2), MCVal(x3, 4)>>,
      <<MCVal(x1, 4), MCVal(x2, 4), MCVal(x3, 3)>>,
      <<MCVal(x1, 1), MCVal(x2, 2), MCVal(x2, 1)>> }
=============================================================================
