--------------------------- MODULE MCRoundRecords ---------------------------
(***************************************************************************)
(* Validator sets of one, two and three members, rotated in any order.     *)
(***************************************************************************)
EXTENDS RoundRecords

CONSTANTS x1, x2, x3

MCVal(a) == [Address |-> a, Power |-> 1]

MCGenesis == <<MCVal(x1), MCVal(x2), MCVal(x3)>>
MCRotations == {<<MCVal(x1)>>, <<MCVal(x2), MCVal(x3)>>}
=============================================================================
