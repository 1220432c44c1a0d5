--------------------------- MODULE MCMerkleProof ---------------------------
(***************************************************************************)
(* States of up to five keys: full, odd and twice odd levels.  Two keys    *)
(* and the two values have texts in common.                                *)
(***************************************************************************)
EXTENDS MerkleProof

a == 97
b == 98
c == 99

\* a, a=b, b, ba, c
MCKeyOrder == <<<<a>>, <<a, Equals, b>>, <<b>>, <<b, a>>, <<c>>>>

MCNoKey == <<>>

\* c, b=c
MCValues == {<<c>>, <<b, Equals, c>>}
=============================================================================
