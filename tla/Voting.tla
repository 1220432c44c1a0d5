------------------------------- MODULE Voting -------------------------------
(***************************************************************************)
(* Voting power and quorums (internal/chain_domain/validation.go).  Power  *)
(* is PowerBits wide and its sums wrap around, as Go's uint64 does.        *)
(* A validator set is a sequence of records with an Address and a Power.   *)
(***************************************************************************)
EXTENDS FiniteSets, Integers, Sequences, SequencesExt

CONSTANTS
    PowerBits,      \* width of a power
    NoAddress       \* the empty address ""

MaxPower == 2^PowerBits - 1

ASSUME PowerBitsAssumption == PowerBits \in Nat /\ MaxPower \in Nat

Wrap(n) == n % 2^PowerBits

\* for ... { p += x.Power }
TotalPower(vals) ==
    LET p[i \in 0..Len(vals)] ==
            IF i = 0 THEN 0 ELSE Wrap(p[i-1] + vals[i].Power)
    IN p[Len(vals)]

\* Bug: two thirds are enough.
QuorumTwoThirds(vals) == Wrap(TotalPower(vals) * 2) \div 3

Quorum(vals) == Wrap(TotalPower(vals) * 2) \div 3 + 1

\* powers[a]: the last entry of an address counts, an unknown one has none.
PowerOf(vals, a) ==
    LET at == {i \in 1..Len(vals) : vals[i].Address = a}
    IN IF at = {} THEN 0
       ELSE vals[CHOOSE i \in at : \A j \in at : j <= i].Power

\* Bug: a repeated vote counts again.
HasQuorumRepeats(vals, voters) ==
    FoldLeft(LAMBDA got, a : Wrap(got + PowerOf(vals, a)), 0, voters)
        >= Quorum(vals)

\* voters is the validators named by the votes, in the order of the votes;
\* only the first vote of each counts.
HasQuorum(vals, voters) ==
    LET got[i \in 0..Len(voters)] ==
            IF i = 0 THEN 0
            ELSE IF \E j \in 1..(i-1) : voters[j] = voters[i] THEN got[i-1]
            ELSE Wrap(got[i-1] + PowerOf(vals, voters[i]))
    IN got[Len(voters)] >= Quorum(vals)

\* The validators' part of ValidateNetwork(n) == nil.  An address may occur
\* twice.
ValidateNetwork(vals) ==
    /\ vals # <<>>
    /\ \A i \in 1..Len(vals) :
         /\ vals[i].Address # NoAddress /\ vals[i].Power # 0
         /\ MaxPower - TotalPower(SubSeq(vals, 1, i-1)) >= vals[i].Power

\* Reference: the power of the validators numbered I, counted without overflow.
PowerIn(vals, I) ==
    LET sum[i \in 0..Len(vals)] ==
            IF i = 0 THEN 0
            ELSE sum[i-1] + (IF i \in I THEN vals[i].Power ELSE 0)
    IN sum[Len(vals)]
=============================================================================
