--------------------------- MODULE ConsensusProofs ---------------------------
(***************************************************************************)
(* Proofs about package consensus: the engine and its quorums, and the     *)
(* records of a validator, for any validators, voters and number of        *)
(* rounds.                                                                 *)
(***************************************************************************)
EXTENDS Consensus, RoundRecords, Network, Peers, FiniteSetTheorems, WellFoundedInduction, TLAPS

\* The votes of the engine, with the rounds they are of.
EngineInv == EngineTypeOK /\ VotesOfRound

\* A new engine satisfies the invariant.
LEMMA EngineInitInv == EngineInit => EngineInv
<1> SUFFICES ASSUME EngineInit PROVE EngineInv
  OBVIOUS
<1>1. DOMAIN votes = {} /\ IsMap(votes, Voters, Votes)
  BY DEF EngineInit, EmptyMap, IsMap
<1>2. height \in Rounds /\ view \in Rounds /\ phase \in Phases /\ validators \in Networks
  BY MaxRoundAssumption DEF EngineInit, Rounds, Phases
<1>3. carried = FALSE
  BY DEF EngineInit
<1> QED
  BY <1>1, <1>2, <1>3 DEF EngineInv, EngineTypeOK, VotesOfRound

\* Every call keeps it.  Step is the one that leaves votes of a past height:
\* the height it moves to is greater than that of every vote it keeps.
LEMMA EngineNextInv == EngineInv /\ [EngineNext]_EngineVars => EngineInv'
<1> SUFFICES ASSUME EngineInv, [EngineNext]_EngineVars PROVE EngineInv'
  OBVIOUS
<1> USE MaxRoundAssumption DEF EngineInv, EngineTypeOK, VotesOfRound, Rounds
<1>1. ASSUME NEW a \in DOMAIN votes
      PROVE  votes[a].Height \in 0..MaxRound /\ votes[a].View \in 0..MaxRound
  BY DEF IsMap, Votes
<1>2. CASE Step
  <2>1. phase' \in Phases
    BY <1>2 DEF Step, AfterPhase, Phases
  <2>2. height' \in 0..MaxRound /\ view' \in 0..MaxRound /\ votes' = votes
    BY <1>2 DEF Step
  <2>3. CASE phase = "commit"
    <3>1. height' = height + 1 /\ view' = 0 /\ validators' = validators
      BY <1>2, <2>3 DEF Step
    <3>2. \A a \in DOMAIN votes : votes[a].Height # height'
      BY <1>1, <3>1
    <3>3. votes # EmptyMap <=> \E a \in DOMAIN votes : TRUE
      BY DEF EmptyMap, IsMap
    <3>4. carried' <=> \E a \in DOMAIN votes : votes[a].Height # height'
      BY <1>2, <2>3, <3>2, <3>3, Zenon DEF Step
    <3>5. carried' \in BOOLEAN
      BY <1>2, Zenon DEF Step
    <3> QED
      BY <2>1, <2>2, <3>1, <3>4, <3>5, <1>1
  <2>4. CASE phase # "commit"
    <3>1. height' = height /\ view' = view /\ validators' = validators
      BY <1>2, <2>4 DEF Step
    <3>2. carried' = carried
      BY <1>2, <2>4, Zenon DEF Step
    <3> QED
      BY <2>1, <2>2, <3>1, <3>2
  <2> QED
    BY <2>3, <2>4
<1>3. ASSUME NEW v \in Votes, Vote(v) PROVE EngineInv'
  <2>1. v.Validator \in Voters
    BY DEF Votes
  <2>2. IsMap(votes', Voters, Votes)
    BY <1>3, <2>1 DEF Vote, MapPut, IsMap
  <2>3. /\ DOMAIN votes' = DOMAIN votes \cup {v.Validator}
        /\ votes'[v.Validator] = v
        /\ \A a \in DOMAIN votes : votes'[a] = votes[a]
    BY <1>3 DEF Vote, MapPut
  <2>4. v.Height = height /\ v.View = view /\ UNCHANGED <<height, view, phase, validators, carried>>
    BY <1>3 DEF Vote
  <2> QED
    BY <2>2, <2>3, <2>4
<1>4. ASSUME votes' = EmptyMap, height' \in Rounds, view' \in Rounds,
             phase' \in Phases, validators' = validators, carried' = FALSE
      PROVE  EngineInv'
  <2>1. DOMAIN votes' = {} /\ IsMap(votes', Voters, Votes)
    BY <1>4 DEF EmptyMap, IsMap
  <2> QED
    BY <2>1, <1>4
<1>5. ASSUME NEW h \in Rounds, SetHeight(h) PROVE EngineInv'
  BY <1>4, <1>5 DEF SetHeight
<1>6. ASSUME NEW v \in Rounds, SetView(v) PROVE EngineInv'
  BY <1>4, <1>6 DEF SetView, Phases
<1>7. CASE UNCHANGED EngineVars
  BY <1>7 DEF EngineVars
<1> QED
  BY <1>2, <1>3, <1>5, <1>6, <1>7 DEF EngineNext

\* The types of the engine's state (bft.go:18-25).
THEOREM EngineTypeCorrect == EngineSpec => []EngineTypeOK
BY EngineInitInv, EngineNextInv, PTL DEF EngineSpec, EngineInv

\* No vote is of a height to come, and a vote of the present height is of the
\* present view (bft.go:40-43, simulator.go:48-60).
THEOREM VotesAreOfRound == EngineSpec => []VotesOfRound
BY EngineInitInv, EngineNextInv, PTL DEF EngineSpec, EngineInv

\* A vote that counts is not exchanged for a later one (bft.go:54).
THEOREM FirstVoteStays == EngineSpec => FirstVoteCounts
<1> DEFINE Keeps == \/ votes' = EmptyMap
                    \/ \A a \in DOMAIN votes :
                          a \in DOMAIN votes' /\ votes'[a] = votes[a]
<1>1. ASSUME EngineNext PROVE Keeps
  <2>1. ASSUME NEW v \in Votes, Vote(v) PROVE Keeps
    BY <2>1 DEF Vote, MapPut
  <2> QED
    BY <1>1, <2>1 DEF EngineNext, Step, SetHeight, SetView
<1>2. [EngineNext]_EngineVars => [Keeps]_EngineVars
  BY <1>1
<1> QED
  BY <1>2, PTL DEF EngineSpec, FirstVoteCounts
-----------------------------------------------------------------------------
(* Loops.                                                                   *)

\* What holds of 0, and of every number if it holds of the one before, holds
\* of all: there is no least counterexample.
LEMMA CountUp ==
    ASSUME NEW n \in Nat, NEW S, 0 \in S, \A i \in 1..n : i - 1 \in S => i \in S
    PROVE  \A i \in 0..n : i \in S
<1> DEFINE D == {i \in 0..n : i \notin S}
<1> SUFFICES ASSUME D # {} PROVE FALSE
  OBVIOUS
<1>1. PICK m \in D : \A x \in D : ~(<<x, m>> \in OpToRel(<, Nat))
  <2>1. D \subseteq Nat
    OBVIOUS
  <2> HIDE DEF D
  <2> QED
    BY <2>1, WFMin, NatLessThanWellFounded
<1>2. \A x \in D : ~(x < m)
  <2>1. \A x \in D : <<x, m>> \in Nat \X Nat
    OBVIOUS
  <2> HIDE DEF D
  <2> QED
    BY <1>1, <2>1 DEF OpToRel
<1>3. m \in 1..n /\ m \notin S /\ m - 1 \in 0..n /\ m - 1 < m
  OBVIOUS
<1>4. m - 1 \notin D
  <2> HIDE DEF D
  <2> QED
    BY <1>2, <1>3
<1> QED
  BY <1>3, <1>4

\* The i-th of n rounds of a loop makes s[i][x] of x, and f[i] is what it has
\* made of b.
IsLoop(s, n, X) == \A i \in 1..n : s[i] \in [X -> X]
IsRun(f, s, n, X, b) ==
    f \in [0..n -> X] /\ f[0] = b /\ \A i \in 1..n : f[i] = s[i][f[i-1]]

\* Every loop runs.
LEMMA LoopRuns ==
    ASSUME NEW n \in Nat, NEW X, NEW b \in X, NEW s, IsLoop(s, n, X)
    PROVE  \E f : IsRun(f, s, n, X, b)
<1> USE DEF IsLoop
<1> DEFINE Run(f, m) == /\ f \in [0..m -> X] /\ f[0] = b
                        /\ \A i \in 1..m : f[i] = s[i][f[i-1]]
           S == {m \in 0..n : \E f : Run(f, m)}
<1>1. 0 \in S
  <2> DEFINE f == [i \in 0..0 |-> b]
  <2>1. Run(f, 0)
    OBVIOUS
  <2> HIDE DEF Run
  <2> QED
    BY <2>1
<1>2. ASSUME NEW m \in 1..n, m - 1 \in S PROVE m \in S
  <2>1. PICK f : Run(f, m - 1)
    BY <1>2
  <2>2. f \in [0..(m-1) -> X] /\ f[0] = b /\ \A i \in 1..(m-1) : f[i] = s[i][f[i-1]]
    BY <2>1
  <2> DEFINE e == s[m][f[m-1]]
             g == [i \in 0..m |-> IF i = m THEN e ELSE f[i]]
  <2>3. e \in X
    <3>1. m - 1 \in 0..(m-1)
      OBVIOUS
    <3> QED
      BY <2>2, <3>1
  <2> HIDE DEF e
  <2>4. g \in [0..m -> X] /\ g[m] = e /\ \A i \in 0..(m-1) : g[i] = f[i]
    BY <2>2, <2>3
  <2> HIDE DEF g
  <2>5. g[0] = b
    BY <2>2, <2>4
  <2>6. ASSUME NEW i \in 1..m PROVE g[i] = s[i][g[i-1]]
    <3>1. i - 1 \in 0..(m-1)
      OBVIOUS
    <3>2. g[i-1] = f[i-1]
      BY <2>4, <3>1
    <3>3. CASE i = m
      BY <2>4, <3>2, <3>3 DEF e
    <3>4. CASE i # m
      <4>1. i \in 1..(m-1) /\ i \in 0..(m-1)
        BY <3>4
      <4> QED
        BY <2>2, <2>4, <3>2, <4>1
    <3> QED
      BY <3>3, <3>4
  <2>7. Run(g, m)
    BY <2>4, <2>5, <2>6
  <2> HIDE DEF Run
  <2> QED
    BY <2>7
<1>3. n \in S
  <2>1. \A i \in 0..n : i \in S
    <3> HIDE DEF S
    <3> QED
      BY <1>1, <1>2, CountUp
  <2> HIDE DEF S
  <2> QED
    BY <2>1
<1> QED
  BY <1>3 DEF IsRun
-----------------------------------------------------------------------------
(* Power.                                                                   *)

Powered(vals) ==
    Len(vals) \in Nat /\ \A i \in 1..Len(vals) : vals[i].Power \in Nat

\* What the i-th validator adds to the power of those numbered I.
Share(vals, I, i) == IF i \in I THEN vals[i].Power ELSE 0

\* Wrap leaves what fits.
LEMMA WrapFits ==
    /\ \A x \in Nat : Wrap(x) \in Nat
    /\ \A x \in 0..MaxPower : Wrap(x) = x
<1>1. PICK m \in Nat : m = MaxPower + 1
  BY PowerBitsAssumption
<1>2. 2^PowerBits = m /\ m > 0
  BY <1>1, PowerBitsAssumption DEF MaxPower
<1>3. \A x \in Nat : x % m \in Nat
  BY <1>2
<1>4. \A x \in 0..MaxPower : x \in 0..(m-1)
  BY <1>1, PowerBitsAssumption
<1>5. \A x \in 0..(m-1) : x % m = x
  BY <1>2
<1> QED
  BY <1>2, <1>3, <1>4, <1>5 DEF Wrap

\* The partial sums of PowerIn.
LEMMA PowerInRuns ==
    ASSUME NEW vals, Powered(vals), NEW I
    PROVE  \E f \in [0..Len(vals) -> Nat] :
             /\ f[0] = 0
             /\ \A i \in 1..Len(vals) : f[i] = f[i-1] + Share(vals, I, i)
             /\ PowerIn(vals, I) = f[Len(vals)]
<1> DEFINE n == Len(vals)
           s == [i \in 1..n |-> [x \in Nat |-> x + Share(vals, I, i)]]
           P(f) == f = [i \in 0..n |-> IF i = 0 THEN 0
                                       ELSE f[i-1] + (IF i \in I THEN vals[i].Power ELSE 0)]
           c == CHOOSE f : P(f)
<1>1. n \in Nat /\ \A i \in 1..n : Share(vals, I, i) \in Nat
  BY DEF Powered, Share
<1>2. \A i \in 1..n : s[i] \in [Nat -> Nat]
  BY <1>1
<1>3. PICK g \in [0..n -> Nat] : g[0] = 0 /\ \A i \in 1..n : g[i] = s[i][g[i-1]]
  <2> HIDE DEF n, s
  <2>1. IsLoop(s, n, Nat)
    BY <1>2 DEF IsLoop
  <2>2. \E g : IsRun(g, s, n, Nat, 0)
    BY <1>1, <2>1, LoopRuns
  <2> QED
    BY <2>2 DEF IsRun
<1>4. \A i \in 1..n : g[i] = g[i-1] + Share(vals, I, i)
  <2> HIDE DEF n
  <2>1. \A i \in 1..n : i - 1 \in 0..n
    BY <1>1
  <2> QED
    BY <1>3, <2>1
<1>5. P(g)
  <2> HIDE DEF n
  <2>1. g = [i \in 0..n |-> g[i]]
    BY <1>3
  <2>2. \A i \in 0..n : i = 0 \/ i \in 1..n
    BY <1>1
  <2> QED
    BY <1>3, <1>4, <2>1, <2>2 DEF Share
<1>6. P(c)
  <2> HIDE DEF P
  <2> QED
    BY <1>5
<1>7. PowerIn(vals, I) = c[n]
  BY DEF PowerIn
<1> HIDE DEF c
<1>8. c[0] = 0 /\ \A i \in 1..n : c[i] = c[i-1] + Share(vals, I, i)
  <2> HIDE DEF n
  <2>1. 0 \in 0..n /\ \A i \in 1..n : i \in 0..n /\ i # 0
    BY <1>1
  <2> QED
    BY <1>6, <2>1 DEF Share
<1>9. c \in [0..n -> Nat]
  <2> HIDE DEF n
  <2> DEFINE S == {i \in 0..n : c[i] \in Nat}
  <2>1. 0 \in S
    BY <1>1, <1>8
  <2>2. ASSUME NEW i \in 1..n, i - 1 \in S PROVE i \in S
    BY <1>1, <1>8, <2>2
  <2>3. \A i \in 0..n : i \in S
    <3> HIDE DEF S
    <3> QED
      BY <1>1, <2>1, <2>2, CountUp
  <2>4. DOMAIN c = 0..n /\ c = [i \in 0..n |-> c[i]]
    BY <1>6
  <2> QED
    BY <2>3, <2>4
<1> QED
  BY <1>7, <1>8, <1>9

\* The power of some validators is a number; of none it is 0; one more adds
\* its own; and more of them have more.
LEMMA PowerInType ==
    ASSUME NEW vals, Powered(vals), NEW I
    PROVE  PowerIn(vals, I) \in Nat
<1>1. PICK f \in [0..Len(vals) -> Nat] : PowerIn(vals, I) = f[Len(vals)]
  BY PowerInRuns
<1> QED
  BY <1>1 DEF Powered

LEMMA PowerInNone ==
    ASSUME NEW vals, Powered(vals)
    PROVE  PowerIn(vals, {}) = 0
<1>1. PICK n \in Nat : n = Len(vals)
  BY DEF Powered
<1>2. PICK f \in [0..n -> Nat] :
        /\ f[0] = 0
        /\ \A i \in 1..n : f[i] = f[i-1] + Share(vals, {}, i)
        /\ PowerIn(vals, {}) = f[n]
  BY <1>1, PowerInRuns
<1> DEFINE S == {i \in 0..n : f[i] = 0}
<1>3. 0 \in S
  BY <1>2
<1>4. ASSUME NEW i \in 1..n, i - 1 \in S PROVE i \in S
  BY <1>2, <1>4 DEF Share
<1>5. \A i \in 0..n : i \in S
  <2> HIDE DEF S
  <2> QED
    BY <1>3, <1>4, CountUp
<1> QED
  BY <1>2, <1>5

LEMMA PowerInMore ==
    ASSUME NEW vals, Powered(vals), NEW I, NEW J, I \subseteq J
    PROVE  PowerIn(vals, I) <= PowerIn(vals, J)
<1>1. PICK n \in Nat : n = Len(vals)
  BY DEF Powered
<1>2. PICK f \in [0..n -> Nat] :
        /\ f[0] = 0
        /\ \A i \in 1..n : f[i] = f[i-1] + Share(vals, I, i)
        /\ PowerIn(vals, I) = f[n]
  BY <1>1, PowerInRuns
<1>3. PICK g \in [0..n -> Nat] :
        /\ g[0] = 0
        /\ \A i \in 1..n : g[i] = g[i-1] + Share(vals, J, i)
        /\ PowerIn(vals, J) = g[n]
  BY <1>1, PowerInRuns
<1> DEFINE S == {i \in 0..n : f[i] <= g[i]}
<1>4. 0 \in S
  BY <1>2, <1>3
<1>5. ASSUME NEW i \in 1..n, i - 1 \in S PROVE i \in S
  <2>1. /\ Share(vals, I, i) \in Nat /\ Share(vals, J, i) \in Nat
        /\ Share(vals, I, i) <= Share(vals, J, i)
    BY <1>1 DEF Powered, Share
  <2>2. f[i-1] \in Nat /\ g[i-1] \in Nat /\ f[i-1] <= g[i-1]
    BY <1>5
  <2> QED
    BY <1>2, <1>3, <2>1, <2>2
<1>6. \A i \in 0..n : i \in S
  <2> HIDE DEF S
  <2> QED
    BY <1>4, <1>5, CountUp
<1> QED
  BY <1>2, <1>3, <1>6

LEMMA PowerInAdd ==
    ASSUME NEW vals, Powered(vals), NEW I, NEW k \in 1..Len(vals), k \notin I
    PROVE  PowerIn(vals, I \cup {k}) = PowerIn(vals, I) + vals[k].Power
<1>1. PICK n \in Nat : n = Len(vals)
  BY DEF Powered
<1> DEFINE J == I \cup {k}
<1>2. PICK f \in [0..n -> Nat] :
        /\ f[0] = 0
        /\ \A i \in 1..n : f[i] = f[i-1] + Share(vals, I, i)
        /\ PowerIn(vals, I) = f[n]
  BY <1>1, PowerInRuns
<1>3. PICK g \in [0..n -> Nat] :
        /\ g[0] = 0
        /\ \A i \in 1..n : g[i] = g[i-1] + Share(vals, J, i)
        /\ PowerIn(vals, J) = g[n]
  <2> HIDE DEF J
  <2> QED
    BY <1>1, PowerInRuns
<1>4. PICK p \in Nat : p = vals[k].Power
  BY DEF Powered
<1> DEFINE S == {i \in 0..n : g[i] = f[i] + (IF k <= i THEN p ELSE 0)}
<1>5. 0 \in S
  BY <1>1, <1>2, <1>3
<1>6. ASSUME NEW i \in 1..n, i - 1 \in S PROVE i \in S
  <2>1. f[i-1] \in Nat /\ g[i-1] = f[i-1] + (IF k <= i - 1 THEN p ELSE 0)
    BY <1>6
  <2>2. PICK x \in Nat : x = Share(vals, I, i)
    BY <1>1 DEF Powered, Share
  <2>3. f[i] = f[i-1] + x
    BY <1>2, <2>2
  <2>4. CASE i = k
    <3>1. x = 0 /\ Share(vals, J, i) = p
      BY <1>4, <2>2, <2>4 DEF Share
    <3>2. g[i] = g[i-1] + p
      BY <1>3, <3>1
    <3> QED
      BY <2>1, <2>3, <2>4, <3>1, <3>2
  <2>5. CASE i # k
    <3>1. Share(vals, J, i) = x
      BY <2>2, <2>5 DEF Share
    <3>2. g[i] = g[i-1] + x
      BY <1>3, <3>1
    <3>3. k <= i <=> k <= i - 1
      BY <1>1, <2>5
    <3> QED
      BY <2>1, <2>3, <3>2, <3>3, SMTT(40)
  <2> QED
    BY <2>4, <2>5
<1>7. \A i \in 0..n : i \in S
  <2> HIDE DEF S
  <2> QED
    BY <1>5, <1>6, CountUp
<1>8. g[n] = f[n] + p
  BY <1>1, <1>7
<1> QED
  BY <1>2, <1>3, <1>4, <1>8

\* The loop of Quorum adds up to the power of all validators, if that fits.
LEMMA TotalIsAll ==
    ASSUME NEW vals, Powered(vals), PowerIn(vals, 1..Len(vals)) <= MaxPower
    PROVE  TotalPower(vals) = PowerIn(vals, 1..Len(vals))
<1> DEFINE n == Len(vals)
           s == [i \in 1..n |-> [x \in Nat |-> Wrap(x + vals[i].Power)]]
           P(f) == f = [i \in 0..n |-> IF i = 0 THEN 0 ELSE Wrap(f[i-1] + vals[i].Power)]
           c == CHOOSE f : P(f)
<1>1. n \in Nat /\ \A i \in 1..n : vals[i].Power \in Nat
  BY DEF Powered
<1>2. PICK g : IsRun(g, s, n, Nat, 0)
  <2>1. IsLoop(s, n, Nat)
    <3>1. \A i \in 1..n, x \in Nat : Wrap(x + vals[i].Power) \in Nat
      <4>1. \A i \in 1..n, x \in Nat : x + vals[i].Power \in Nat
        BY <1>1
      <4> QED
        BY <4>1, WrapFits
    <3> QED
      BY <3>1 DEF IsLoop
  <2> HIDE DEF n, s
  <2> QED
    BY <1>1, <2>1, LoopRuns
<1>3. g \in [0..n -> Nat] /\ g[0] = 0 /\ \A i \in 1..n : g[i] = Wrap(g[i-1] + vals[i].Power)
  <2>1. \A i \in 1..n : i - 1 \in 0..n
    BY <1>1
  <2> HIDE DEF n
  <2> QED
    BY <1>2, <2>1 DEF IsRun
<1>4. P(g)
  <2> HIDE DEF n
  <2>1. g = [i \in 0..n |-> g[i]]
    BY <1>3
  <2>2. \A i \in 0..n : i = 0 \/ i \in 1..n
    BY <1>1
  <2> QED
    BY <1>3, <2>1, <2>2
<1>5. P(c)
  <2> HIDE DEF P
  <2> QED
    BY <1>4
<1>6. TotalPower(vals) = c[n]
  BY DEF TotalPower
<1> HIDE DEF c
<1>7. c[0] = 0 /\ \A i \in 1..n : c[i] = Wrap(c[i-1] + vals[i].Power)
  <2> HIDE DEF n
  <2>1. 0 \in 0..n /\ \A i \in 1..n : i \in 0..n /\ i # 0
    BY <1>1
  <2> QED
    BY <1>5, <2>1
<1>8. PICK f \in [0..n -> Nat] :
        /\ f[0] = 0
        /\ \A i \in 1..n : f[i] = f[i-1] + Share(vals, 1..n, i)
        /\ PowerIn(vals, 1..n) = f[n]
  BY PowerInRuns
<1> HIDE DEF n
<1> DEFINE S == {i \in 0..n : f[i] <= MaxPower => c[i] = f[i]}
<1>9. 0 \in S
  BY <1>1, <1>7, <1>8
<1>10. ASSUME NEW i \in 1..n, i - 1 \in S PROVE i \in S
  <2>1. f[i-1] \in Nat /\ (f[i-1] <= MaxPower => c[i-1] = f[i-1])
    BY <1>1, <1>10
  <2>2. PICK p \in Nat : p = vals[i].Power
    BY <1>1
  <2>3. f[i] = f[i-1] + p
    BY <1>8, <2>2 DEF Share
  <2>4. ASSUME f[i] <= MaxPower PROVE c[i] = f[i]
    <3>1. f[i-1] <= MaxPower /\ f[i] \in 0..MaxPower
      BY <2>1, <2>2, <2>3, <2>4, PowerBitsAssumption
    <3>2. c[i] = Wrap(f[i])
      BY <1>7, <2>1, <2>2, <2>3, <3>1
    <3> QED
      BY <3>1, <3>2, WrapFits
  <2> QED
    BY <1>1, <2>4
<1>11. \A i \in 0..n : i \in S
  <2> HIDE DEF S
  <2> QED
    BY <1>1, <1>9, <1>10, CountUp
<1>12. c[n] = f[n]
  BY <1>1, <1>8, <1>11 DEF n
<1> QED
  BY <1>6, <1>8, <1>12 DEF n

\* A quorum is more than two thirds of the power, where its double fits.
LEMMA QuorumIs ==
    ASSUME NEW vals, Powered(vals), 2 * PowerIn(vals, 1..Len(vals)) <= MaxPower
    PROVE  \A got \in Nat :
             got >= Quorum(vals) <=> 3 * got > 2 * PowerIn(vals, 1..Len(vals))
<1>1. PICK p \in Nat : p = PowerIn(vals, 1..Len(vals))
  BY PowerInType
<1>2. p <= MaxPower /\ p * 2 \in 0..MaxPower
  BY <1>1, PowerBitsAssumption
<1>3. TotalPower(vals) = p
  BY <1>1, <1>2, TotalIsAll
<1>4. Quorum(vals) = (p * 2) \div 3 + 1
  BY <1>2, <1>3, WrapFits DEF Quorum
<1>5. PICK q \in Nat : q = (p * 2) \div 3
  OBVIOUS
<1>6. 3 * q <= 2 * p /\ 2 * p < 3 * q + 3
  BY <1>5
<1>7. \A got \in Nat : got >= q + 1 <=> 3 * got > 2 * p
  BY <1>6
<1>8. Quorum(vals) = q + 1
  BY <1>4, <1>5
<1> QED
  BY <1>1, <1>7, <1>8

\* The validators with an address in A.
Among(vals, A) == {k \in 1..Len(vals) : vals[k].Address \in A}

\* One address more adds the power HasQuorum looks up for it.
LEMMA LookupAdds ==
    ASSUME NEW vals, Powered(vals), NEW A, NEW a, a \notin A,
           \A i, j \in 1..Len(vals) : vals[i].Address = vals[j].Address => i = j
    PROVE  /\ PowerOf(vals, a) \in Nat
           /\ PowerIn(vals, Among(vals, A \cup {a}))
                = PowerIn(vals, Among(vals, A)) + PowerOf(vals, a)
<1> DEFINE at == {i \in 1..Len(vals) : vals[i].Address = a}
           I == Among(vals, A)
<1>0. PowerIn(vals, I) \in Nat
  BY PowerInType
<1>1. CASE at = {}
  <2>1. PowerOf(vals, a) = 0
    BY <1>1 DEF PowerOf
  <2>2. Among(vals, A \cup {a}) = I
    BY <1>1 DEF Among
  <2> QED
    BY <1>0, <2>1, <2>2
<1>2. CASE at # {}
  <2>1. PICK k \in at : TRUE
    BY <1>2
  <2>2. at = {k} /\ k \in 1..Len(vals) /\ k \in Nat
    BY <2>1 DEF Powered
  <2>3. (CHOOSE i \in at : \A j \in at : j <= i) = k
    <3>1. \A i : i \in at <=> i = k
      BY <2>2
    <3>2. \A j \in at : j <= k
      BY <2>2, <3>1
    <3> HIDE DEF at
    <3> QED
      BY <3>1, <3>2
  <2>4. PowerOf(vals, a) = vals[k].Power
    BY <1>2, <2>3 DEF PowerOf
  <2>5. Among(vals, A \cup {a}) = I \cup {k} /\ k \notin I
    BY <2>2 DEF Among
  <2>6. PowerIn(vals, I \cup {k}) = PowerIn(vals, I) + vals[k].Power
    <3> HIDE DEF I
    <3> QED
      BY <2>2, <2>5, PowerInAdd
  <2> QED
    BY <2>2, <2>4, <2>5, <2>6, ZenonT(60) DEF Powered
<1> QED
  BY <1>1, <1>2

\* The loop of HasQuorum, and its partial sums.
LEMMA VotesRun ==
    ASSUME NEW vals, NEW voters, Len(voters) \in Nat,
           \A i \in 1..Len(voters) : PowerOf(vals, voters[i]) \in Nat
    PROVE  \E got \in [0..Len(voters) -> Nat] :
             /\ got[0] = 0
             /\ \A i \in 1..Len(voters) :
                  got[i] = IF \E j \in 1..(i-1) : voters[j] = voters[i] THEN got[i-1]
                           ELSE Wrap(got[i-1] + PowerOf(vals, voters[i]))
             /\ HasQuorum(vals, voters) <=> got[Len(voters)] >= Quorum(vals)
<1> DEFINE n == Len(voters)
           Old(i) == \E j \in 1..(i-1) : voters[j] = voters[i]
           s == [i \in 1..n |-> [x \in Nat |->
                    IF Old(i) THEN x ELSE Wrap(x + PowerOf(vals, voters[i]))]]
           P(f) == f = [i \in 0..n |->
                          IF i = 0 THEN 0
                          ELSE IF Old(i) THEN f[i-1]
                          ELSE Wrap(f[i-1] + PowerOf(vals, voters[i]))]
           c == CHOOSE f : P(f)
<1>1. n \in Nat /\ \A i \in 1..n : PowerOf(vals, voters[i]) \in Nat
  OBVIOUS
<1>2. \A i \in 1..n, x \in Nat : Wrap(x + PowerOf(vals, voters[i])) \in Nat
  <2>1. \A i \in 1..n, x \in Nat : x + PowerOf(vals, voters[i]) \in Nat
    BY <1>1
  <2> HIDE DEF n
  <2> QED
    BY <2>1, WrapFits
<1> HIDE DEF Old
<1>3. PICK g : IsRun(g, s, n, Nat, 0)
  <2>1. IsLoop(s, n, Nat)
    BY <1>2 DEF IsLoop
  <2> HIDE DEF n, s
  <2> QED
    BY <1>1, <2>1, LoopRuns
<1>4. /\ g \in [0..n -> Nat] /\ g[0] = 0
      /\ \A i \in 1..n : g[i] = IF Old(i) THEN g[i-1]
                                ELSE Wrap(g[i-1] + PowerOf(vals, voters[i]))
  <2>1. \A i \in 1..n : i - 1 \in 0..n
    BY <1>1
  <2> HIDE DEF n
  <2> QED
    BY <1>3, <2>1 DEF IsRun
<1>5. P(g)
  <2> HIDE DEF n
  <2>1. g = [i \in 0..n |-> g[i]]
    BY <1>4
  <2>2. \A i \in 0..n : i = 0 \/ i \in 1..n
    BY <1>1
  <2> QED
    BY <1>4, <2>1, <2>2
<1>6. P(c)
  <2> HIDE DEF P
  <2> QED
    BY <1>5
<1>7. HasQuorum(vals, voters) <=> c[n] >= Quorum(vals)
  BY DEF HasQuorum, Old
<1> HIDE DEF c
<1>8. c[0] = 0 /\ \A i \in 1..n : c[i] = IF Old(i) THEN c[i-1]
                                  ELSE Wrap(c[i-1] + PowerOf(vals, voters[i]))
  <2> HIDE DEF n
  <2>1. 0 \in 0..n /\ \A i \in 1..n : i \in 0..n /\ i # 0
    BY <1>1
  <2> QED
    BY <1>6, <2>1
<1>9. c \in [0..n -> Nat]
  <2> HIDE DEF n
  <2> DEFINE S == {i \in 0..n : c[i] \in Nat}
  <2>1. 0 \in S
    BY <1>1, <1>8
  <2>2. ASSUME NEW i \in 1..n, i - 1 \in S PROVE i \in S
    <3>1. c[i-1] \in Nat /\ i \in 0..n
      BY <1>1, <2>2
    <3>2. Wrap(c[i-1] + PowerOf(vals, voters[i])) \in Nat
      BY <1>2, <3>1
    <3>3. c[i] \in Nat
      BY <1>8, <3>1, <3>2
    <3> QED
      BY <3>1, <3>3
  <2>3. \A i \in 0..n : i \in S
    <3> HIDE DEF S
    <3> QED
      BY <1>1, <2>1, <2>2, CountUp
  <2>4. DOMAIN c = 0..n /\ c = [i \in 0..n |-> c[i]]
    BY <1>6
  <2> QED
    BY <2>3, <2>4
<1> QED
  BY <1>7, <1>8, <1>9 DEF Old

\* HasQuorum holds exactly if the validators named by the votes, repeated or
\* not, have more than two thirds of the power: what it has counted after i
\* votes is the power of the validators among their voters.
LEMMA HasQuorumIs ==
    ASSUME NEW vals, Powered(vals), 2 * PowerIn(vals, 1..Len(vals)) <= MaxPower,
           \A i, j \in 1..Len(vals) : vals[i].Address = vals[j].Address => i = j,
           NEW voters, Len(voters) \in Nat
    PROVE  HasQuorum(vals, voters) <=>
             3 * PowerIn(vals, Among(vals, {voters[j] : j \in 1..Len(voters)}))
               > 2 * PowerIn(vals, 1..Len(vals))
<1>1. PICK m \in Nat : m = Len(voters)
  OBVIOUS
<1>2. \A a : PowerOf(vals, a) \in Nat
  <2>1. ASSUME NEW a PROVE PowerOf(vals, a) \in Nat
    <3>1. a \notin {}
      OBVIOUS
    <3> QED
      BY <3>1, LookupAdds
  <2> QED
    BY <2>1
<1>3. PICK got \in [0..m -> Nat] :
        /\ got[0] = 0
        /\ \A i \in 1..m :
             got[i] = IF \E j \in 1..(i-1) : voters[j] = voters[i] THEN got[i-1]
                      ELSE Wrap(got[i-1] + PowerOf(vals, voters[i]))
        /\ HasQuorum(vals, voters) <=> got[m] >= Quorum(vals)
  <2>1. \A i \in 1..Len(voters) : PowerOf(vals, voters[i]) \in Nat
    BY <1>2
  <2>2. PICK got \in [0..Len(voters) -> Nat] :
          /\ got[0] = 0
          /\ \A i \in 1..Len(voters) :
               got[i] = IF \E j \in 1..(i-1) : voters[j] = voters[i] THEN got[i-1]
                        ELSE Wrap(got[i-1] + PowerOf(vals, voters[i]))
          /\ HasQuorum(vals, voters) <=> got[Len(voters)] >= Quorum(vals)
    BY <2>1, VotesRun
  <2> QED
    BY <1>1, <2>2
<1>4. PowerIn(vals, 1..Len(vals)) \in Nat /\ PowerIn(vals, 1..Len(vals)) <= MaxPower
  <2>1. PowerIn(vals, 1..Len(vals)) \in Nat
    BY PowerInType
  <2> QED
    BY <2>1, PowerBitsAssumption
<1> DEFINE First(i) == {voters[j] : j \in 1..i}
           S == {i \in 0..m : got[i] = PowerIn(vals, Among(vals, First(i)))}
<1>5. 0 \in S
  <2>1. First(0) = {}
    OBVIOUS
  <2> HIDE DEF First
  <2>2. Among(vals, First(0)) = {}
    BY <2>1 DEF Among
  <2>3. got[0] = PowerIn(vals, Among(vals, First(0)))
    BY <1>3, <2>2, PowerInNone
  <2> QED
    BY <2>3
<1>6. ASSUME NEW i \in 1..m, i - 1 \in S PROVE i \in S
  <2>1. got[i-1] = PowerIn(vals, Among(vals, First(i-1)))
    BY <1>6
  <2>2. First(i) = First(i-1) \cup {voters[i]}
    <3>1. \A j : j \in 1..i <=> (j \in 1..(i-1) \/ j = i)
      OBVIOUS
    <3> QED
      BY <3>1
  <2>3. (\E j \in 1..(i-1) : voters[j] = voters[i]) <=> voters[i] \in First(i-1)
    OBVIOUS
  <2> HIDE DEF First
  <2>4. CASE voters[i] \in First(i-1)
    <3>1. First(i) = First(i-1)
      BY <2>2, <2>4
    <3>2. got[i] = got[i-1]
      BY <1>3, <2>3, <2>4
    <3> QED
      BY <2>1, <3>1, <3>2
  <2>5. CASE voters[i] \notin First(i-1)
    <3>1. PICK A : A = First(i-1)
      OBVIOUS
    <3>2. PICK a : a = voters[i]
      OBVIOUS
    <3>3. PowerIn(vals, Among(vals, A \cup {a}))
            = PowerIn(vals, Among(vals, A)) + PowerOf(vals, a)
      BY <2>5, <3>1, <3>2, LookupAdds
    <3>4. got[i] = Wrap(PowerIn(vals, Among(vals, First(i))))
      BY <1>3, <2>1, <2>2, <2>3, <2>5, <3>1, <3>2, <3>3
    <3>5. PowerIn(vals, Among(vals, First(i))) <= PowerIn(vals, 1..Len(vals))
      <4>1. Among(vals, First(i)) \subseteq 1..Len(vals)
        BY DEF Among
      <4> QED
        BY <4>1, PowerInMore
    <3>6. PowerIn(vals, Among(vals, First(i))) \in 0..MaxPower
      <4>1. PowerIn(vals, Among(vals, First(i))) \in Nat
        BY PowerInType
      <4> QED
        BY <1>4, <3>5, <4>1, PowerBitsAssumption
    <3>7. got[i] = PowerIn(vals, Among(vals, First(i)))
      BY <3>4, <3>6, WrapFits
    <3> QED
      BY <3>7
  <2> QED
    BY <2>4, <2>5
<1>7. \A i \in 0..m : i \in S
  <2> HIDE DEF S
  <2> QED
    BY <1>5, <1>6, CountUp
<1>8. got[m] = PowerIn(vals, Among(vals, First(m))) /\ got[m] \in Nat
  <2>1. m \in 0..m /\ got[m] \in Nat
    OBVIOUS
  <2>2. m \in S
    BY <1>7, <2>1
  <2> HIDE DEF First
  <2>3. got[m] = PowerIn(vals, Among(vals, First(m)))
    BY <2>2
  <2> QED
    BY <2>1, <2>3
<1> HIDE DEF First
<1>9. got[m] >= Quorum(vals) <=> 3 * got[m] > 2 * PowerIn(vals, 1..Len(vals))
  BY <1>8, QuorumIs
<1> QED
  BY <1>1, <1>3, <1>8, <1>9 DEF First

\* The power in either of two sets and the power in both add up.
LEMMA PowerInBoth ==
    ASSUME NEW vals, Powered(vals), NEW I, NEW J
    PROVE  PowerIn(vals, I) + PowerIn(vals, J)
             = PowerIn(vals, I \cup J) + PowerIn(vals, I \cap J)
<1>1. PICK n \in Nat : n = Len(vals)
  BY DEF Powered
<1> DEFINE Sums(f, K) == /\ f \in [0..n -> Nat] /\ f[0] = 0
                         /\ \A i \in 1..n : f[i] = f[i-1] + Share(vals, K, i)
                         /\ PowerIn(vals, K) = f[n]
<1>2. \A K : \E f : Sums(f, K)
  BY <1>1, PowerInRuns
<1>3. PICK f, g, u, v : Sums(f, I) /\ Sums(g, J) /\ Sums(u, I \cup J) /\ Sums(v, I \cap J)
  <2> HIDE DEF Sums
  <2> QED
    BY <1>2
<1> DEFINE S == {i \in 0..n : f[i] + g[i] = u[i] + v[i]}
<1>4. 0 \in S
  BY <1>3
<1>5. ASSUME NEW i \in 1..n, i - 1 \in S PROVE i \in S
  <2>1. PICK p \in Nat : p = vals[i].Power
    BY <1>1 DEF Powered
  <2>2. PICK a, b, c, d \in Nat : /\ a = Share(vals, I, i) /\ b = Share(vals, J, i)
                                  /\ c = Share(vals, I \cup J, i)
                                  /\ d = Share(vals, I \cap J, i)
    BY <2>1 DEF Share
  <2>3. a + b = c + d
    <3>1. /\ a = IF i \in I THEN p ELSE 0
          /\ b = IF i \in J THEN p ELSE 0
          /\ c = IF i \in I \/ i \in J THEN p ELSE 0
          /\ d = IF i \in I /\ i \in J THEN p ELSE 0
      BY <2>1, <2>2 DEF Share
    <3> QED
      BY <3>1
  <2>4. i - 1 \in 0..n /\ f[i-1] + g[i-1] = u[i-1] + v[i-1]
    BY <1>5
  <2>5. f[i-1] \in Nat /\ g[i-1] \in Nat /\ u[i-1] \in Nat /\ v[i-1] \in Nat
    BY <1>3, <2>4
  <2>6. f[i] = f[i-1] + a /\ g[i] = g[i-1] + b /\ u[i] = u[i-1] + c /\ v[i] = v[i-1] + d
    BY <1>3, <2>2
  <2> QED
    BY <2>3, <2>4, <2>5, <2>6
<1>6. \A i \in 0..n : i \in S
  <2> HIDE DEF S
  <2> QED
    BY <1>4, <1>5, CountUp
<1> QED
  BY <1>3, <1>6

\* Any two quorums share validators with more than a third of the power: with
\* fewer faulty ones than that, two conflicting decisions cannot both find a
\* quorum.  It holds for votes in any order, repeated or from strangers,
\* wherever twice the power fits its width and no address is listed twice
\* (validation.go:46-67).
THEOREM QuorumsOverlap ==
    ASSUME NEW vals, Powered(vals), 2 * PowerIn(vals, 1..Len(vals)) <= MaxPower,
           \A i, j \in 1..Len(vals) : vals[i].Address = vals[j].Address => i = j,
           NEW ayes, Len(ayes) \in Nat, HasQuorum(vals, ayes),
           NEW noes, Len(noes) \in Nat, HasQuorum(vals, noes)
    PROVE  3 * PowerIn(vals, Among(vals, {ayes[i] : i \in 1..Len(ayes)}
                                           \cap {noes[i] : i \in 1..Len(noes)}))
             > PowerIn(vals, 1..Len(vals))
<1> DEFINE A == {ayes[i] : i \in 1..Len(ayes)}
           N == {noes[i] : i \in 1..Len(noes)}
           I == Among(vals, A)
           J == Among(vals, N)
<1>1. PICK p \in Nat : p = PowerIn(vals, 1..Len(vals))
  BY PowerInType
<1>2. 3 * PowerIn(vals, I) > 2 * p /\ 3 * PowerIn(vals, J) > 2 * p
  BY <1>1, HasQuorumIs, SMTT(40)
<1>3. Among(vals, A \cap N) = I \cap J /\ I \cup J \subseteq 1..Len(vals)
  BY DEF Among
<1> HIDE DEF I, J, A, N
<1>4. PICK a, b, c, d \in Nat : /\ a = PowerIn(vals, I) /\ b = PowerIn(vals, J)
                                /\ c = PowerIn(vals, I \cup J) /\ d = PowerIn(vals, I \cap J)
  BY PowerInType
<1>5. a + b = c + d
  <2>1. PowerIn(vals, I) + PowerIn(vals, J)
          = PowerIn(vals, I \cup J) + PowerIn(vals, I \cap J)
    BY PowerInBoth
  <2> QED
    BY <1>4, <2>1
<1>6. c <= p
  BY <1>1, <1>3, <1>4, PowerInMore
<1>7. 3 * d > p
  <2>1. 3 * a > 2 * p /\ 3 * b > 2 * p
    BY <1>2, <1>4
  <2> HIDE <1>2, <1>4
  <2> QED
    BY <1>5, <1>6, <2>1
<1> QED
  BY <1>1, <1>3, <1>4, <1>7 DEF A, N

\* The orders of a finite set name each of its elements once.
LEMMA OrdersAre ==
    ASSUME NEW S, IsFiniteSet(S), NEW order \in SetToSeqs(S)
    PROVE  /\ Len(order) \in Nat /\ DOMAIN order = 1..Len(order)
           /\ \A i, j \in 1..Len(order) : order[i] = order[j] => i = j
           /\ {order[i] : i \in 1..Len(order)} = S
           /\ order \in Seq(S)
<1>1. PICK n \in Nat : n = Cardinality(S)
  BY FS_CardinalityType
<1>2. order \in [1..n -> S] /\ \A i, j \in 1..n : i # j => order[i] # order[j]
  BY <1>1 DEF SetToSeqs
<1>3. Len(order) = n /\ order \in Seq(S)
  BY <1>2
<1>4. order \in Injection(1..n, S)
  BY <1>2 DEF Injection, IsInjective
<1>5. Cardinality(1..n) = n
  BY FS_Interval
<1>6. order \in Surjection(1..n, S)
  BY <1>1, <1>4, <1>5, FS_Injection
<1>7. \A x \in S : \E i \in 1..n : order[i] = x
  BY <1>6 DEF Surjection
<1> QED
  BY <1>2, <1>3, <1>7

\* Votes come one at a time.
LEMMA FiniteVotes == EngineSpec => []IsFiniteSet(DOMAIN votes)
<1>1. EngineInit => IsFiniteSet(DOMAIN votes)
  BY FS_EmptySet DEF EngineInit, EmptyMap
<1>2. IsFiniteSet(DOMAIN votes) /\ [EngineNext]_EngineVars => IsFiniteSet(DOMAIN votes)'
  <2> SUFFICES ASSUME IsFiniteSet(DOMAIN votes), [EngineNext]_EngineVars
               PROVE  IsFiniteSet(DOMAIN votes')
    OBVIOUS
  <2>1. ASSUME NEW v \in Votes, Vote(v) PROVE IsFiniteSet(DOMAIN votes')
    <3>1. DOMAIN votes' = DOMAIN votes \cup {v.Validator}
      BY <2>1 DEF Vote, MapPut
    <3> QED
      BY <3>1, FS_AddElement
  <2>2. ASSUME votes' = EmptyMap PROVE IsFiniteSet(DOMAIN votes')
    BY <2>2, FS_EmptySet DEF EmptyMap
  <2>3. ASSUME votes' = votes PROVE IsFiniteSet(DOMAIN votes')
    BY <2>3
  <2> QED
    BY <2>1, <2>2, <2>3 DEF EngineNext, EngineVars, Step, SetHeight, SetView
<1> QED
  BY <1>1, <1>2, PTL DEF EngineSpec

\* Validators have powers.
LEMMA NetworkPowered == EngineTypeOK => Powered(validators)
<1> SUFFICES ASSUME EngineTypeOK PROVE Powered(validators)
  OBVIOUS
<1>1. validators \in Networks
  BY DEF EngineTypeOK
<1>2. /\ validators \in Seq({validators[i] : i \in 1..Len(validators)})
      /\ \A i \in 1..Len(validators) : validators[i].Power \in 0..MaxPower
  BY <1>1, NetworksAssumption
<1>3. Len(validators) \in Nat
  BY <1>2
<1>4. \A i \in 1..Len(validators) : validators[i].Power \in Nat
  BY <1>2, PowerBitsAssumption
<1> QED
  BY <1>3, <1>4 DEF Powered

\* HasQuorum holds exactly if the voters have more than two thirds of the
\* power, for the votes in any order and with one of them repeated, wherever
\* the doubled power fits its width and no address is listed twice
\* (validation.go:46-67).
THEOREM QuorumsAreRight == EngineSpec => []QuorumIsTwoThirds
<1> DEFINE n == Len(validators)
           all == PowerIn(validators, 1..n)
           voted == {i \in 1..n : validators[i].Address \in DOMAIN votes}
           Again(order) == IF order = <<>> THEN order ELSE Append(order, order[1])
<1>1. ASSUME EngineTypeOK, IsFiniteSet(DOMAIN votes),
             \A i, j \in 1..n : validators[i].Address = validators[j].Address => i = j,
             2 * all <= MaxPower, NEW order \in SetToSeqs(DOMAIN votes)
      PROVE  HasQuorum(validators, Again(order))
               <=> 3 * PowerIn(validators, voted) > 2 * all
  <2>1. Powered(validators)
    BY <1>1, NetworkPowered
  <2>2. PICK m \in Nat : m = Len(order)
    BY <1>1, OrdersAre
  <2>3. {order[i] : i \in 1..m} = DOMAIN votes /\ order \in Seq(DOMAIN votes)
    BY <1>1, <2>2, OrdersAre
  <2>4. PICK a : a = Again(order)
    OBVIOUS
  <2>5. Len(a) \in Nat /\ {a[j] : j \in 1..Len(a)} = DOMAIN votes
    <3>1. CASE order = <<>>
      <4>1. a = <<>> /\ m = 0 /\ Len(a) = 0
        BY <2>2, <2>4, <3>1
      <4>2. DOMAIN votes = {}
        BY <2>3, <4>1
      <4> QED
        BY <4>1, <4>2
    <3>2. CASE order # <<>>
      <4>1. a = Append(order, order[1]) /\ 1 \in 1..m
        BY <2>2, <2>3, <2>4, <3>2
      <4>2. order[1] \in DOMAIN votes
        BY <2>3, <4>1
      <4>3. /\ Len(a) = m + 1 /\ a[m + 1] = order[1]
            /\ \A j \in 1..m : a[j] = order[j]
        BY <2>2, <2>3, <4>1, <4>2
      <4>4. \A j \in 1..Len(a) : j \in 1..m \/ j = m + 1
        BY <4>3
      <4>5. \A j \in 1..m : j \in 1..Len(a)
        BY <4>3
      <4>6. \A x \in DOMAIN votes : \E j \in 1..m : order[j] = x
        BY <2>3
      <4>7. \A j \in 1..m : order[j] \in DOMAIN votes
        BY <2>3
      <4>8. \A j \in 1..Len(a) : a[j] \in DOMAIN votes
        BY <4>2, <4>3, <4>4, <4>7
      <4>9. \A x \in DOMAIN votes : \E j \in 1..Len(a) : a[j] = x
        BY <4>3, <4>5, <4>6
      <4>10. Len(a) \in Nat
        BY <4>3
      <4>11. {a[j] : j \in 1..Len(a)} = DOMAIN votes
        <5> HIDE <4>3, <4>10
        <5> QED
          BY <4>8, <4>9
      <4> QED
        BY <4>10, <4>11
    <3> QED
      BY <3>1, <3>2
  <2>6. Among(validators, {a[j] : j \in 1..Len(a)}) = voted
    BY <2>5 DEF Among
  <2> HIDE DEF voted, Again
  <2>7. HasQuorum(validators, a) <=>
          3 * PowerIn(validators, Among(validators, {a[j] : j \in 1..Len(a)})) > 2 * all
    BY <1>1, <2>1, <2>5, HasQuorumIs
  <2> QED
    BY <2>4, <2>6, <2>7
<1>2. EngineTypeOK /\ IsFiniteSet(DOMAIN votes) => QuorumIsTwoThirds
  BY <1>1 DEF QuorumIsTwoThirds
<1> QED
  BY <1>2, EngineTypeCorrect, FiniteVotes, PTL

\* Voters that are validators have at least as much power as they are many.
LEMMA PowerOfMany ==
    ASSUME NEW vals, Powered(vals), \A i \in 1..Len(vals) : vals[i].Power # 0, NEW I,
           NEW A, A = {vals[i].Address : i \in I \cap (1..Len(vals))}
    PROVE  IsFiniteSet(A) /\ Cardinality(A) <= PowerIn(vals, I)
<1>1. PICK n \in Nat : n = Len(vals)
  BY DEF Powered
<1>2. PICK f \in [0..n -> Nat] :
        /\ f[0] = 0
        /\ \A i \in 1..n : f[i] = f[i-1] + Share(vals, I, i)
        /\ PowerIn(vals, I) = f[n]
  BY <1>1, PowerInRuns
<1> DEFINE First(i) == {vals[j].Address : j \in I \cap (1..i)}
           S == {i \in 0..n : IsFiniteSet(First(i)) /\ Cardinality(First(i)) <= f[i]}
<1>3. 0 \in S
  <2>1. First(0) = {}
    OBVIOUS
  <2>2. IsFiniteSet({}) /\ Cardinality({}) = 0
    BY FS_EmptySet
  <2>3. 0 \in 0..n /\ f[0] = 0
    BY <1>2
  <2> HIDE DEF First
  <2> QED
    BY <2>1, <2>2, <2>3
<1>4. ASSUME NEW i \in 1..n, i - 1 \in S PROVE i \in S
  <2>1. /\ IsFiniteSet(First(i-1)) /\ Cardinality(First(i-1)) <= f[i-1]
        /\ Cardinality(First(i-1)) \in Nat /\ f[i-1] \in Nat /\ f[i] \in Nat
    <3>1. IsFiniteSet(First(i-1)) /\ Cardinality(First(i-1)) <= f[i-1] /\ i - 1 \in 0..n /\ i \in 0..n
      BY <1>4
    <3> HIDE DEF First
    <3> QED
      BY <1>2, <3>1, FS_CardinalityType
  <2>2. f[i] = f[i-1] + Share(vals, I, i)
    BY <1>2
  <2>3. i - 1 \in Nat /\ 1..i = (1..(i-1)) \cup {i}
    OBVIOUS
  <2>4. CASE i \in I
    <3>1. First(i) = First(i-1) \cup {vals[i].Address}
      BY <2>3, <2>4
    <3>2. Share(vals, I, i) \in Nat /\ Share(vals, I, i) >= 1
      BY <1>1, <2>4 DEF Share, Powered
    <3> HIDE DEF First
    <3>3. /\ IsFiniteSet(First(i))
          /\ Cardinality(First(i)) <= Cardinality(First(i-1)) + 1
          /\ Cardinality(First(i)) \in Nat
      <4>1. PICK D, x : D = First(i-1) /\ x = vals[i].Address
        OBVIOUS
      <4>2. IsFiniteSet(D) /\ Cardinality(D) \in Nat /\ First(i) = D \cup {x}
        BY <2>1, <3>1, <4>1
      <4>3. /\ IsFiniteSet(D \cup {x})
            /\ Cardinality(D \cup {x}) = IF x \in D THEN Cardinality(D) ELSE Cardinality(D) + 1
        BY <4>2, FS_AddElement
      <4> QED
        BY <4>1, <4>2, <4>3
    <3> QED
      BY <2>1, <2>2, <3>2, <3>3
  <2>5. CASE i \notin I
    <3>1. First(i) = First(i-1)
      BY <2>3, <2>5
    <3>2. Share(vals, I, i) = 0
      BY <2>5 DEF Share
    <3> HIDE DEF First
    <3> QED
      BY <2>1, <2>2, <3>1, <3>2
  <2> QED
    BY <2>4, <2>5
<1>5. \A i \in 0..n : i \in S
  <2> HIDE DEF S
  <2> QED
    BY <1>3, <1>4, CountUp
<1>6. n \in 0..n /\ A = First(n)
  BY <1>1
<1> QED
  BY <1>2, <1>5, <1>6

\* Whatever the powers, a finalized round has votes of its own height and view
\* of validators with more than two thirds of the power, but for a power of 1
\* for every vote of a stranger or of an earlier height (simulator.go:61-70,
\* validation.go:46-52, bft.go:40-43).
THEOREM FinalityNeedsQuorum == EngineSpec => []FinalizedHasQuorum
<1> DEFINE n == Len(validators)
           all == PowerIn(validators, 1..n)
           now == {a \in DOMAIN votes : votes[a].Height = height /\ votes[a].View = view}
           voted == {i \in 1..n : validators[i].Address \in now}
           own == {validators[i].Address : i \in voted}
           others == DOMAIN votes \ own
<1>1. ASSUME EngineTypeOK, IsFiniteSet(DOMAIN votes), Finalized, 2 * all <= MaxPower
      PROVE  3 * (PowerIn(validators, voted) + Cardinality(others)) > 2 * all
  <2>1. Powered(validators) /\ n \in Nat
    BY <1>1, NetworkPowered DEF Powered
  <2>2. \A i \in 1..n : validators[i].Power # 0
    BY <1>1, NetworksAssumption DEF EngineTypeOK, ValidateNetwork
  <2>3. own \subseteq DOMAIN votes /\ own = {validators[i].Address : i \in voted \cap (1..n)}
    OBVIOUS
  <2>4. Cardinality(DOMAIN votes) >= Quorum(validators)
    BY <1>1 DEF Finalized
  <2> HIDE DEF own, voted
  <2>5. IsFiniteSet(own) /\ Cardinality(own) <= PowerIn(validators, voted)
    BY <2>1, <2>2, <2>3, PowerOfMany
  <2>6. IsFiniteSet(others) /\ Cardinality(others) = Cardinality(DOMAIN votes) - Cardinality(own)
    <3>1. DOMAIN votes \cap own = own
      BY <2>3
    <3> QED
      BY <1>1, <3>1, FS_Difference
  <2>7. /\ Cardinality(DOMAIN votes) \in Nat /\ Cardinality(own) \in Nat
        /\ Cardinality(others) \in Nat
    BY <1>1, <2>5, <2>6, FS_CardinalityType
  <2>8. PowerIn(validators, voted) \in Nat /\ all \in Nat
    BY <2>1, PowerInType
  <2>9. 3 * Cardinality(DOMAIN votes) > 2 * all
    <3> HIDE DEF others
    <3> QED
      BY <1>1, <2>1, <2>4, <2>7, <2>8, QuorumIs
  <2> HIDE DEF others, all
  <2> QED
    BY <2>5, <2>6, <2>7, <2>8, <2>9
<1>2. EngineTypeOK /\ IsFiniteSet(DOMAIN votes) => FinalizedHasQuorum
  BY <1>1 DEF FinalizedHasQuorum
<1> QED
  BY <1>2, EngineTypeCorrect, FiniteVotes, PTL
-----------------------------------------------------------------------------
(* The records of evidence.go. *)

\* A round is a record of its four fields; evidence is open or resolved and
\* stays within its limit.
RecordInv ==
    /\ round = [View |-> round.View, Phase |-> round.Phase,
                Proposals |-> round.Proposals, Votes |-> round.Votes]
    /\ items \in [DOMAIN items -> BOOLEAN]
    /\ IsFiniteSet(DOMAIN items) /\ Cardinality(DOMAIN items) <= MaxEvidence

RecordNext == RoundStep \/ ScheduleStep \/ EvidenceStep

\* What was recorded before is recorded afterwards.
RecordKept ==
    /\ Continues(round.Proposals', round.Proposals)
    /\ Continues(round.Votes', round.Votes)
    /\ \A id \in DOMAIN items : id \in DOMAIN items' /\ (items[id] => items'[id])
    /\ Cardinality(DOMAIN items') <= MaxEvidence

\* A map with one more key continues it, and so does the map itself.
LEMMA MapContinues ==
    ASSUME NEW m
    PROVE  /\ Continues(m, m)
           /\ \A k : k \notin DOMAIN m =>
                Continues(MapPut(m, k, [Height |-> RoundHeight, View |-> round.View]), m)
BY DEF Continues, MapPut

\* A call on the round keeps its proposals and votes.
LEMMA RoundStepKeeps ==
    ASSUME RecordInv, RoundStep PROVE RecordInv' /\ RecordKept
<1>1. PICK v, f, p, w : round = [View |-> v, Phase |-> f, Proposals |-> p, Votes |-> w]
  BY DEF RecordInv
<1>2. items' = items
  BY DEF RoundStep
<1>3. round.View = v /\ round.Proposals = p /\ round.Votes = w
  BY <1>1
<1> DEFINE Fine == /\ round' = [View |-> round'.View, Phase |-> round'.Phase,
                                Proposals |-> round'.Proposals, Votes |-> round'.Votes]
                   /\ Continues(round'.Proposals, p) /\ Continues(round'.Votes, w)
<1>4. Fine
  <2>1. ASSUME NEW b \in Proposed, NEW h \in Heights, NEW x \in 0..MaxView, AddProposal(b, h, x)
        PROVE  Fine
    <3>1. /\ b \notin DOMAIN p
          /\ round' = [View |-> v, Phase |-> f, Votes |-> w,
                       Proposals |-> MapPut(p, b, [Height |-> RoundHeight, View |-> v])]
      BY <1>1, <2>1 DEF AddProposal
    <3> QED
      BY <1>3, <3>1, MapContinues
  <2>2. ASSUME NEW a \in Signers, NEW h \in Heights, NEW x \in 0..MaxView, AddVote(a, h, x)
        PROVE  Fine
    <3>1. /\ a \notin DOMAIN w
          /\ round' = [View |-> v, Phase |-> f, Proposals |-> p,
                       Votes |-> MapPut(w, a, [Height |-> RoundHeight, View |-> v])]
      BY <1>1, <2>2 DEF AddVote
    <3> QED
      BY <1>3, <3>1, MapContinues
  <2>3. ASSUME Advance PROVE Fine
    <3>1. PICK y, g : round' = [View |-> y, Phase |-> g, Proposals |-> p, Votes |-> w]
      BY <1>1, <2>3 DEF Advance
    <3> QED
      BY <1>3, <3>1, MapContinues
  <2> QED
    BY <2>1, <2>2, <2>3 DEF RoundStep
<1>5. \A id \in DOMAIN items : id \in DOMAIN items' /\ (items[id] => items'[id])
  BY <1>2
<1> QED
  BY <1>2, <1>3, <1>4, <1>5 DEF RecordInv, RecordKept

\* A report or a resolution keeps the evidence.
LEMMA EvidenceStepKeeps ==
    ASSUME RecordInv, EvidenceStep PROVE RecordInv' /\ RecordKept
<1>1. round' = round /\ Continues(round.Proposals, round.Proposals)
        /\ Continues(round.Votes, round.Votes)
  BY MapContinues DEF EvidenceStep
<1>2. PICK id \in EvidenceIDs :
        Resolve(id) \/ \E resolved \in BOOLEAN : AddEvidence(id, resolved)
  BY DEF EvidenceStep
<1>3. ASSUME NEW resolved \in BOOLEAN, AddEvidence(id, resolved)
      PROVE  RecordInv' /\ RecordKept
  <2>1. id \notin DOMAIN items /\ items' = MapPut(items, id, resolved)
        /\ ~(Cardinality(DOMAIN items) >= MaxEvidence)
    BY <1>3 DEF AddEvidence, EvidenceFull
  <2>2. DOMAIN items' = DOMAIN items \cup {id}
    BY <2>1 DEF MapPut
  <2>3. PICK D : D = DOMAIN items
    OBVIOUS
  <2>4. IsFiniteSet(D) /\ id \notin D /\ Cardinality(D) \in Nat /\ Cardinality(D) < MaxEvidence
    BY <2>1, <2>3, FS_CardinalityType, RecordsAssumption DEF RecordInv
  <2>5. IsFiniteSet(DOMAIN items') /\ Cardinality(DOMAIN items') <= MaxEvidence
    <3>1. IsFiniteSet(D \cup {id}) /\ Cardinality(D \cup {id}) = Cardinality(D) + 1
      BY <2>4, FS_AddElement
    <3> QED
      BY <2>2, <2>3, <2>4, <3>1, RecordsAssumption
  <2>6. items' \in [DOMAIN items' -> BOOLEAN]
    BY <2>1, <2>2 DEF MapPut, RecordInv
  <2>7. \A x \in DOMAIN items : x \in DOMAIN items' /\ items'[x] = items[x]
    BY <2>1 DEF MapPut
  <2> QED
    BY <1>1, <2>5, <2>6, <2>7 DEF RecordInv, RecordKept
<1>4. CASE Resolve(id)
  <2>1. id \in DOMAIN items /\ items' = [items EXCEPT ![id] = TRUE]
    BY <1>4 DEF Resolve
  <2>2. DOMAIN items' = DOMAIN items /\ items' \in [DOMAIN items' -> BOOLEAN]
    BY <2>1 DEF RecordInv
  <2>3. \A x \in DOMAIN items : items[x] => items'[x]
    BY <2>1
  <2> QED
    BY <1>1, <2>2, <2>3 DEF RecordInv, RecordKept
<1> QED
  BY <1>2, <1>3, <1>4

\* What a validator has recorded stays: proposals and votes in every later
\* view, evidence and its resolution for good, and the pool of evidence keeps
\* its limit (evidence.go:48-58, 76-86, 112-152).
THEOREM RecordsAreKept == RecordSpec => RecordsStay
<1>1. RecordInit => RecordInv
  <2> SUFFICES ASSUME RecordInit PROVE RecordInv
    OBVIOUS
  <2>1. DOMAIN items = {} /\ items \in [DOMAIN items -> BOOLEAN]
    BY DEF RecordInit, EmptyMap
  <2>2. Cardinality(DOMAIN items) = 0 /\ IsFiniteSet(DOMAIN items)
    BY <2>1, FS_EmptySet
  <2> QED
    BY <2>1, <2>2, RecordsAssumption DEF RecordInit, RecordInv, NewRound
<1>2. ASSUME RecordInv, RecordNext PROVE RecordInv' /\ RecordKept
  <2>1. CASE ScheduleStep
    <3>1. round' = round /\ items' = items
      BY <2>1 DEF ScheduleStep
    <3>2. \A id \in DOMAIN items : id \in DOMAIN items' /\ (items[id] => items'[id])
      BY <3>1
    <3> QED
      BY <1>2, <3>1, <3>2, MapContinues DEF RecordInv, RecordKept
  <2> QED
    BY <1>2, <2>1, RoundStepKeeps, EvidenceStepKeeps DEF RecordNext
<1>3. RecordInv /\ UNCHANGED RecordVars => RecordInv'
  BY DEF RecordInv, RecordVars
<1>4. RecordInv /\ [RecordNext]_RecordVars => RecordInv'
  BY <1>2, <1>3
<1>5. RecordInv /\ [RecordNext]_RecordVars => [RecordKept]_RecordVars
  BY <1>2
<1> QED
  BY <1>1, <1>4, <1>5, PTL DEF RecordSpec, RecordNext, RecordsStay, RecordKept

\* A schedule has finitely many rotations, none of them at height 0, to
\* validator sets that were announced.
HistoryInv ==
    /\ IsFiniteSet(DOMAIN history) /\ DOMAIN history \subseteq 1..MaxRotation
    /\ \A x \in DOMAIN history : history[x] \in Rotations

\* Rotations come one at a time.
LEMMA HistoryHolds == RecordSpec => []HistoryInv
<1>1. RecordInit => HistoryInv
  BY FS_EmptySet DEF RecordInit, HistoryInv, EmptyMap
<1>2. HistoryInv /\ [RecordNext]_RecordVars => HistoryInv'
  <2> SUFFICES ASSUME HistoryInv, [RecordNext]_RecordVars PROVE HistoryInv'
    OBVIOUS
  <2>1. ASSUME NEW h \in 0..MaxRotation, NEW vals \in Rotations, Rotate(h, vals)
        PROVE  HistoryInv'
    <3>1. PICK D : D = DOMAIN history
      OBVIOUS
    <3>2. DOMAIN history' = D \cup {h} /\ h \in 1..MaxRotation
      BY <2>1, <3>1, RecordsAssumption DEF Rotate, MapPut
    <3>3. IsFiniteSet(D \cup {h}) /\ D \cup {h} \subseteq 1..MaxRotation
      BY <3>1, <3>2, FS_AddElement DEF HistoryInv
    <3>4. \A x \in DOMAIN history' : history'[x] \in Rotations
      BY <2>1 DEF Rotate, MapPut, HistoryInv
    <3> QED
      BY <3>2, <3>3, <3>4 DEF HistoryInv
  <2>2. ASSUME history' = history PROVE HistoryInv'
    BY <2>2 DEF HistoryInv
  <2> QED
    BY <2>1, <2>2
    DEF RecordNext, RecordVars, RoundStep, ScheduleStep, EvidenceStep
<1> QED
  BY <1>1, <1>2, PTL DEF RecordSpec, RecordNext

\* The loop of At, and the best rotation after each of its rounds.
LEMMA AtRuns ==
    ASSUME NEW order, Len(order) \in Nat, NEW h,
           \A i \in 1..Len(order) : order[i] \in DOMAIN history
    PROVE  \E best : /\ best[0] = [at |-> 0, vals |-> Genesis]
                     /\ \A i \in 1..Len(order) : best[i] = AtStep(best[i-1], order[i], h)
                     /\ AtInOrder(order, h) = best[Len(order)].vals
<1> DEFINE n == Len(order)
           start == [at |-> 0, vals |-> Genesis]
           X == {[at |-> x, vals |-> history[x]] : x \in DOMAIN history} \cup {start}
           s == [i \in 1..n |-> [x \in X |-> AtStep(x, order[i], h)]]
           P(f) == f = [i \in 0..n |->
                          IF i = 0 THEN [at |-> 0, vals |-> Genesis]
                          ELSE AtStep(f[i-1], order[i], h)]
           c == CHOOSE f : P(f)
<1>1. n \in Nat /\ start \in X
  OBVIOUS
<1>2. \A i \in 1..n, x \in X : AtStep(x, order[i], h) \in X
  BY DEF AtStep
<1>3. PICK g : IsRun(g, s, n, X, start)
  <2>1. IsLoop(s, n, X)
    <3> HIDE DEF X, n
    <3> QED
      BY <1>2 DEF IsLoop
  <2> HIDE DEF n, s, X, start
  <2> QED
    BY <1>1, <2>1, LoopRuns
<1>4. /\ g \in [0..n -> X] /\ g[0] = start
      /\ \A i \in 1..n : g[i] = AtStep(g[i-1], order[i], h)
  <2>1. \A i \in 1..n : i - 1 \in 0..n
    BY <1>1
  <2> HIDE DEF n, X, start
  <2> QED
    BY <1>3, <2>1 DEF IsRun
<1>5. P(g)
  <2> HIDE DEF n, X
  <2>1. g = [i \in 0..n |-> g[i]]
    BY <1>4
  <2>2. \A i \in 0..n : i = 0 \/ i \in 1..n
    BY <1>1
  <2> QED
    BY <1>4, <2>1, <2>2
<1>6. P(c)
  <2> HIDE DEF P
  <2> QED
    BY <1>5
<1>7. AtInOrder(order, h) = c[n].vals
  BY DEF AtInOrder
<1> HIDE DEF c
<1>8. c[0] = start /\ \A i \in 1..n : c[i] = AtStep(c[i-1], order[i], h)
  <2> HIDE DEF n
  <2>1. 0 \in 0..n /\ \A i \in 1..n : i \in 0..n /\ i # 0
    BY <1>1
  <2> QED
    BY <1>6, <2>1
<1> QED
  BY <1>7, <1>8

\* r is the best rotation for h among those at the heights in A: the first
\* validators if none is due, the latest one that is due otherwise.
IsBest(r, A, h) ==
    \/ r = [at |-> 0, vals |-> Genesis] /\ \A y \in A : ~(y <= h)
    \/ /\ r.at \in A /\ r.at <= h /\ r.vals = history[r.at]
       /\ \A y \in A : y <= h => y <= r.at

\* One round of the loop adds one rotation to those looked at.
LEMMA BestStep ==
    ASSUME NEW A \in SUBSET Nat, NEW x \in Nat, x # 0, NEW h \in Nat, NEW r, IsBest(r, A, h)
    PROVE  IsBest(AtStep(r, x, h), A \cup {x}, h)
<1>1. CASE r = [at |-> 0, vals |-> Genesis] /\ \A y \in A : ~(y <= h)
  <2>1. r.at = 0
    BY <1>1
  <2>2. CASE x <= h
    <3>1. AtStep(r, x, h) = [at |-> x, vals |-> history[x]]
      BY <2>1, <2>2 DEF AtStep
    <3> QED
      BY <1>1, <2>2, <3>1 DEF IsBest
  <2>3. CASE ~(x <= h)
    BY <1>1, <2>3 DEF AtStep, IsBest
  <2> QED
    BY <2>2, <2>3
<1>2. CASE /\ r.at \in A /\ r.at <= h /\ r.vals = history[r.at]
           /\ \A y \in A : y <= h => y <= r.at
  <2>1. PICK m \in Nat : m = r.at
    BY <1>2
  <2>2. CASE x <= h /\ x >= m
    <3>1. AtStep(r, x, h) = [at |-> x, vals |-> history[x]]
      BY <2>1, <2>2 DEF AtStep
    <3>2. \A y \in A : y <= h => y <= x
      BY <1>2, <2>1, <2>2
    <3> QED
      BY <2>2, <3>1, <3>2 DEF IsBest
  <2>3. CASE ~(x <= h /\ x >= m)
    <3>1. AtStep(r, x, h) = r
      BY <2>1, <2>3 DEF AtStep
    <3>2. x <= h => x <= m
      BY <2>3
    <3> QED
      BY <1>2, <2>1, <3>1, <3>2 DEF IsBest
  <2> QED
    BY <2>2, <2>3
<1> QED
  BY <1>1, <1>2 DEF IsBest

\* However it walks the history, At finds the best rotation.
LEMMA AtFindsBest ==
    ASSUME HistoryInv, NEW h \in Nat, NEW order \in SetToSeqs(DOMAIN history)
    PROVE  \E r : IsBest(r, DOMAIN history, h) /\ AtInOrder(order, h) = r.vals
<1>1. PICK n \in Nat : n = Len(order)
  BY OrdersAre DEF HistoryInv
<1>2. /\ \A i \in 1..n : order[i] \in DOMAIN history /\ order[i] \in Nat /\ order[i] # 0
      /\ {order[i] : i \in 1..n} = DOMAIN history
  <2>1. {order[i] : i \in 1..n} = DOMAIN history
    BY <1>1, OrdersAre DEF HistoryInv
  <2>2. \A x \in DOMAIN history : x \in Nat /\ x # 0
    BY RecordsAssumption DEF HistoryInv
  <2> QED
    BY <2>1, <2>2
<1>3. PICK best : /\ best[0] = [at |-> 0, vals |-> Genesis]
                  /\ \A i \in 1..n : best[i] = AtStep(best[i-1], order[i], h)
                  /\ AtInOrder(order, h) = best[n].vals
  <2>1. \A i \in 1..Len(order) : order[i] \in DOMAIN history
    BY <1>1, <1>2
  <2>2. PICK best : /\ best[0] = [at |-> 0, vals |-> Genesis]
                    /\ \A i \in 1..Len(order) : best[i] = AtStep(best[i-1], order[i], h)
                    /\ AtInOrder(order, h) = best[Len(order)].vals
    BY <1>1, <2>1, AtRuns
  <2> QED
    BY <1>1, <2>2
<1> DEFINE First(i) == {order[j] : j \in 1..i}
           S == {i \in 0..n : IsBest(best[i], First(i), h)}
<1>4. 0 \in S
  <2>1. First(0) = {}
    OBVIOUS
  <2> HIDE DEF First
  <2> QED
    BY <1>3, <2>1 DEF IsBest
<1>5. ASSUME NEW i \in 1..n, i - 1 \in S PROVE i \in S
  <2>1. First(i) = First(i-1) \cup {order[i]}
    <3>1. \A j : j \in 1..i <=> (j \in 1..(i-1) \/ j = i)
      OBVIOUS
    <3> QED
      BY <3>1
  <2>2. First(i-1) \in SUBSET Nat
    <3>1. \A j \in 1..(i-1) : j \in 1..n
      OBVIOUS
    <3> QED
      BY <1>2, <3>1
  <2>3. IsBest(best[i-1], First(i-1), h)
    BY <1>5
  <2> HIDE DEF First
  <2>4. PICK A, r, x : A = First(i-1) /\ r = best[i-1] /\ x = order[i]
    OBVIOUS
  <2>5. IsBest(AtStep(r, x, h), A \cup {x}, h)
    BY <1>2, <2>2, <2>3, <2>4, BestStep
  <2>6. IsBest(best[i], First(i), h)
    BY <1>3, <2>1, <2>4, <2>5
  <2> QED
    BY <2>6
<1>6. \A i \in 0..n : i \in S
  <2> HIDE DEF S
  <2> QED
    BY <1>4, <1>5, CountUp
<1>7. IsBest(best[n], DOMAIN history, h)
  BY <1>2, <1>6
<1> QED
  BY <1>3, <1>7

\* There is an order to walk the history in.
LEMMA SomeOrder ==
    ASSUME NEW S, IsFiniteSet(S) PROVE SetToSeqs(S) # {}
<1>1. PICK n \in Nat : n = Cardinality(S)
  BY FS_CardinalityType
<1>2. PICK f : f \in Bijection(1..n, S)
  BY <1>1, FS_CardinalityType DEF ExistsBijection
<1>3. f \in [1..n -> S] /\ \A i, j \in 1..n : i # j => f[i] # f[j]
  BY <1>2 DEF Bijection, Injection, IsInjective
<1> QED
  BY <1>1, <1>3 DEF SetToSeqs

\* At(h) is the latest rotation at or before h, in whichever order Go walks the
\* history and rotations were announced, and is the first validator set when
\* there is none (evidence.go:167-179).
THEOREM ScheduleIsRight == RecordSpec => []AtIsLatest
<1>1. ASSUME HistoryInv, NEW h \in 0..(MaxRotation + 1)
      PROVE  LET due == {x \in DOMAIN history : x <= h}
             IN AtResults(h) =
                  {IF due = {} THEN Genesis
                   ELSE history[CHOOSE x \in due : \A y \in due : y <= x]}
  <2> DEFINE due == {x \in DOMAIN history : x <= h}
             top == CHOOSE x \in due : \A y \in due : y <= x
  <2>1. h \in Nat /\ \A x \in DOMAIN history : x \in Nat
    BY <1>1, RecordsAssumption DEF HistoryInv
  <2>2. ASSUME NEW r, IsBest(r, DOMAIN history, h)
        PROVE  r.vals = IF due = {} THEN Genesis ELSE history[top]
    <3>1. CASE r = [at |-> 0, vals |-> Genesis] /\ \A y \in DOMAIN history : ~(y <= h)
      <4>1. due = {}
        BY <3>1
      <4> QED
        BY <3>1, <4>1
    <3>2. CASE /\ r.at \in DOMAIN history /\ r.at <= h /\ r.vals = history[r.at]
               /\ \A y \in DOMAIN history : y <= h => y <= r.at
      <4>1. r.at \in due /\ \A y \in due : y <= r.at
        BY <3>2
      <4>2. top \in due /\ \A y \in due : y <= top
        BY <4>1
      <4>3. \A x \in due : x \in Nat
        BY <2>1
      <4> HIDE DEF due, top
      <4>4. top = r.at
        BY <4>1, <4>2, <4>3
      <4> QED
        BY <3>2, <4>1, <4>4
    <3> QED
      BY <2>2, <3>1, <3>2 DEF IsBest
  <2> HIDE DEF due, top
  <2>3. PICK v : v = IF due = {} THEN Genesis ELSE history[top]
    OBVIOUS
  <2>4. \A order \in SetToSeqs(DOMAIN history) : AtInOrder(order, h) = v
    BY <1>1, <2>1, <2>2, <2>3, AtFindsBest
  <2>5. SetToSeqs(DOMAIN history) # {}
    BY <1>1, SomeOrder DEF HistoryInv
  <2>6. AtResults(h) = {v}
    BY <2>4, <2>5 DEF AtResults
  <2> QED
    BY <2>3, <2>6 DEF due, top
<1>2. HistoryInv => AtIsLatest
  BY <1>1 DEF AtIsLatest
<1> QED
  BY <1>2, HistoryHolds, PTL

\* The remainder of a division by n and the next number but n.
LEMMA RemainderRecurs ==
    ASSUME NEW n \in Nat, n > 0, NEW v \in Nat
    PROVE  v % n \in 0..(n-1) /\ (v + n) % n = v % n
<1>1. PICK a \in 0..(n-1) : a = v % n
  OBVIOUS
<1>2. PICK b \in 0..(n-1) : b = (v + n) % n
  OBVIOUS
<1>3. PICK c \in Int : v = n * c + a
  <2>1. v \div n \in Int /\ v = n * (v \div n) + (v % n)
    OBVIOUS
  <2> QED
    BY <1>1, <2>1
<1>4. PICK d \in Int : v + n = n * d + b
  <2>1. (v + n) \div n \in Int /\ v + n = n * ((v + n) \div n) + ((v + n) % n)
    OBVIOUS
  <2> QED
    BY <1>2, <2>1
<1>5. n * (d - c - 1) = a - b
  BY <1>3, <1>4
<1>6. d - c - 1 = 0
  <2>1. PICK k \in Int : k = d - c - 1
    OBVIOUS
  <2>2. n * k < n /\ n * k > -n
    BY <1>5, <2>1
  <2>3. k = 0
    BY <2>2
  <2> QED
    BY <2>1, <2>3
<1>7. a = b
  BY <1>5, <1>6
<1> QED
  BY <1>1, <1>2, <1>7

\* Any n consecutive numbers have all n remainders: the first n do, and a step
\* on takes one away and brings it back.
LEMMA RemaindersRotate ==
    ASSUME NEW n \in Nat, n > 0, NEW v \in Nat
    PROVE  {w % n : w \in v..(v + n - 1)} = 0..(n-1)
<1> DEFINE R(x) == {w % n : w \in x..(x + n - 1)}
           S == {x \in 0..v : R(x) = 0..(n-1)}
<1>1. 0 \in S
  <2>1. \A w \in 0..(0 + n - 1) : w \in 0..(n-1) /\ w % n = w
    OBVIOUS
  <2>2. \A w \in 0..(n-1) : w \in 0..(0 + n - 1)
    OBVIOUS
  <2>3. R(0) = 0..(n-1)
    BY <2>1, <2>2
  <2> QED
    BY <2>3
<1>2. ASSUME NEW x \in 1..v, x - 1 \in S PROVE x \in S
  <2>1. PICK y \in Nat : y = x - 1 /\ y + n \in Nat /\ y + n = x + n - 1 /\ x = y + 1
    OBVIOUS
  <2>2. R(y) = 0..(n-1)
    BY <1>2, <2>1
  <2>3. (y + n) % n = y % n
    BY RemainderRecurs
  <2>4. \A w : w \in x..(x + n - 1) <=> (w = y + n \/ (w \in y..(y + n - 1) /\ w # y))
    BY <2>1
  <2>5. y \in y..(y + n - 1)
    BY <2>1
  <2>6. R(x) = R(y)
    <3>1. ASSUME NEW w \in x..(x + n - 1) PROVE w % n \in R(y)
      BY <2>3, <2>4, <2>5
    <3>2. ASSUME NEW w \in y..(y + n - 1) PROVE w % n \in R(x)
      BY <2>3, <2>4
    <3> QED
      BY <3>1, <3>2
  <2>7. R(x) = 0..(n-1)
    <3> HIDE DEF R
    <3> QED
      BY <2>2, <2>6
  <2>8. x \in 0..v
    OBVIOUS
  <2> HIDE DEF R
  <2> QED
    BY <2>7, <2>8
<1>3. \A x \in 0..v : x \in S
  <2> HIDE DEF S
  <2> QED
    BY <1>1, <1>2, CountUp
<1>4. v \in S
  <2>1. v \in 0..v
    OBVIOUS
  <2> HIDE DEF S
  <2> QED
    BY <1>3, <2>1
<1> QED
  BY <1>4

\* In any n consecutive views each of the n validators of a height proposes
\* once, as long as the views stay below the sign bit (evidence.go:195-201).
THEOREM ProposersTakeTurns == RecordSpec => []ProposersRotate
<1>1. ASSUME HistoryInv, NEW h \in 0..MaxRotation, NEW vals \in AtResults(h)
      PROVE  Len(vals) \in Nat
  <2>1. h \in Nat
    BY RecordsAssumption
  <2>2. PICK order \in SetToSeqs(DOMAIN history) : vals = AtInOrder(order, h)
    BY <1>1 DEF AtResults
  <2>3. PICK r : IsBest(r, DOMAIN history, h) /\ vals = r.vals
    BY <1>1, <2>1, <2>2, AtFindsBest
  <2>4. vals \in Rotations \cup {Genesis}
    BY <1>1, <2>3 DEF IsBest, HistoryInv
  <2> QED
    BY <2>4, RecordsAssumption
<1>2. ASSUME NEW n \in Nat, NEW v \in 0..(SignBit - n)
      PROVE  {ProposerIndex(w, n) : w \in v..(v + n - 1)} = 0..(n - 1)
  <2>1. CASE n = 0
    BY <2>1
  <2>2. CASE n > 0
    <3>1. \A w \in v..(v + n - 1) : ProposerIndex(w, n) = w % n
      BY <2>2, RecordsAssumption DEF ProposerIndex, Remainder, SignedInt
    <3>2. v \in Nat
      BY RecordsAssumption
    <3>3. {w % n : w \in v..(v + n - 1)} = 0..(n - 1)
      BY <2>2, <3>2, RemaindersRotate
    <3> QED
      BY <3>1, <3>3
  <2> QED
    BY <2>1, <2>2
<1>3. HistoryInv => ProposersRotate
  BY <1>1, <1>2 DEF ProposersRotate
<1> QED
  BY <1>3, HistoryHolds, PTL
-----------------------------------------------------------------------------
(* The simulated network. *)

\* What was sent to id: of every simulation the phases in their order, as many
\* as its sendings to id; and it is in the middle of three exactly if id is
\* being written to.
Halfway(b, id) ==
    IF position[b] < 3 * Len(addresses) /\ addresses[(position[b] \div 3) + 1] = id
    THEN position[b] % 3 ELSE 0

SentTo(id, s) ==
    \A b \in Simulations :
        /\ Before(s, b, Len(s) + 1) = Cardinality(Sendings(b, id))
        /\ Before(s, b, Len(s) + 1) % 3 = Halfway(b, id)
        /\ \A i \in 1..Len(s) :
             s[i].Block = b => s[i].Phase = Steps[(Before(s, b, i) % 3) + 1]

\* Messages are of some type, which says nothing of them.
Messages == [From : Recipients, To : Recipients, Phase : {Steps[k] : k \in 1..3},
             Block : Simulations]

NetworkInv ==
    /\ DOMAIN queues \subseteq Recipients
    /\ \A id \in DOMAIN queues : queues[id] \in Seq(Messages)
    /\ received \in [Recipients -> Seq(Messages)]
    /\ sent \in [Recipients -> Seq(Messages)]
    /\ addresses \in AddressLists
    /\ position \in [Simulations -> 0..(3 * Len(addresses))]
    /\ \A id \in Recipients : received[id] \o Queue(id) = sent[id]
    /\ \A id \in Recipients : SentTo(id, sent[id])

\* Recipients have an address, and whoever has one is a recipient.
LEMMA RecipientsAre ==
    /\ NoRoute \notin Recipients
    /\ \A list \in AddressLists : \A i \in 1..Len(list) :
         list[i] # NoRoute => list[i] \in Recipients
<1> DEFINE Of(list) == {list[i] : i \in 1..Len(list)}
           U == UNION {Of(list) : list \in AddressLists}
<1>1. Recipients = U \ {NoRoute}
  BY DEF Recipients
<1>2. ASSUME NEW list \in AddressLists, NEW i \in 1..Len(list) PROVE list[i] \in U
  <2>1. list[i] \in Of(list)
    OBVIOUS
  <2> HIDE DEF Of
  <2> QED
    BY <2>1, Zenon
<1> HIDE DEF U
<1> QED
  BY <1>1, <1>2

\* Messages before the i-th are numbers of them, which one more message at the
\* end does not change, and of all one more if it is of the simulation.
LEMMA BeforeAppend ==
    ASSUME NEW s \in Seq(Messages), NEW m \in Messages, NEW b
    PROVE  /\ \A i \in 1..(Len(s) + 1) :
                Before(s, b, i) \in Nat /\ Before(Append(s, m), b, i) = Before(s, b, i)
           /\ Before(Append(s, m), b, Len(s) + 2) =
                Before(s, b, Len(s) + 1) + (IF m.Block = b THEN 1 ELSE 0)
<1> DEFINE t == Append(s, m)
           P(q, i) == {j \in 1..(i - 1) : q[j].Block = b}
<1>1. PICK n \in Nat : n = Len(s)
  OBVIOUS
<1>2. t[n + 1] = m /\ \A j \in 1..n : t[j] = s[j]
  BY <1>1
<1> HIDE DEF t
<1>3. ASSUME NEW i \in 1..(n + 1) PROVE IsFiniteSet(P(s, i)) /\ P(t, i) = P(s, i)
  <2>1. \A j \in 1..(i - 1) : j \in 1..n
    OBVIOUS
  <2>2. P(t, i) = P(s, i)
    BY <1>2, <2>1
  <2>3. i - 1 \in Int /\ 1 \in Int
    OBVIOUS
  <2>4. IsFiniteSet(1..(i - 1)) /\ P(s, i) \subseteq 1..(i - 1)
    BY <2>3, FS_Interval
  <2>5. IsFiniteSet(P(s, i))
    <3> HIDE DEF P
    <3> QED
      BY <2>4, FS_Subset
  <2> QED
    BY <2>2, <2>5
<1>4. n + 1 \in 1..(n + 1) /\ (n + 2) - 1 = n + 1 /\ (n + 1) - 1 = n
  BY <1>1
<1>5. P(t, n + 2) = P(s, n + 1) \cup (IF m.Block = b THEN {n + 1} ELSE {}) /\ n + 1 \notin P(s, n + 1)
  <2>1. \A j : j \in 1..(n + 1) <=> j \in 1..n \/ j = n + 1
    BY <1>1
  <2>2. n + 1 \notin 1..n
    BY <1>1
  <2> QED
    BY <1>2, <1>4, <2>1, <2>2
<1> HIDE DEF P
<1>6. \A i \in 1..(n + 1) : Cardinality(P(s, i)) \in Nat /\ Cardinality(P(t, i)) = Cardinality(P(s, i))
  BY <1>3, FS_CardinalityType
<1>7. Cardinality(P(t, n + 2)) = Cardinality(P(s, n + 1)) + (IF m.Block = b THEN 1 ELSE 0)
  <2>1. CASE m.Block = b
    <3>1. P(t, n + 2) = P(s, n + 1) \cup {n + 1}
      BY <1>5, <2>1
    <3>2. Cardinality(P(t, n + 2)) = Cardinality(P(s, n + 1)) + 1
      BY <1>3, <1>4, <1>5, <3>1, FS_AddElement
    <3> QED
      BY <2>1, <3>2
  <2>2. CASE m.Block # b
    <3>1. P(t, n + 2) = P(s, n + 1)
      BY <1>5, <2>2
    <3> QED
      BY <1>4, <1>6, <2>2, <3>1
  <2> QED
    BY <2>1, <2>2
<1> QED
  BY <1>1, <1>6, <1>7 DEF P, t, Before

\* Three messages for each of n addresses: the p-th is followed by one for the
\* same address, unless it was the third.
LEMMA ThreeEach ==
    ASSUME NEW p \in Nat, NEW n \in Nat, p < 3 * n
    PROVE  /\ (p % 3) + 1 \in 1..3 /\ (p \div 3) + 1 \in 1..n
           /\ p % 3 = 2 => (p + 1) % 3 = 0 /\ ((p % 3) + 1) % 3 = 0
           /\ p % 3 # 2 => /\ (p + 1) \div 3 = p \div 3
                           /\ (p + 1) % 3 = ((p % 3) + 1) % 3 /\ p + 1 < 3 * n
<1>1. p \div 3 \in Nat /\ p % 3 \in 0..2 /\ p = 3 * (p \div 3) + (p % 3)
  OBVIOUS
<1>2. PICK q \in Nat, r \in 0..2 : q = p \div 3 /\ r = p % 3 /\ p = 3 * q + r
  BY <1>1
<1>3. q < n
  BY <1>2
<1>4. CASE r = 2
  <2>1. p + 1 = 3 * (q + 1)
    BY <1>2, <1>4
  <2>2. \A y \in Nat : (3 * y) % 3 = 0
    OBVIOUS
  <2>3. q + 1 \in Nat /\ (2 + 1) % 3 = 0
    OBVIOUS
  <2> QED
    BY <1>2, <1>3, <1>4, <2>1, <2>2, <2>3
<1>5. CASE r # 2
  <2>1. PICK u \in 1..2 : u = r + 1
    BY <1>5
  <2>2. p + 1 = 3 * q + u /\ p + 1 < 3 * n
    BY <1>2, <1>3, <2>1
  <2>3. (3 * q + u) \div 3 = q /\ (3 * q + u) % 3 = u /\ u % 3 = u
    OBVIOUS
  <2> QED
    BY <1>2, <1>3, <1>5, <2>1, <2>2, <2>3
<1> QED
  BY <1>4, <1>5

\* Simulation b sends its message number p, which is for to.
SendsTo(b, p, to) ==
    /\ p = position[b] /\ p < 3 * Len(addresses) /\ to = addresses[(p \div 3) + 1]
    /\ addresses \in AddressLists /\ addresses' = addresses
    /\ position \in [Simulations -> Nat] /\ position' = [position EXCEPT ![b] = @ + 1]

\* What position[b] says before and after.
LEMMA Sending ==
    ASSUME NEW b \in Simulations, NEW p \in Nat, NEW to, SendsTo(b, p, to),
           NEW id
    PROVE  /\ Cardinality(Sendings(b, id)) \in Nat
           /\ Cardinality(Sendings(b, id)') = Cardinality(Sendings(b, id))
                + (IF to = id THEN 1 ELSE 0)
           /\ to = id => Halfway(b, id) = p % 3 /\ Halfway(b, id)' = ((p % 3) + 1) % 3
           /\ to # id => Halfway(b, id) = 0 /\ Halfway(b, id)' = 0
           /\ \A a \in Simulations : a # b =>
                Sendings(a, id)' = Sendings(a, id) /\ Halfway(a, id)' = Halfway(a, id)
<1> USE DEF SendsTo
<1> DEFINE To(q) == addresses[(q \div 3) + 1]
           D == {q \in 0..(p - 1) : To(q) = id}
           E == {q \in 0..p : To(q) = id}
<1>1. position'[b] = p + 1 /\ (p + 1) - 1 = p
  OBVIOUS
<1>2. Sendings(b, id) = D /\ Sendings(b, id)' = E
  BY <1>1 DEF Sendings
<1>3. IsFiniteSet(D) /\ p \notin D
  <2>1. 0 \in Int /\ p - 1 \in Int /\ p \notin 0..(p - 1)
    OBVIOUS
  <2>2. IsFiniteSet(0..(p - 1)) /\ D \subseteq 0..(p - 1)
    BY <2>1, FS_Interval
  <2>3. IsFiniteSet(D)
    <3> HIDE DEF D
    <3> QED
      BY <2>2, FS_Subset
  <2> QED
    BY <2>1, <2>3
<1>4. E = D \cup (IF To(p) = id THEN {p} ELSE {})
  <2>1. \A q : q \in 0..p <=> q \in 0..(p - 1) \/ q = p
    OBVIOUS
  <2> QED
    BY <2>1
<1>5. /\ Cardinality(D) \in Nat
      /\ Cardinality(E) = Cardinality(D) + (IF To(p) = id THEN 1 ELSE 0)
  <2> HIDE DEF D, E
  <2>1. CASE To(p) = id
    <3>1. E = D \cup {p}
      BY <1>4, <2>1
    <3> QED
      BY <1>3, <2>1, <3>1, FS_AddElement, FS_CardinalityType
  <2>2. CASE To(p) # id
    <3>1. E = D
      BY <1>4, <2>2
    <3> QED
      BY <1>3, <2>2, <3>1, FS_CardinalityType
  <2> QED
    BY <2>1, <2>2
<1>6. Halfway(b, id) = IF To(p) = id THEN p % 3 ELSE 0
  BY DEF Halfway
<1>7. Halfway(b, id)' = IF To(p) = id THEN ((p % 3) + 1) % 3 ELSE 0
  <2>1. PICK n \in Nat : n = Len(addresses) /\ p < 3 * n
    BY NetworkAssumption
  <2>2. Halfway(b, id)' = IF p + 1 < 3 * Len(addresses) /\ addresses[((p + 1) \div 3) + 1] = id
                          THEN (p + 1) % 3 ELSE 0
    BY <1>1 DEF Halfway
  <2>3. CASE p % 3 = 2
    <3>1. (p + 1) % 3 = 0 /\ ((p % 3) + 1) % 3 = 0
      BY <2>1, <2>3, ThreeEach
    <3> QED
      BY <2>2, <3>1
  <2>4. CASE p % 3 # 2
    <3>1. (p + 1) \div 3 = p \div 3 /\ (p + 1) % 3 = ((p % 3) + 1) % 3 /\ p + 1 < 3 * n
      BY <2>1, <2>4, ThreeEach
    <3> QED
      BY <2>1, <2>2, <3>1
  <2> QED
    BY <2>3, <2>4
<1>8. \A a \in Simulations : a # b =>
        Sendings(a, id)' = Sendings(a, id) /\ Halfway(a, id)' = Halfway(a, id)
  BY DEF Sendings, Halfway
<1> HIDE DEF D, E
<1> QED
  BY <1>2, <1>5, <1>6, <1>7, <1>8

\* The next message comes after those that were sent.
LEMMA SentNext ==
    ASSUME NEW b \in Simulations, NEW p \in Nat, NEW to, SendsTo(b, p, to),
           NEW id, to = id, NEW s \in Seq(Messages), SentTo(id, s),
           NEW m \in Messages, m.Block = b, m.Phase = Steps[(p % 3) + 1]
    PROVE  SentTo(id, Append(s, m))'
<1> DEFINE t == Append(s, m)
<1>1. PICK n \in Nat : n = Len(s)
  OBVIOUS
<1>2. /\ Len(t) = n + 1 /\ t[n + 1] = m /\ \A i \in 1..n : t[i] = s[i]
  BY <1>1
<1>3. ASSUME NEW a \in Simulations
      PROVE  /\ Before(t, a, Len(t) + 1) = Cardinality(Sendings(a, id)')
             /\ Before(t, a, Len(t) + 1) % 3 = Halfway(a, id)'
             /\ \A i \in 1..Len(t) :
                  t[i].Block = a => t[i].Phase = Steps[(Before(t, a, i) % 3) + 1]
  <2>1. /\ \A i \in 1..(n + 1) : Before(s, a, i) \in Nat /\ Before(t, a, i) = Before(s, a, i)
        /\ Before(t, a, n + 2) = Before(s, a, n + 1) + (IF m.Block = a THEN 1 ELSE 0)
    BY <1>1, BeforeAppend
  <2>2. /\ Before(s, a, n + 1) = Cardinality(Sendings(a, id))
        /\ Before(s, a, n + 1) % 3 = Halfway(a, id)
        /\ \A i \in 1..n : s[i].Block = a => s[i].Phase = Steps[(Before(s, a, i) % 3) + 1]
    BY <1>1 DEF SentTo
  <2> HIDE DEF t
  <2>3. Len(t) + 1 = n + 2 /\ n + 1 \in 1..(n + 1)
    BY <1>2
  <2>4. \A i \in 1..n : i \in 1..(n + 1)
    BY <1>1
  <2>5. \A i \in 1..n : t[i].Block = a => t[i].Phase = Steps[(Before(t, a, i) % 3) + 1]
    BY <1>2, <2>1, <2>2, <2>4
  <2>6. \A i \in 1..(n + 1) : i \in 1..n \/ i = n + 1
    BY <1>1
  <2>7. CASE a = b
    <3>1. /\ Cardinality(Sendings(a, id)') = Cardinality(Sendings(a, id)) + 1
          /\ Halfway(a, id) = p % 3 /\ Halfway(a, id)' = ((p % 3) + 1) % 3
      BY <2>7, Sending
    <3>2. PICK x \in Nat : x = Before(s, a, n + 1)
      BY <2>1, <2>3
    <3>3. Before(t, a, n + 2) = x + 1 /\ Before(t, a, n + 1) = x
      BY <2>1, <2>3, <2>7, <3>2
    <3>4. x % 3 = p % 3
      BY <2>2, <3>1, <3>2
    <3>5. (x + 1) % 3 = ((p % 3) + 1) % 3
      <4>1. (x + 1) % 3 = ((x % 3) + 1) % 3
        BY <3>2
      <4> QED
        BY <3>4, <4>1
    <3>6. t[n + 1].Phase = Steps[(Before(t, a, n + 1) % 3) + 1]
      BY <1>2, <3>3, <3>4
    <3>7. \A i \in 1..(n + 1) :
            t[i].Block = a => t[i].Phase = Steps[(Before(t, a, i) % 3) + 1]
      BY <2>5, <2>6, <3>6
    <3>8. Before(t, a, n + 2) = Cardinality(Sendings(a, id)')
      BY <2>2, <3>1, <3>2, <3>3
    <3> QED
      BY <1>2, <2>3, <3>1, <3>3, <3>5, <3>7, <3>8
  <2>8. CASE a # b
    <3>1. Sendings(a, id)' = Sendings(a, id) /\ Halfway(a, id)' = Halfway(a, id)
      BY <2>8, Sending
    <3>2. Before(t, a, n + 2) = Before(s, a, n + 1)
      BY <2>1, <2>3, <2>8
    <3>3. t[n + 1].Block # a
      BY <1>2, <2>8
    <3>4. \A i \in 1..(n + 1) :
            t[i].Block = a => t[i].Phase = Steps[(Before(t, a, i) % 3) + 1]
      BY <2>5, <2>6, <3>3
    <3> QED
      BY <1>2, <2>2, <2>3, <3>1, <3>2, <3>4
  <2> QED
    BY <2>7, <2>8
<1> HIDE DEF t
<1>4. SentTo(id, t)'
  BY <1>3 DEF SentTo, Before
<1> QED
  BY <1>4 DEF t

\* A message for one address leaves the others where they are.
LEMMA SentOther ==
    ASSUME NEW b \in Simulations, NEW p \in Nat, NEW to, SendsTo(b, p, to),
           NEW id, to # id, NEW s, SentTo(id, s)
    PROVE  SentTo(id, s)'
<1>1. /\ Cardinality(Sendings(b, id)) \in Nat
      /\ Cardinality(Sendings(b, id)') = Cardinality(Sendings(b, id)) + 0
  BY Sending
<1>2. Cardinality(Sendings(b, id)') = Cardinality(Sendings(b, id))
  BY <1>1
<1>3. Halfway(b, id) = 0 /\ Halfway(b, id)' = 0
  BY Sending
<1>5. ASSUME NEW a \in Simulations, a # b
      PROVE  Sendings(a, id)' = Sendings(a, id) /\ Halfway(a, id)' = Halfway(a, id)
  BY <1>5, Sending
<1>6. ASSUME NEW a \in Simulations
      PROVE  /\ Cardinality(Sendings(a, id)') = Cardinality(Sendings(a, id))
             /\ Halfway(a, id)' = Halfway(a, id)
  BY <1>2, <1>3, <1>5
<1> QED
  BY <1>6 DEF SentTo, Before

LEMMA NetworkStarts == NetworkInit => NetworkInv
<1> SUFFICES ASSUME NetworkInit PROVE NetworkInv
  OBVIOUS
<1>1. /\ DOMAIN queues = {} /\ position = [b \in Simulations |-> 0]
      /\ received = [id \in Recipients |-> <<>>] /\ sent = [id \in Recipients |-> <<>>]
      /\ addresses \in AddressLists
  BY DEF NetworkInit, EmptyMap
<1>2. \A id \in Recipients : received[id] \o Queue(id) = sent[id]
  BY <1>1 DEF Queue
<1>3. 0 \in 0..(3 * Len(addresses))
  BY <1>1, NetworkAssumption
<1>4. ASSUME NEW id, NEW b \in Simulations
      PROVE  /\ Before(<<>>, b, Len(<<>>) + 1) = 0 /\ Cardinality(Sendings(b, id)) = 0
             /\ Halfway(b, id) = 0
  <2>1. {j \in 1..((Len(<<>>) + 1) - 1) : <<>>[j].Block = b} = {} /\ Sendings(b, id) = {}
    BY <1>1 DEF Sendings
  <2>2. Cardinality({}) = 0
    BY FS_EmptySet
  <2>3. Halfway(b, id) = 0
    BY <1>1 DEF Halfway
  <2> QED
    BY <2>1, <2>2, <2>3 DEF Before
<1>5. \A id : SentTo(id, <<>>)
  <2>1. 0 % 3 = 0 /\ 1..Len(<<>>) = {}
    OBVIOUS
  <2> QED
    BY <1>4, <2>1 DEF SentTo
<1> QED
  BY <1>1, <1>2, <1>3, <1>5 DEF NetworkInv

\* Receiving takes what waits.
LEMMA RecvKeepsOrder == ASSUME NetworkInv, NEW id \in Recipients, Recv(id) PROVE NetworkInv'
<1>1. /\ received' = [received EXCEPT ![id] = @ \o Queue(id)]
      /\ queues' = MapDelete(queues, {id}) /\ UNCHANGED <<addresses, position, sent>>
  BY DEF Recv
<1>2. Queue(id) \in Seq(Messages)
  BY DEF Queue, NetworkInv
<1>3. received' \in [Recipients -> Seq(Messages)]
  <2>1. received[id] \o Queue(id) \in Seq(Messages)
    BY <1>2 DEF NetworkInv
  <2> QED
    BY <1>1, <2>1 DEF NetworkInv
<1>4. /\ DOMAIN queues' \subseteq Recipients
      /\ \A x \in DOMAIN queues' : queues'[x] \in Seq(Messages)
  BY <1>1 DEF MapDelete, NetworkInv
<1>5. ASSUME NEW x \in Recipients PROVE received'[x] \o Queue(x)' = sent'[x]
  <2>1. CASE x = id
    <3>1. Queue(x)' = <<>> /\ received'[x] = received[id] \o Queue(id)
      BY <1>1, <2>1 DEF Queue, MapDelete, NetworkInv
    <3>2. received[id] \o Queue(id) \in Seq(Messages)
      BY <1>2 DEF NetworkInv
    <3>3. received[id] \o Queue(id) = sent'[x]
      BY <1>1, <2>1 DEF NetworkInv
    <3>4. \A q \in Seq(Messages) : q \o <<>> = q
      OBVIOUS
    <3> QED
      BY <3>1, <3>2, <3>3, <3>4
  <2>2. CASE x # id
    BY <1>1, <2>2 DEF Queue, MapDelete, NetworkInv
  <2> QED
    BY <2>1, <2>2
<1>6. \A x, s : SentTo(x, s)' <=> SentTo(x, s)
  BY <1>1 DEF SentTo, Sendings, Halfway, Before
<1> QED
  BY <1>1, <1>3, <1>4, <1>5, <1>6 DEF NetworkInv

\* So does sending.
LEMMA SimulateKeepsOrder ==
    ASSUME NetworkInv, NEW b \in Simulations, SimulateRound(b) PROVE NetworkInv'
<1>1. PICK p \in Nat : p = position[b] /\ p < 3 * Len(addresses)
  BY NetworkAssumption DEF SimulateRound, NetworkInv
<1>2. (p % 3) + 1 \in 1..3 /\ (p \div 3) + 1 \in 1..Len(addresses)
  <2>1. PICK n \in Nat : n = Len(addresses) /\ p < 3 * n
    BY <1>1, NetworkAssumption DEF NetworkInv
  <2> QED
    BY <2>1, ThreeEach
<1>3. PICK to, m : /\ to = addresses[(p \div 3) + 1]
                   /\ m = [From |-> to, To |-> to, Phase |-> Steps[(p % 3) + 1], Block |-> b]
  OBVIOUS
<1>4. /\ Send(m) /\ position' = [position EXCEPT ![b] = @ + 1] /\ received' = received
      /\ addresses' = addresses
  BY <1>1, <1>3 DEF SimulateRound
<1>5. /\ position \in [Simulations -> Nat] /\ addresses \in AddressLists
      /\ position' \in [Simulations -> 0..(3 * Len(addresses))]
  <2>1. addresses \in AddressLists
    BY DEF NetworkInv
  <2>2. p + 1 \in 0..(3 * Len(addresses)) /\ 0..(3 * Len(addresses)) \subseteq Nat
    BY <1>1, <2>1, NetworkAssumption
  <2> QED
    BY <1>1, <1>4, <2>1, <2>2 DEF NetworkInv
<1>0. SendsTo(b, p, to)
  BY <1>1, <1>3, <1>4, <1>5 DEF SendsTo
<1>6. ASSUME NEW id \in Recipients, id # to, sent'[id] = sent[id] PROVE SentTo(id, sent[id])'
  <2>1. PICK s : s = sent[id] /\ SentTo(id, s)
    BY <1>6 DEF NetworkInv
  <2>2. SentTo(id, s)'
    BY <1>0, <1>6, <2>1, SentOther
  <2> QED
    BY <1>6, <2>1, <2>2
<1>7. CASE to = NoRoute
  <2>1. queues' = queues /\ sent' = sent
    BY <1>3, <1>4, <1>7 DEF Send
  <2>2. \A id \in Recipients : SentTo(id, sent[id])'
    <3>1. \A id \in Recipients : id # to
      BY <1>7, RecipientsAre
    <3> QED
      BY <1>6, <2>1, <3>1
  <2>3. \A x \in Recipients : received'[x] \o Queue(x)' = sent'[x]
    BY <1>4, <2>1 DEF Queue, NetworkInv
  <2> QED
    BY <1>4, <1>5, <2>1, <2>2, <2>3 DEF NetworkInv
<1>8. CASE to # NoRoute
  <2>1. /\ queues' = MapPut(queues, to, Append(Queue(to), m))
        /\ sent' = [sent EXCEPT ![to] = Append(@, m)]
    BY <1>3, <1>4, <1>8 DEF Send
  <2>2. to \in Recipients
    <3>1. PICK i \in 1..Len(addresses) : i = (p \div 3) + 1
      BY <1>2
    <3> QED
      BY <1>3, <1>5, <1>8, <3>1, RecipientsAre
  <2>3. m \in Messages /\ m.Block = b /\ m.Phase = Steps[(p % 3) + 1]
    BY <1>2, <1>3, <2>2 DEF Messages
  <2>4. Queue(to) \in Seq(Messages) /\ received[to] \in Seq(Messages) /\ sent[to] \in Seq(Messages)
    BY <2>2 DEF Queue, NetworkInv
  <2>5. Append(Queue(to), m) \in Seq(Messages) /\ Append(sent[to], m) \in Seq(Messages)
    BY <2>3, <2>4
  <2>6. /\ DOMAIN queues' \subseteq Recipients
        /\ \A x \in DOMAIN queues' : queues'[x] \in Seq(Messages)
        /\ sent' \in [Recipients -> Seq(Messages)]
    BY <2>1, <2>2, <2>5 DEF MapPut, NetworkInv
  <2>7. ASSUME NEW x \in Recipients PROVE received'[x] \o Queue(x)' = sent'[x]
    <3>1. CASE x = to
      <4>1. Queue(x)' = Append(Queue(to), m) /\ sent'[x] = Append(sent[to], m)
        BY <2>1, <2>2, <3>1 DEF Queue, MapPut, NetworkInv
      <4>2. received[to] \o Queue(to) = sent[to]
        BY <2>2 DEF NetworkInv
      <4>3. \A q, r \in Seq(Messages) : q \o Append(r, m) = Append(q \o r, m)
        BY <2>3
      <4> QED
        BY <1>4, <2>4, <3>1, <4>1, <4>2, <4>3
    <3>2. CASE x # to
      BY <1>4, <2>1, <3>2 DEF Queue, MapPut, NetworkInv
    <3> QED
      BY <3>1, <3>2
  <2>8. ASSUME NEW id \in Recipients PROVE SentTo(id, sent[id])'
    <3>1. CASE id = to
      <4>1. PICK s \in Seq(Messages) : s = sent[to] /\ SentTo(id, s)
        BY <2>4, <3>1 DEF NetworkInv
      <4>2. SentTo(id, Append(s, m))'
        BY <1>0, <2>3, <3>1, <4>1, SentNext
      <4>3. sent'[id] = Append(s, m)
        BY <2>1, <2>2, <3>1, <4>1 DEF NetworkInv
      <4> QED
        BY <4>2, <4>3
    <3>2. CASE id # to
      <4>1. sent'[id] = sent[id]
        BY <2>1, <3>2 DEF NetworkInv
      <4> QED
        BY <1>6, <3>2, <4>1
    <3> QED
      BY <3>1, <3>2
  <2> QED
    BY <1>4, <1>5, <2>6, <2>7, <2>8 DEF NetworkInv
<1> QED
  BY <1>7, <1>8

\* Every recipient gets what was sent to it once and in that order, however
\* many rounds are simulated at once and whoever receives meanwhile; and of
\* every round it gets, or waits for, the phases in order, as often as its
\* address is listed (simulator.go:30-45, 91-101).
THEOREM MessagesArriveInOrder == NetworkSpec => []MessagesInOrder
<1>1. NetworkInv /\ [NetworkNext]_NetworkVars => NetworkInv'
  <2> SUFFICES ASSUME NetworkInv, [NetworkNext]_NetworkVars PROVE NetworkInv'
    OBVIOUS
  <2>1. ASSUME UNCHANGED <<addresses, queues, position, received, sent>> PROVE NetworkInv'
    <3>1. \A x, s : SentTo(x, s)' <=> SentTo(x, s)
      BY <2>1 DEF SentTo, Sendings, Halfway, Before
    <3>2. \A x : Queue(x)' = Queue(x)
      BY <2>1 DEF Queue
    <3> QED
      BY <2>1, <3>1, <3>2 DEF NetworkInv
  <2> QED
    BY <2>1, RecvKeepsOrder, SimulateKeepsOrder DEF NetworkNext, NetworkVars, DropPeer
<1>2. NetworkInv => MessagesInOrder
  <2> SUFFICES ASSUME NetworkInv, NEW id \in Recipients
               PROVE  LET all == received[id] \o Queue(id)
                      IN /\ all = sent[id]
                         /\ \A b \in Simulations :
                              /\ Before(all, b, Len(all) + 1) = Cardinality(Sendings(b, id))
                              /\ \A i \in 1..Len(all) :
                                   all[i].Block = b =>
                                      all[i].Phase = Steps[(Before(all, b, i) % 3) + 1]
    BY DEF MessagesInOrder
  <2>1. PICK s : s = sent[id] /\ s = received[id] \o Queue(id) /\ SentTo(id, s)
    BY DEF NetworkInv
  <2> QED
    BY <2>1 DEF SentTo
<1> QED
  BY <1>1, <1>2, NetworkStarts, PTL DEF NetworkSpec
-----------------------------------------------------------------------------
(* Peers. *)

\* The calls of a peer manager.
CallsOf ==
    [op : {"add"}, id : PeerIDs, score : Scores, banned : BOOLEAN]
    \cup [op : {"penalize"}, id : PeerIDs, n : Penalties]
    \cup [op : {"ban", "unban"}, id : PeerIDs]

LEMMA OwesIsInt ==
    ASSUME NEW c \in CallsOf, NEW x \in Int, NEW id PROVE Owes(x, c, id) \in Int
<1>1. Scores \subseteq Int /\ Penalties \subseteq Int
  BY PeersAssumption DEF Width
<1>2. (c.op = "add" => c.score \in Int) /\ (c.op = "penalize" => c.n \in Int)
  BY <1>1 DEF CallsOf
<1> QED
  BY <1>2 DEF Owes

\* The loop of OwedScore.
LEMMA OwedRuns ==
    ASSUME NEW log \in Seq(CallsOf), NEW id
    PROVE  /\ OwedScore(log, id, 0) = 0
           /\ \A i \in 1..Len(log) :
                OwedScore(log, id, i) = Owes(OwedScore(log, id, i-1), log[i], id)
           /\ \A i \in 0..Len(log) : OwedScore(log, id, i) \in Int
<1> DEFINE n == Len(log)
           s == [i \in 1..n |-> [x \in Int |-> Owes(x, log[i], id)]]
           P(f) == f = [i \in 0..n |-> IF i = 0 THEN 0 ELSE Owes(f[i-1], log[i], id)]
           c == CHOOSE f : P(f)
<1>1. n \in Nat /\ \A i \in 1..n : log[i] \in CallsOf
  OBVIOUS
<1>2. \A i \in 1..n, x \in Int : Owes(x, log[i], id) \in Int
  BY <1>1, OwesIsInt
<1>3. PICK g : IsRun(g, s, n, Int, 0)
  <2>1. IsLoop(s, n, Int)
    BY <1>2 DEF IsLoop
  <2>2. PICK X : X = Int
    OBVIOUS
  <2>3. IsLoop(s, n, X) /\ 0 \in X
    BY <2>1, <2>2
  <2> HIDE DEF n, s
  <2>4. \E g : IsRun(g, s, n, X, 0)
    BY <1>1, <2>3, LoopRuns
  <2> QED
    BY <2>2, <2>4
<1>4. /\ g \in [0..n -> Int] /\ g[0] = 0
      /\ \A i \in 1..n : g[i] = Owes(g[i-1], log[i], id)
  <2>1. \A i \in 1..n : i - 1 \in 0..n
    BY <1>1
  <2> HIDE DEF n
  <2> QED
    BY <1>3, <2>1 DEF IsRun
<1>5. P(g)
  <2> HIDE DEF n
  <2>1. g = [i \in 0..n |-> g[i]]
    BY <1>4
  <2>2. \A i \in 0..n : i = 0 \/ i \in 1..n
    BY <1>1
  <2> QED
    BY <1>4, <2>1, <2>2
<1>6. P(c)
  <2> HIDE DEF P
  <2> QED
    BY <1>5
<1>7. \A i : OwedScore(log, id, i) = c[i]
  BY DEF OwedScore
<1> HIDE DEF c
<1>8. c[0] = 0 /\ \A i \in 1..n : c[i] = Owes(c[i-1], log[i], id)
  <2> HIDE DEF n
  <2>1. 0 \in 0..n /\ \A i \in 1..n : i \in 0..n /\ i # 0
    BY <1>1
  <2> QED
    BY <1>6, <2>1
<1>9. \A i \in 0..n : c[i] \in Int
  <2> HIDE DEF n
  <2> DEFINE S == {i \in 0..n : c[i] \in Int}
  <2>1. 0 \in S
    BY <1>1, <1>8
  <2>2. ASSUME NEW i \in 1..n, i - 1 \in S PROVE i \in S
    <3>1. c[i-1] \in Int /\ i \in 0..n
      BY <1>1, <2>2
    <3>2. c[i] \in Int
      BY <1>2, <1>8, <3>1
    <3> QED
      BY <3>1, <3>2
  <2>3. \A i \in 0..n : i \in S
    <3> HIDE DEF S
    <3> QED
      BY <1>1, <2>1, <2>2, CountUp
  <2> QED
    BY <2>3
<1> QED
  BY <1>7, <1>8, <1>9

\* One more call leaves the scores before it alone.
LEMMA OwedAppend ==
    ASSUME NEW log \in Seq(CallsOf), NEW c \in CallsOf, NEW id
    PROVE  /\ \A i \in 0..Len(log) :
                OwedScore(Append(log, c), id, i) = OwedScore(log, id, i)
           /\ OwedScore(Append(log, c), id, Len(log) + 1)
                = Owes(OwedScore(log, id, Len(log)), c, id)
<1> DEFINE n == Len(log)
           more == Append(log, c)
           S == {i \in 0..n : OwedScore(more, id, i) = OwedScore(log, id, i)}
<1>1. /\ n \in Nat /\ more \in Seq(CallsOf) /\ Len(more) = n + 1 /\ more[n + 1] = c
      /\ \A i \in 1..n : more[i] = log[i]
  OBVIOUS
<1> HIDE DEF more
<1>2. /\ OwedScore(more, id, 0) = 0
      /\ \A i \in 1..(n + 1) :
           OwedScore(more, id, i) = Owes(OwedScore(more, id, i-1), more[i], id)
  BY <1>1, OwedRuns
<1>3. /\ OwedScore(log, id, 0) = 0
      /\ \A i \in 1..n : OwedScore(log, id, i) = Owes(OwedScore(log, id, i-1), log[i], id)
  BY OwedRuns
<1> HIDE DEF n
<1>4. 0 \in S
  BY <1>1, <1>2, <1>3
<1>5. ASSUME NEW i \in 1..n, i - 1 \in S PROVE i \in S
  <2>1. i \in 1..(n + 1) /\ i \in 0..n
    BY <1>1
  <2>2. OwedScore(more, id, i-1) = OwedScore(log, id, i-1)
    BY <1>5
  <2>3. OwedScore(more, id, i) = OwedScore(log, id, i)
    BY <1>1, <1>2, <1>3, <2>1, <2>2
  <2> QED
    BY <2>1, <2>3
<1>6. \A i \in 0..n : i \in S
  <2> HIDE DEF S
  <2> QED
    BY <1>1, <1>4, <1>5, CountUp
<1>7. \A i \in 0..n : OwedScore(more, id, i) = OwedScore(log, id, i)
  BY <1>6
<1>8. OwedScore(more, id, n + 1) = Owes(OwedScore(log, id, n), c, id)
  <2>1. n + 1 \in 1..(n + 1) /\ (n + 1) - 1 = n /\ n \in 0..n
    BY <1>1
  <2> QED
    BY <1>1, <1>2, <1>7, <2>1
<1> QED
  BY <1>7, <1>8 DEF n, more

\* A score in its width is not changed by wrapping.
LEMMA WrapKeeps == \A x \in Width : WrapScore(x) = x
<1>1. PICK m \in Nat : m > 0 /\ MinScore = -m
  <2>1. -MinScore \in Nat /\ -MinScore > 0 /\ MinScore = -(-MinScore)
    BY PeersAssumption
  <2> QED
    BY <2>1
<1>2. ASSUME NEW x \in Width PROVE WrapScore(x) = x
  <2>1. x + m \in 0..(2 * m - 1)
    BY <1>1 DEF Width
  <2>2. (x + m) % (2 * m) = x + m
    <3>1. PICK y, k \in Nat : y = x + m /\ k = 2 * m /\ y < k
      BY <1>1, <2>1
    <3>2. y % k = y
      BY <3>1
    <3> QED
      BY <3>1, <3>2
  <2>3. x - MinScore = x + m /\ -2 * MinScore = 2 * m
    BY <1>1 DEF Width
  <2>4. WrapScore(x) = ((x + m) % (2 * m)) + MinScore
    BY <2>3 DEF WrapScore
  <2> QED
    BY <1>1, <2>1, <2>2, <2>4 DEF Width
<1> QED
  BY <1>2

\* The calls of a log that name id, whether the i-th call bans its peer, and
\* whether id is banned after all of them.
NamedIn(log, id) == {i \in 1..Len(log) : log[i].id = id}
BansIn(log, i) ==
    \/ log[i].op = "ban"
    \/ log[i].op = "add" /\ log[i].banned
    \/ log[i].op = "penalize" /\ OwedScore(log, log[i].id, i) < BanBelow
BannedBy(log, id) ==
    \E i \in NamedIn(log, id) :
        BansIn(log, i) /\ \A j \in NamedIn(log, id) : j > i => log[j].op \notin {"unban", "add"}

\* No score has left its width.
Fits(log, id) == \A i \in NamedIn(log, id) : OwedScore(log, id, i) \in Width

\* A call of another ID changes none of them.
LEMMA OtherCall ==
    ASSUME NEW log \in Seq(CallsOf), NEW c \in CallsOf, NEW id, c.id # id
    PROVE  /\ BannedBy(Append(log, c), id) <=> BannedBy(log, id)
           /\ Fits(Append(log, c), id) <=> Fits(log, id)
           /\ OwedScore(Append(log, c), id, Len(log) + 1) = OwedScore(log, id, Len(log))
<1>1. PICK n \in Nat : n = Len(log)
  OBVIOUS
<1>2. PICK more : more = Append(log, c) /\ more \in Seq(CallsOf)
  <2>1. Append(log, c) \in Seq(CallsOf)
    OBVIOUS
  <2> QED
    BY <2>1
<1>3. Len(more) = n + 1 /\ more[n + 1] = c /\ \A i \in 1..n : more[i] = log[i]
  BY <1>1, <1>2
<1>4. NamedIn(more, id) = NamedIn(log, id) /\ NamedIn(log, id) \subseteq 1..n
  <2>1. \A i : i \in 1..(n + 1) <=> (i \in 1..n \/ i = n + 1)
    OBVIOUS
  <2> QED
    BY <1>1, <1>3, <2>1 DEF NamedIn
<1>5. \A x : \A i \in 1..n : OwedScore(more, x, i) = OwedScore(log, x, i)
  <2>1. \A i \in 1..n : i \in 0..n
    OBVIOUS
  <2> QED
    BY <1>1, <1>2, <2>1, OwedAppend, ZenonT(60)
<1>6. \A i \in 1..n : BansIn(more, i) <=> BansIn(log, i)
  BY <1>3, <1>5 DEF BansIn
<1>7. BannedBy(more, id) <=> BannedBy(log, id)
  BY <1>3, <1>4, <1>6 DEF BannedBy
<1>8. Fits(more, id) <=> Fits(log, id)
  BY <1>4, <1>5 DEF Fits
<1>9. OwedScore(more, id, n + 1) = OwedScore(log, id, n)
  <2>1. OwedScore(more, id, n + 1) = Owes(OwedScore(log, id, n), c, id)
    BY <1>1, <1>2, OwedAppend
  <2> QED
    BY <2>1 DEF Owes
<1> QED
  BY <1>1, <1>2, <1>7, <1>8, <1>9

\* What a call of id does to them.
LEMMA OwnCall ==
    ASSUME NEW log \in Seq(CallsOf), NEW c \in CallsOf
    PROVE  LET id == c.id
               more == Append(log, c)
               n == Len(log) + 1
           IN /\ Fits(more, id) => Fits(log, id) /\ OwedScore(more, id, n) \in Width
              /\ OwedScore(more, id, n) = Owes(OwedScore(log, id, Len(log)), c, id)
              /\ BannedBy(more, id) <=>
                   IF c.op \in {"unban", "add"} THEN c.op = "add" /\ c.banned
                   ELSE \/ BannedBy(log, id)
                        \/ c.op = "ban"
                        \/ c.op = "penalize" /\ OwedScore(more, id, n) < BanBelow
<1>1. PICK n \in Nat : n = Len(log)
  OBVIOUS
<1>2. PICK more : more = Append(log, c) /\ more \in Seq(CallsOf)
  <2>1. Append(log, c) \in Seq(CallsOf)
    OBVIOUS
  <2> QED
    BY <2>1
<1>3. PICK id : id = c.id
  OBVIOUS
<1>4. Len(more) = n + 1 /\ more[n + 1] = c /\ \A i \in 1..n : more[i] = log[i]
  BY <1>1, <1>2
<1>5. /\ NamedIn(more, id) = NamedIn(log, id) \cup {n + 1}
      /\ NamedIn(log, id) \subseteq 1..n
  <2>1. \A i : i \in 1..(n + 1) <=> (i \in 1..n \/ i = n + 1)
    OBVIOUS
  <2> QED
    BY <1>1, <1>3, <1>4, <2>1 DEF NamedIn
<1>6. \A x : \A i \in 1..n : OwedScore(more, x, i) = OwedScore(log, x, i)
  <2>1. \A i \in 1..n : i \in 0..n
    OBVIOUS
  <2> QED
    BY <1>1, <1>2, <2>1, OwedAppend, SMTT(40)
<1>7. \A i \in 1..n : BansIn(more, i) <=> BansIn(log, i)
  BY <1>4, <1>6 DEF BansIn
<1>8. Fits(more, id) => Fits(log, id) /\ OwedScore(more, id, n + 1) \in Width
  BY <1>5, <1>6 DEF Fits
<1>9. OwedScore(more, id, n + 1) = Owes(OwedScore(log, id, n), c, id)
  BY <1>1, <1>2, OwedAppend
<1>10. BansIn(more, n + 1) <=>
         \/ c.op = "ban"
         \/ c.op = "add" /\ c.banned
         \/ c.op = "penalize" /\ OwedScore(more, id, n + 1) < BanBelow
  BY <1>3, <1>4 DEF BansIn
<1>11. \A i \in NamedIn(log, id) : i \in 1..n /\ n + 1 > i /\ ~(i > n + 1)
  BY <1>5
<1>12. CASE c.op \in {"unban", "add"}
  <2>1. BannedBy(more, id) <=> BansIn(more, n + 1)
    BY <1>4, <1>5, <1>11, <1>12 DEF BannedBy
  <2> QED
    BY <1>1, <1>2, <1>3, <1>8, <1>9, <1>10, <1>12, <2>1
<1>13. CASE c.op \notin {"unban", "add"}
  <2>1. BannedBy(more, id) <=> BannedBy(log, id) \/ BansIn(more, n + 1)
    <3>1. ASSUME BannedBy(log, id) PROVE BannedBy(more, id)
      <4>1. PICK i \in NamedIn(log, id) :
              BansIn(log, i) /\ \A j \in NamedIn(log, id) : j > i => log[j].op \notin {"unban", "add"}
        BY <3>1 DEF BannedBy
      <4>2. \A j \in NamedIn(more, id) : j > i => more[j].op \notin {"unban", "add"}
        BY <1>4, <1>5, <1>11, <1>13, <4>1
      <4> QED
        BY <1>5, <1>7, <1>11, <4>1, <4>2 DEF BannedBy
    <3>2. ASSUME BansIn(more, n + 1) PROVE BannedBy(more, id)
      <4>1. \A j \in NamedIn(more, id) : ~(j > n + 1)
        BY <1>5, <1>11
      <4> QED
        BY <1>5, <3>2, <4>1 DEF BannedBy
    <3>3. ASSUME BannedBy(more, id), ~BansIn(more, n + 1) PROVE BannedBy(log, id)
      <4>1. PICK i \in NamedIn(more, id) :
              BansIn(more, i) /\ \A j \in NamedIn(more, id) : j > i => more[j].op \notin {"unban", "add"}
        BY <3>3 DEF BannedBy
      <4>2. i \in NamedIn(log, id)
        BY <1>5, <3>3, <4>1
      <4>3. \A j \in NamedIn(log, id) : j > i => log[j].op \notin {"unban", "add"}
        BY <1>4, <1>5, <1>11, <4>1
      <4> QED
        BY <1>7, <1>11, <4>1, <4>2, <4>3 DEF BannedBy
    <3> QED
      BY <3>1, <3>2, <3>3
  <2> QED
    BY <1>1, <1>2, <1>3, <1>8, <1>9, <1>10, <1>13, <2>1
<1> QED
  BY <1>12, <1>13

\* The manager knows the peers it was called for; while the scores fit, it has
\* the score and the ban of the calls.
PeersInv ==
    /\ calls \in Seq(CallsOf)
    /\ DOMAIN peers = {calls[i].id : i \in 1..Len(calls)}
    /\ \A id \in DOMAIN peers : peers[id] \in [Score : Int, Banned : BOOLEAN]
    /\ \A id : Fits(calls, id) =>
         /\ PeerOf(id).Score = OwedScore(calls, id, Len(calls))
         /\ PeerOf(id).Banned = TRUE <=> BannedBy(calls, id)

\* A call stores a score and a ban.
LEMMA PeerStep ==
    ASSUME PeersInv, NEW c \in CallsOf, calls' = Append(calls, c),
           NEW score \in Int, NEW ban \in BOOLEAN,
           peers' = MapPut(peers, c.id, [Score |-> score, Banned |-> ban]),
           Fits(Append(calls, c), c.id) =>
             /\ score = OwedScore(Append(calls, c), c.id, Len(calls) + 1)
             /\ ban = TRUE <=> BannedBy(Append(calls, c), c.id)
    PROVE  PeersInv'
<1>1. PICK n \in Nat : n = Len(calls)
  BY DEF PeersInv
<1>2. /\ calls' \in Seq(CallsOf) /\ Len(calls') = n + 1 /\ calls'[n + 1] = c
      /\ \A i \in 1..n : calls'[i] = calls[i]
  BY <1>1 DEF PeersInv
<1>3. DOMAIN peers' = DOMAIN peers \cup {c.id}
  BY DEF MapPut
<1>4. DOMAIN peers' = {calls'[i].id : i \in 1..Len(calls')}
  <2>1. \A i : i \in 1..(n + 1) <=> (i \in 1..n \/ i = n + 1)
    OBVIOUS
  <2>2. PICK D : D = DOMAIN peers /\ D = {calls[i].id : i \in 1..n}
    BY <1>1 DEF PeersInv
  <2>3. PICK log : log = calls' /\ log[n + 1] = c /\ \A i \in 1..n : log[i] = calls[i]
    BY <1>2
  <2>4. D \cup {c.id} = {log[i].id : i \in 1..(n + 1)}
    <3>1. \A x \in D : \E i \in 1..(n + 1) : x = log[i].id
      BY <2>1, <2>2, <2>3
    <3>2. \A i \in 1..(n + 1) : log[i].id \in D \cup {c.id}
      BY <2>1, <2>2, <2>3
    <3>3. n + 1 \in 1..(n + 1)
      OBVIOUS
    <3> QED
      BY <2>3, <3>1, <3>2, <3>3, ZenonT(60)
  <2> QED
    BY <1>2, <1>3, <2>2, <2>3, <2>4, ZenonT(60)
<1>5. \A id : id # c.id => PeerOf(id)' = PeerOf(id)
  BY DEF PeerOf, MapPut
<1>6. PeerOf(c.id)' = [Score |-> score, Banned |-> ban]
  BY DEF PeerOf, MapPut
<1>7. \A id \in DOMAIN peers' : peers'[id] \in [Score : Int, Banned : BOOLEAN]
  BY <1>3 DEF MapPut, PeersInv
<1>8. ASSUME NEW id, Fits(calls', id)
      PROVE  /\ PeerOf(id)'.Score = OwedScore(calls', id, Len(calls'))
             /\ PeerOf(id)'.Banned = TRUE <=> BannedBy(calls', id)
  <2>1. CASE id = c.id
    <3>1. PeerOf(id)'.Score = score /\ PeerOf(id)'.Banned = ban
      BY <1>6, <2>1
    <3> QED
      BY <1>1, <1>2, <1>8, <2>1, <3>1
  <2>2. CASE id # c.id
    <3>1. PICK log \in Seq(CallsOf) : log = calls
      BY DEF PeersInv
    <3>2. /\ BannedBy(Append(log, c), id) <=> BannedBy(log, id)
          /\ Fits(Append(log, c), id) <=> Fits(log, id)
          /\ OwedScore(Append(log, c), id, Len(log) + 1) = OwedScore(log, id, Len(log))
      BY <2>2, OtherCall
    <3>3. Fits(calls, id)
      BY <1>8, <3>1, <3>2
    <3>4. /\ PeerOf(id).Score = OwedScore(calls, id, Len(calls))
          /\ PeerOf(id).Banned = TRUE <=> BannedBy(calls, id)
      BY <3>3 DEF PeersInv
    <3> QED
      BY <1>1, <1>2, <1>5, <2>2, <3>1, <3>2, <3>4
  <2> QED
    BY <2>1, <2>2
<1> QED
  BY <1>2, <1>4, <1>7, <1>8 DEF PeersInv

\* A peer has a score and a ban.
LEMMA PeerShape ==
    ASSUME PeersInv, NEW id
    PROVE  \E s \in Int, b \in BOOLEAN : PeerOf(id) = [Score |-> s, Banned |-> b]
<1>1. CASE id \in DOMAIN peers
  <2>1. PeerOf(id) \in [Score : Int, Banned : BOOLEAN]
    BY <1>1 DEF PeersInv, PeerOf
  <2>2. /\ PeerOf(id).Score \in Int /\ PeerOf(id).Banned \in BOOLEAN
        /\ PeerOf(id) = [Score |-> PeerOf(id).Score, Banned |-> PeerOf(id).Banned]
    BY <2>1
  <2> QED
    BY <2>2, Zenon
<1>2. CASE id \notin DOMAIN peers
  <2>1. PeerOf(id) = [Score |-> 0, Banned |-> FALSE] /\ 0 \in Int /\ FALSE \in BOOLEAN
    BY <1>2 DEF PeerOf
  <2> QED
    BY <2>1, Zenon
<1> QED
  BY <1>1, <1>2

LEMMA PeersStep == PeersInv /\ [PeersNext]_PeerVars => PeersInv'
<1> SUFFICES ASSUME PeersInv, [PeersNext]_PeerVars PROVE PeersInv'
  OBVIOUS
<1>1. CASE UNCHANGED PeerVars
  BY <1>1 DEF PeersInv, PeerVars, PeerOf
<1>2. ASSUME NEW id \in PeerIDs
      PROVE  \E s \in Int, b \in BOOLEAN : PeerOf(id) = [Score |-> s, Banned |-> b]
  BY PeerShape
<1>3. PICK n \in Nat, log \in Seq(CallsOf) : log = calls /\ n = Len(log)
  BY DEF PeersInv
<1>4. Scores \subseteq Int /\ Penalties \subseteq Int /\ BanBelow \in Int /\ MinScore \in Int
  BY PeersAssumption DEF Width
<1>5. ASSUME NEW id \in PeerIDs, NEW x \in Scores, NEW b \in BOOLEAN, PeerH(id, x, b)
      PROVE  PeersInv'
  <2>1. PICK c \in CallsOf : c = [op |-> "add", id |-> id, score |-> x, banned |-> b]
    BY DEF CallsOf
  <2>2. /\ calls' = Append(calls, c) /\ c.id = id /\ c.op = "add" /\ c.score = x
        /\ peers' = MapPut(peers, c.id, [Score |-> x, Banned |-> b])
    BY <1>5, <2>1 DEF PeerH, Add, Record
  <2>3. c.banned <=> b = TRUE
    BY <2>1
  <2>4. /\ OwedScore(Append(log, c), c.id, n + 1) = Owes(OwedScore(log, c.id, n), c, c.id)
        /\ BannedBy(Append(log, c), c.id) <=> b = TRUE
    BY <1>3, <2>2, <2>3, OwnCall
  <2>5. Owes(OwedScore(log, c.id, n), c, c.id) = x
    BY <2>2 DEF Owes
  <2> QED
    BY <1>3, <1>4, <2>2, <2>4, <2>5, PeerStep
<1>6. ASSUME NEW id \in PeerIDs, NEW p \in Penalties, Penalize(id, p)
      PROVE  PeersInv'
  <2>1. PICK c \in CallsOf : c = [op |-> "penalize", id |-> id, n |-> p]
    BY DEF CallsOf
  <2>2. PICK s \in Int, b \in BOOLEAN : PeerOf(id) = [Score |-> s, Banned |-> b]
    BY <1>2
  <2>3. PICK x \in Int : x = WrapScore(s - p)
    <3>1. PICK y \in Int, k \in Nat : y = s - p - MinScore /\ k = -2 * MinScore /\ k > 0
      BY <1>4, PeersAssumption
    <3>2. y % k \in Int
      BY <3>1
    <3>3. WrapScore(s - p) = (y % k) + MinScore
      BY <3>1 DEF WrapScore
    <3> QED
      BY <1>4, <3>2, <3>3
  <2>4. PICK ban \in BOOLEAN : ban = (b \/ x < BanBelow)
    OBVIOUS
  <2>5. /\ calls' = Append(calls, c) /\ c.id = id /\ c.op = "penalize" /\ c.n = p
        /\ peers' = MapPut(peers, c.id, [Score |-> x, Banned |-> ban])
    BY <1>6, <2>1, <2>2, <2>3, <2>4 DEF Penalize, Record
  <2>6. ASSUME Fits(Append(log, c), c.id)
        PROVE  /\ x = OwedScore(Append(log, c), c.id, n + 1)
               /\ ban = TRUE <=> BannedBy(Append(log, c), c.id)
    <3>1. /\ Fits(log, c.id) /\ OwedScore(Append(log, c), c.id, n + 1) \in Width
          /\ OwedScore(Append(log, c), c.id, n + 1) = Owes(OwedScore(log, c.id, n), c, c.id)
          /\ BannedBy(Append(log, c), c.id) <=>
               BannedBy(log, c.id) \/ OwedScore(Append(log, c), c.id, n + 1) < BanBelow
      BY <1>3, <2>5, <2>6, OwnCall
    <3>2. s = OwedScore(log, c.id, n) /\ (b = TRUE <=> BannedBy(log, c.id))
      BY <1>3, <2>2, <2>5, <3>1 DEF PeersInv
    <3>3. Owes(OwedScore(log, c.id, n), c, c.id) = s - p
      BY <2>5, <3>2 DEF Owes
    <3>4. x = s - p
      BY <2>3, <3>1, <3>3, WrapKeeps
    <3> QED
      BY <2>4, <3>1, <3>2, <3>3, <3>4
  <2> QED
    BY <1>3, <2>5, <2>6, PeerStep
<1>7. ASSUME NEW id \in PeerIDs, NEW ban \in BOOLEAN, NEW op \in {"ban", "unban"},
             op = "ban" <=> ban = TRUE,
             peers' = MapPut(peers, id, [PeerOf(id) EXCEPT !.Banned = ban]),
             calls' = Append(calls, [op |-> op, id |-> id])
      PROVE  PeersInv'
  <2>1. PICK c \in CallsOf : c = [op |-> op, id |-> id]
    BY DEF CallsOf
  <2>2. PICK s \in Int, b \in BOOLEAN : PeerOf(id) = [Score |-> s, Banned |-> b]
    BY <1>2
  <2>3. /\ calls' = Append(calls, c) /\ c.id = id /\ c.op = op
        /\ peers' = MapPut(peers, c.id, [Score |-> s, Banned |-> ban])
    BY <1>7, <2>1, <2>2
  <2>4. ASSUME Fits(Append(log, c), c.id)
        PROVE  /\ s = OwedScore(Append(log, c), c.id, n + 1)
               /\ ban = TRUE <=> BannedBy(Append(log, c), c.id)
    <3>1. /\ Fits(log, c.id)
          /\ OwedScore(Append(log, c), c.id, n + 1) = Owes(OwedScore(log, c.id, n), c, c.id)
          /\ BannedBy(Append(log, c), c.id) <=> op = "ban"
      BY <1>3, <2>3, <2>4, OwnCall
    <3>2. s = OwedScore(log, c.id, n)
      BY <1>3, <2>2, <2>3, <3>1 DEF PeersInv
    <3>3. Owes(OwedScore(log, c.id, n), c, c.id) = OwedScore(log, c.id, n)
      BY <2>3 DEF Owes
    <3> QED
      BY <1>7, <3>1, <3>2, <3>3
  <2> QED
    BY <1>3, <2>3, <2>4, PeerStep
<1>8. ASSUME NEW id \in PeerIDs, Ban(id) PROVE PeersInv'
  <2>1. /\ peers' = MapPut(peers, id, [PeerOf(id) EXCEPT !.Banned = TRUE])
        /\ calls' = Append(calls, [op |-> "ban", id |-> id])
    BY <1>8 DEF Ban, Record
  <2> QED
    BY <1>7, <2>1
<1>9. ASSUME NEW id \in PeerIDs, Unban(id) PROVE PeersInv'
  <2>1. /\ peers' = MapPut(peers, id, [PeerOf(id) EXCEPT !.Banned = FALSE])
        /\ calls' = Append(calls, [op |-> "unban", id |-> id])
    BY <1>9 DEF Unban, Record
  <2> QED
    BY <1>7, <2>1
<1> QED
  BY <1>1, <1>5, <1>6, <1>8, <1>9 DEF PeersNext

\* A peer is banned exactly if it was, by a call or by its score, after the
\* last time it was unbanned or added; then, or while penalties outweigh its
\* score, it is not healthy (peers.go:20-25, 35-44, protocol.go:86-109).
THEOREM BansHold == PeersSpec => []BanHolds
<1>1. PeersInit => PeersInv
  <2> SUFFICES ASSUME PeersInit PROVE PeersInv
    OBVIOUS
  <2>1. calls = <<>> /\ calls \in Seq(CallsOf) /\ Len(calls) = 0 /\ 1..0 = {} /\ DOMAIN peers = {}
    BY DEF PeersInit, EmptyMap
  <2>2. \A id : ~BannedBy(calls, id) /\ OwedScore(calls, id, 0) = 0
    BY <2>1, OwedRuns DEF BannedBy, NamedIn
  <2>3. \A id : PeerOf(id).Score = 0 /\ PeerOf(id).Banned = FALSE
    BY <2>1 DEF PeerOf
  <2> QED
    BY <2>1, <2>2, <2>3 DEF PeersInv
<1>2. PeersInv => BanHolds
  <2> SUFFICES ASSUME PeersInv, NEW id \in PeerIDs, Fits(calls, id)
               PROVE  /\ PeerOf(id).Banned = BannedBy(calls, id)
                      /\ id \in HealthyPeers <=>
                            /\ NamedIn(calls, id) # {} /\ ~BannedBy(calls, id)
                            /\ OwedScore(calls, id, Len(calls)) >= 0
    BY DEF BanHolds, Bans, Pardons, BannedBy, BansIn, NamedIn, Fits
  <2>1. PICK s \in Int, b \in BOOLEAN : PeerOf(id) = [Score |-> s, Banned |-> b]
    BY PeerShape
  <2>2. s = OwedScore(calls, id, Len(calls)) /\ (b = TRUE <=> BannedBy(calls, id))
    BY <2>1 DEF PeersInv
  <2>3. id \in DOMAIN peers <=> NamedIn(calls, id) # {}
    BY DEF PeersInv, NamedIn
  <2>4. id \in HealthyPeers <=> id \in DOMAIN peers /\ ~b /\ s >= 0
    BY <2>1 DEF HealthyPeers, PeerOf
  <2>5. PICK banned \in BOOLEAN : banned = BannedBy(calls, id)
    BY Zenon DEF BannedBy
  <2>6. b = banned
    BY <2>2, <2>5, Zenon
  <2>7. PeerOf(id).Banned = b
    BY <2>1
  <2>8. PeerOf(id).Banned = BannedBy(calls, id)
    BY <2>5, <2>6, <2>7, Zenon
  <2>9. ~b <=> ~BannedBy(calls, id)
    BY <2>5, <2>6, Zenon
  <2> QED
    BY <2>2, <2>3, <2>4, <2>8, <2>9
<1> QED
  BY <1>1, <1>2, PeersStep, PTL DEF PeersSpec
=============================================================================
