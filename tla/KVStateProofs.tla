--------------------------- MODULE KVStateProofs ---------------------------
(***************************************************************************)
(* What the state of a chain is worth: Replay, the reference for it, grows *)
(* with the chain exactly as Apply does with the state, one transaction at *)
(* a time.  Replay is defined by the last write of a key and not by        *)
(* recursion, so that needs no induction.  What the loop over the sorted   *)
(* keys returns is shown by way of a least counterexample.                 *)
(***************************************************************************)
EXTENDS KVState, WellFoundedInduction, TLAPS

\* The transactions a chain may hold: their keys are keys in use, or none.
Storable(t) == t.Key \in Keys \cup {NoKey}

\* The position of a transaction in a history.
Positions(hist) == UNION {{h} \X (1..Len(hist[h])) : h \in 1..Len(hist)}

\* A position is a pair of a block and an index in it.
LEMMA PositionPair ==
    ASSUME NEW hist, NEW p
    PROVE  p \in Positions(hist) <=>
             /\ p = <<p[1], p[2]>>
             /\ p[1] \in 1..Len(hist)
             /\ p[2] \in 1..Len(hist[p[1]])
BY DEF Positions

\* The writes of k are the positions of transactions that write it.
LEMMA WritesAre ==
    ASSUME NEW hist, NEW k, NEW p
    PROVE  p \in Writes(hist, k) <=>
             /\ p \in Positions(hist)
             /\ Applies(hist[p[1]][p[2]])
             /\ hist[p[1]][p[2]].Key = k
BY DEF Writes, Positions

\* A set of numbers that is not empty and has a bound has a greatest element:
\* the one whose distance from the bound is least.
LEMMA Greatest ==
    ASSUME NEW n \in Nat, NEW S \in SUBSET (1..n), S # {}
    PROVE  \E m \in S : \A x \in S : x <= m
<1> DEFINE T == {n - x : x \in S}
<1>1. T \subseteq Nat
  <2>1. \A x \in S : n - x \in Nat
    OBVIOUS
  <2> QED
    BY <2>1
<1>2. T # {}
  OBVIOUS
<1>3. PICK d \in T : \A e \in T : ~(<<e, d>> \in OpToRel(<, Nat))
  <2> HIDE DEF T
  <2> QED
    BY <1>1, <1>2, WFMin, NatLessThanWellFounded
<1>4. \A e \in T : ~(e < d)
  <2> HIDE DEF T
  <2>1. \A e \in T : <<e, d>> \in Nat \X Nat
    BY <1>1
  <2> QED
    BY <1>3, <2>1 DEF OpToRel
<1>5. PICK m \in S : d = n - m
  OBVIOUS
<1>6. ASSUME NEW x \in S PROVE x <= m
  <2>1. ~(n - x < n - m)
    BY <1>4, <1>5
  <2>2. x \in 1..n /\ m \in 1..n
    OBVIOUS
  <2> HIDE DEF T
  <2> QED
    BY <2>1, <2>2
<1> QED
  BY <1>6

\* A key that is written has a last write, and only one write is the last.
LEMMA LastWriteExists ==
    ASSUME NEW T, NEW hist \in Seq(Seq(T)), NEW k, Writes(hist, k) # {}
    PROVE  LastWrite(hist, k) \in Writes(hist, k)
<1> DEFINE W == Writes(hist, k)
<1>1. \A p \in W : /\ p = <<p[1], p[2]>>
                   /\ p[1] \in 1..Len(hist)
                   /\ p[2] \in 1..Len(hist[p[1]])
                   /\ hist[p[1]] \in Seq(T)
  BY WritesAre, PositionPair
<1>2. PICK h \in {p[1] : p \in W} : \A x \in {p[1] : p \in W} : x <= h
  <2>1. {p[1] : p \in W} \in SUBSET (1..Len(hist)) /\ {p[1] : p \in W} # {}
    BY <1>1
  <2>2. Len(hist) \in Nat
    OBVIOUS
  <2> QED
    BY <2>1, <2>2, Greatest
<1> DEFINE I == {i \in 1..Len(hist[h]) : <<h, i>> \in W}
<1>3. PICK m \in I : \A x \in I : x <= m
  <2>1. I \in SUBSET (1..Len(hist[h])) /\ I # {}
    BY <1>1, <1>2, ZenonT(60)
  <2>2. Len(hist[h]) \in Nat
    BY <1>1, <1>2
  <2> QED
    BY <2>1, <2>2, Greatest
<1>4. ASSUME NEW q \in W PROVE ~Later(q, <<h, m>>)
  <2>1. q[1] <= h /\ q[1] \in Nat /\ h \in Nat
    BY <1>1, <1>2, SMTT(40)
  <2>2. CASE q[1] = h
    <3>1. q[2] \in I
      BY <1>1, <2>2
    <3>2. q[2] <= m /\ q[2] \in Int /\ m \in Int
      BY <3>1, <1>3
    <3> QED
      BY <2>1, <2>2, <3>2 DEF Later
  <2>3. CASE q[1] # h
    BY <2>1, <2>3 DEF Later
  <2> QED
    BY <2>2, <2>3
<1>5. <<h, m>> \in W
  BY <1>3
<1> HIDE DEF W
<1>6. (CHOOSE p \in W : \A q \in W : ~Later(q, p)) \in W
  BY <1>4, <1>5
<1> QED
  BY <1>6 DEF W, LastWrite

\* Histories with the same writes of k, of the same transactions, agree on k.
LEMMA SameWrites ==
    ASSUME NEW T, NEW hist \in Seq(Seq(T)), NEW new, NEW k,
           Writes(new, k) = Writes(hist, k),
           \A p \in Writes(hist, k) : new[p[1]][p[2]] = hist[p[1]][p[2]],
           Writes(hist, k) # {}
    PROVE  LET p == LastWrite(new, k)
               q == LastWrite(hist, k)
           IN new[p[1]][p[2]].Value = hist[q[1]][q[2]].Value
<1>1. LastWrite(new, k) = LastWrite(hist, k)
  BY DEF LastWrite
<1>2. LastWrite(hist, k) \in Writes(hist, k)
  BY LastWriteExists
<1> QED
  BY <1>1, <1>2

\* Histories with the same writes lead to the same state.
LEMMA ReplaySame ==
    ASSUME NEW T, NEW hist \in Seq(Seq(T)), NEW new,
           \A k : /\ Writes(new, k) = Writes(hist, k)
                  /\ \A p \in Writes(hist, k) : new[p[1]][p[2]] = hist[p[1]][p[2]]
    PROVE  Replay(new) = Replay(hist)
BY SameWrites DEF Replay

\* Sets with the same elements are equal.
LEMMA SameElements ==
    ASSUME NEW A, NEW B, \A x : x \in A <=> x \in B
    PROVE  A = B
OBVIOUS

\* A block without transactions changes nothing.
LEMMA ReplayEmptyBlock ==
    ASSUME NEW T, NEW hist \in Seq(Seq(T))
    PROVE  Replay(Append(hist, <<>>)) = Replay(hist)
<1> DEFINE new == Append(hist, <<>>)
<1>1. /\ Len(new) = Len(hist) + 1 /\ Len(hist) \in Nat
      /\ \A h \in 1..Len(hist) : new[h] = hist[h]
      /\ Len(new[Len(hist) + 1]) = 0
  OBVIOUS
<1>2. ASSUME NEW k, NEW p PROVE p \in Writes(new, k) <=> p \in Writes(hist, k)
  <2> HIDE DEF new
  <2>1. p \in Positions(new) <=> p \in Positions(hist)
    BY <1>1, PositionPair, SMTT(40)
  <2>2. p \in Positions(hist) => new[p[1]] = hist[p[1]]
    BY <1>1, PositionPair
  <2> QED
    BY <2>1, <2>2, WritesAre
<1>3. ASSUME NEW k PROVE Writes(new, k) = Writes(hist, k)
  <2> HIDE DEF new
  <2> QED
    BY <1>2, SameElements
<1>4. \A k : \A p \in Writes(hist, k) : new[p[1]][p[2]] = hist[p[1]][p[2]]
  BY <1>1, WritesAre, PositionPair
<1> HIDE DEF new
<1>5. Replay(new) = Replay(hist)
  BY <1>3, <1>4, ReplaySame
<1> QED
  BY <1>5 DEF new

\* The next transaction of the last block is applied to the state the
\* transactions before it lead to.
LEMMA ReplayStep ==
    ASSUME NEW T, NEW hist \in Seq(Seq(T)), NEW b \in Seq(T), NEW t \in T, Storable(t)
    PROVE  Replay(Append(hist, Append(b, t))) = AppliedTo(Replay(Append(hist, b)), t)
<1> DEFINE old == Append(hist, b)
           new == Append(hist, Append(b, t))
           n == Len(hist) + 1
           m == Len(b) + 1
           last == <<n, m>>
<1>1. /\ Len(new) = n /\ Len(old) = n /\ n \in Nat /\ m \in Nat
      /\ \A h \in 1..Len(hist) : new[h] = old[h]
      /\ Len(new[n]) = m /\ Len(old[n]) = m - 1
      /\ \A i \in 1..(m - 1) : new[n][i] = old[n][i]
      /\ new[n][m] = t
      /\ old \in Seq(Seq(T))
  OBVIOUS
<1> HIDE DEF old, new, n, m
<1>2. ASSUME NEW p
      PROVE  p \in Positions(new) <=> p \in Positions(old) \/ p = last
  <2> DEFINE pair == p = <<p[1], p[2]>>
  <2>3. p \in Positions(new) <=>
          pair /\ p[1] \in 1..n /\ p[2] \in 1..Len(new[p[1]])
    BY <1>1, PositionPair
  <2>4. p \in Positions(old) <=>
          pair /\ p[1] \in 1..n /\ p[2] \in 1..Len(old[p[1]])
    BY <1>1, PositionPair
  <2>5. p = last <=> pair /\ p[1] = n /\ p[2] = m
    OBVIOUS
  <2> HIDE DEF pair
  <2>6. n \in 1..n
    BY <1>1 DEF n
  <2>1. CASE p[1] # n
    <3>1. p # last
      BY <2>1, <2>5
    <3>2. p[1] \in 1..n => p[1] \in 1..Len(hist)
      BY <1>1, <2>1 DEF n
    <3>3. p[1] \in 1..n => new[p[1]] = old[p[1]]
      BY <1>1, <3>2
    <3> QED
      BY <2>3, <2>4, <3>1, <3>3
  <2>2. CASE p[1] = n
    <3>1. Len(new[p[1]]) = m /\ Len(old[p[1]]) = m - 1
      BY <1>1, <2>2
    <3>2. p[2] \in 1..m <=> p[2] \in 1..(m - 1) \/ p[2] = m
      BY <1>1 DEF m
    <3> QED
      BY <2>2, <2>3, <2>4, <2>5, <2>6, <3>1, <3>2
  <2> QED
    BY <2>1, <2>2
<1>3. ASSUME NEW p \in Positions(old)
      PROVE  new[p[1]][p[2]] = old[p[1]][p[2]] /\ ~Later(p, last) /\ Later(last, p)
  <2>1. /\ p[1] \in 1..n /\ p[2] \in Int
        /\ p[1] = n => p[2] \in 1..(m - 1)
        /\ p[1] # n => p[1] \in 1..Len(hist)
    BY <1>1, PositionPair, SMTT(40) DEF n
  <2>2. CASE p[1] = n
    <3>1. p[2] \in 1..(m - 1)
      BY <2>1, <2>2
    <3>2. new[n][p[2]] = old[n][p[2]]
      BY <1>1, <3>1
    <3>3. ~(p[2] > m) /\ m > p[2]
      BY <1>1, <3>1
    <3>4. ~(p[1] > n) /\ ~(n > p[1])
      BY <1>1, <2>2
    <3> QED
      BY <2>2, <3>2, <3>3, <3>4 DEF Later
  <2>3. CASE p[1] # n
    <3>1. new[p[1]] = old[p[1]]
      BY <1>1, <2>1, <2>3
    <3>2. ~(p[1] > n) /\ n > p[1]
      BY <1>1, <2>1, <2>3, SMTT(40)
    <3> QED
      BY <2>3, <3>1, <3>2 DEF Later
  <2> QED
    BY <2>2, <2>3
<1>4. ASSUME NEW k, ~(Applies(t) /\ t.Key = k)
      PROVE  /\ Writes(new, k) = Writes(old, k)
             /\ \A p \in Writes(old, k) : new[p[1]][p[2]] = old[p[1]][p[2]]
  <2>1. ASSUME NEW p PROVE p \in Writes(new, k) <=> p \in Writes(old, k)
    <3>1. CASE p \in Positions(old)
      BY <1>2, <1>3, <3>1, WritesAre
    <3>2. CASE p = last /\ p \notin Positions(old)
      <4>1. new[p[1]][p[2]] = t
        BY <1>1, <3>2
      <4> QED
        BY <1>4, <3>2, <4>1, WritesAre
    <3>3. CASE p # last /\ p \notin Positions(old)
      BY <1>2, <3>3, WritesAre
    <3> QED
      BY <3>1, <3>2, <3>3
  <2>2. Writes(new, k) = Writes(old, k)
    BY <2>1, SameElements
  <2> QED
    BY <2>2, <1>3, WritesAre
<1>5. CASE ~Applies(t)
  <2>1. Replay(new) = Replay(old)
    BY <1>1, <1>4, <1>5, ReplaySame
  <2> QED
    BY <1>5, <2>1 DEF AppliedTo, new, old
<1>6. CASE Applies(t)
  <2> DEFINE k0 == t.Key
  <2>1. last \in Writes(new, k0) /\ k0 \in Keys
    BY <1>1, <1>2, <1>6, WritesAre DEF Storable, Applies
  <2>2. \A p \in Writes(new, k0) : p = last \/ p \in Positions(old)
    BY <1>2, WritesAre
  <2>3. LastWrite(new, k0) = last
    <3>1. \A q \in Writes(new, k0) : ~Later(q, last)
      BY <1>1, <1>3, <2>2 DEF Later
    <3>2. \A p \in Writes(new, k0) :
            (\A q \in Writes(new, k0) : ~Later(q, p)) => p = last
      BY <1>3, <2>1, <2>2
    <3> QED
      BY <2>1, <3>1, <3>2 DEF LastWrite
  <2>4. new[last[1]][last[2]] = t
    BY <1>1
  <2> DEFINE W == Replay(new)
             R == AppliedTo(Replay(old), t)
  <2>5. DOMAIN W = {x \in Keys : Writes(new, x) # {}}
    BY DEF Replay
  <2>6. DOMAIN R = {x \in Keys : Writes(old, x) # {}} \cup {k0}
    BY <1>6 DEF AppliedTo, MapPut, Replay
  <2>7. DOMAIN W = DOMAIN R
    <3> HIDE DEF W, R
    <3> QED
      BY <1>4, <2>1, <2>5, <2>6
  <2>8. ASSUME NEW k \in DOMAIN W PROVE W[k] = R[k]
    <3>1. CASE k = k0
      <4>1. W[k] = t.Value
        BY <2>1, <2>3, <2>4, <3>1 DEF Replay
      <4>2. R[k] = t.Value
        BY <1>6, <3>1 DEF AppliedTo, MapPut
      <4> QED
        BY <4>1, <4>2
    <3>2. CASE k # k0
      <4>1. k \in Keys /\ Writes(old, k) # {}
        BY <1>4, <2>5, <3>2
      <4>2. R[k] = Replay(old)[k]
        BY <1>6, <2>6, <2>7, <3>2 DEF AppliedTo, MapPut
      <4>3. W[k] = Replay(old)[k]
        <5> DEFINE i == LastWrite(new, k)
                   j == LastWrite(old, k)
        <5>1. new[i[1]][i[2]].Value = old[j[1]][j[2]].Value
          <6>1. /\ Writes(new, k) = Writes(old, k)
                /\ \A p \in Writes(old, k) : new[p[1]][p[2]] = old[p[1]][p[2]]
            BY <1>4, <3>2
          <6>2. old \in Seq(Seq(T))
            BY <1>1
          <6>3. i = j
            BY <6>1 DEF LastWrite
          <6>4. j \in Writes(old, k)
            BY <6>2, <4>1, LastWriteExists
          <6> QED
            BY <6>1, <6>3, <6>4
        <5>2. W[k] = new[i[1]][i[2]].Value
          BY <2>5 DEF Replay
        <5>3. Replay(old)[k] = old[j[1]][j[2]].Value
          BY <4>1 DEF Replay
        <5> QED
          BY <5>1, <5>2, <5>3
      <4> QED
        BY <4>2, <4>3
    <3> QED
      BY <3>1, <3>2
  <2>9. W = [k \in DOMAIN W |-> W[k]] /\ R = [k \in DOMAIN R |-> R[k]]
    BY <1>6 DEF Replay, AppliedTo, MapPut
  <2>10. W = R
    <3> HIDE DEF W, R
    <3> QED
      BY <2>7, <2>8, <2>9
  <2> QED
    BY <2>10 DEF new, old
<1> QED
  BY <1>5, <1>6

\* The state of a chain with an empty history is empty.
LEMMA ReplayNothing == Replay(<<>>) = EmptyMap
BY DEF Replay, EmptyMap, Writes
-----------------------------------------------------------------------------
(* The keys of a state, sorted.                                             *)

\* The loop of InOrder, as an equation for its results.
KeyLoop(K, f) ==
    [i \in 0..Len(KeyOrder) |->
        IF i = 0 THEN <<>>
        ELSE IF KeyOrder[i] \in K THEN Append(f[i-1], KeyOrder[i])
        ELSE f[i-1]]

\* f solves the equation up to n.
Solves(K, f, n) ==
    /\ f = [i \in 0..n |-> f[i]]
    /\ f[0] = <<>>
    /\ \A i \in 1..n : f[i] = IF KeyOrder[i] \in K THEN Append(f[i-1], KeyOrder[i])
                              ELSE f[i-1]

\* A set of numbers that is not empty has a least element.
LEMMA Least ==
    ASSUME NEW S \in SUBSET Nat, S # {}
    PROVE  \E m \in S : \A x \in S : m <= x
<1>1. PICK m \in S : \A x \in S : ~(<<x, m>> \in OpToRel(<, Nat))
  BY WFMin, NatLessThanWellFounded
<1>2. \A x \in S : <<x, m>> \in Nat \X Nat
  OBVIOUS
<1>3. \A x \in S : ~(x < m)
  BY <1>1, <1>2 DEF OpToRel
<1> QED
  BY <1>3

\* The loop has results: else there is a least bound without, and the results
\* up to the one before could be extended.
LEMMA LoopHasResults ==
    ASSUME NEW K, NEW n \in Nat
    PROVE  \E f : Solves(K, f, n)
<1> DEFINE D == {i \in Nat : ~\E f : Solves(K, f, i)}
<1> SUFFICES ASSUME D # {} PROVE FALSE
  OBVIOUS
<1>1. PICK m \in D : \A x \in D : m <= x
  <2>1. D \in SUBSET Nat
    OBVIOUS
  <2> HIDE DEF D
  <2> QED
    BY <2>1, Least
<1>2. m \in Nat /\ ~\E f : Solves(K, f, m)
  OBVIOUS
<1>3. m # 0
  <2> DEFINE f == [i \in 0..0 |-> <<>>]
  <2>1. Solves(K, f, 0)
    BY DEF Solves
  <2> QED
    BY <1>2, <2>1
<1>4. PICK f : Solves(K, f, m - 1)
  <2>1. m - 1 \in Nat /\ ~(m <= m - 1)
    BY <1>2, <1>3
  <2>2. m - 1 \notin D
    <3> HIDE DEF D
    <3> QED
      BY <1>1, <2>1
  <2> QED
    BY <2>1, <2>2
<1> DEFINE e == IF KeyOrder[m] \in K THEN Append(f[m-1], KeyOrder[m]) ELSE f[m-1]
           g == [i \in 0..m |-> IF i = m THEN e ELSE f[i]]
<1>5. Solves(K, g, m)
  <2> HIDE DEF e
  <2>1. g = [i \in 0..m |-> g[i]] /\ g[m] = e /\ \A i \in 0..(m-1) : g[i] = f[i]
    BY <1>2
  <2>2. g[0] = <<>>
    BY <1>2, <1>3, <1>4, <2>1 DEF Solves
  <2> HIDE DEF g
  <2>3. ASSUME NEW i \in 1..m
        PROVE  g[i] = IF KeyOrder[i] \in K THEN Append(g[i-1], KeyOrder[i]) ELSE g[i-1]
    <3>1. g[i-1] = f[i-1]
      <4>1. i - 1 \in 0..(m-1)
        BY <1>2
      <4> QED
        BY <2>1, <4>1
    <3>2. CASE i = m
      BY <2>1, <3>1, <3>2 DEF e
    <3>3. CASE i # m
      <4>1. i \in 1..(m-1) /\ i \in 0..(m-1)
        BY <1>2, <3>3
      <4>2. g[i] = f[i]
        BY <2>1, <4>1
      <4> QED
        BY <1>4, <3>1, <4>1, <4>2 DEF Solves
    <3> QED
      BY <3>2, <3>3
  <2> QED
    BY <2>1, <2>2, <2>3 DEF Solves
<1> QED
  BY <1>2, <1>5

\* s holds the keys of K among the first i, each once.
Holds(s, K, i) ==
    /\ s \in Seq(Keys)
    /\ \A k : (\E j \in 1..Len(s) : s[j] = k) <=> (k \in K /\ \E j \in 1..i : KeyOrder[j] = k)
    /\ \A a, b \in 1..Len(s) : s[a] = s[b] => a = b

LEMMA LoopHolds ==
    ASSUME NEW K, NEW f, Solves(K, f, Len(KeyOrder))
    PROVE  \A i \in 0..Len(KeyOrder) : Holds(f[i], K, i)
<1> DEFINE n == Len(KeyOrder)
           D == {i \in 0..n : ~Holds(f[i], K, i)}
<1> SUFFICES ASSUME D # {} PROVE FALSE
  OBVIOUS
<1>0. n \in Nat /\ \A i \in 1..n : KeyOrder[i] \in Keys
  BY KeyOrderAssumption DEF Keys
<1>1. PICK m \in D : \A x \in D : m <= x
  <2>1. D \in SUBSET Nat
    BY <1>0
  <2> HIDE DEF D
  <2> QED
    BY <2>1, Least
<1>2. m \in 0..n /\ ~Holds(f[m], K, m)
  OBVIOUS
<1>3. CASE m = 0
  <2>1. f[0] = <<>>
    BY DEF Solves
  <2>2. Holds(<<>>, K, 0)
    BY DEF Holds
  <2> QED
    BY <1>2, <1>3, <2>1, <2>2
<1>4. CASE m # 0
  <2> HIDE DEF n
  <2>1. m \in 1..n /\ m - 1 \in 0..n /\ ~(m <= m - 1)
    BY <1>0, <1>2, <1>4
  <2>2. m - 1 \notin D
    <3> HIDE DEF D
    <3> QED
      BY <1>1, <2>1
  <2>3. Holds(f[m-1], K, m-1)
    BY <2>1, <2>2
  <2> DEFINE key == KeyOrder[m]
             s == f[m-1]
  <2>4. f[m] = IF key \in K THEN Append(s, key) ELSE s
    BY <2>1 DEF Solves, n
  <2>5. s \in Seq(Keys) /\ key \in Keys
    BY <1>0, <2>1, <2>3 DEF Holds
  <2>6. \A j \in 1..(m-1) : KeyOrder[j] # key
    <3>1. \A j \in 1..(m-1) : j \in 1..Len(KeyOrder) /\ j # m
      BY <1>0, <2>1 DEF n
    <3>2. m \in 1..Len(KeyOrder)
      BY <2>1 DEF n
    <3> QED
      BY <3>1, <3>2, KeyOrderAssumption
  <2>7. \A k : (\E j \in 1..m : KeyOrder[j] = k) <=>
                 (k = key \/ \E j \in 1..(m-1) : KeyOrder[j] = k)
    BY <1>0, <2>1
  <2>8. \A j \in 1..Len(s) : s[j] # key
    BY <2>3, <2>6, ZenonT(60) DEF Holds
  <2> HIDE DEF key, s, D
  <2>9. CASE key \in K
    <3> DEFINE t == Append(s, key)
    <3>1. /\ t \in Seq(Keys) /\ Len(t) = Len(s) + 1 /\ Len(s) \in Nat
          /\ t[Len(s) + 1] = key /\ \A j \in 1..Len(s) : t[j] = s[j]
      BY <2>5
    <3> HIDE DEF t
    <3>2. \A k : (\E j \in 1..Len(t) : t[j] = k) <=>
                   (k = key \/ \E j \in 1..Len(s) : s[j] = k)
      <4>1. \A j \in 1..Len(t) : j \in 1..Len(s) \/ j = Len(s) + 1
        BY <3>1
      <4>2. \A j \in 1..Len(s) : j \in 1..Len(t)
        BY <3>1
      <4>3. Len(s) + 1 \in 1..Len(t)
        BY <3>1
      <4> QED
        BY <3>1, <4>1, <4>2, <4>3
    <3>3. \A a, b \in 1..Len(t) : t[a] = t[b] => a = b
      <4>1. \A j \in 1..Len(t) : j \in 1..Len(s) \/ j = Len(s) + 1
        BY <3>1
      <4>2. \A a, b \in 1..Len(s) : s[a] = s[b] => a = b
        BY <2>3 DEF Holds, s
      <4> QED
        BY <2>8, <3>1, <4>1, <4>2
    <3>4. \A k : (\E j \in 1..Len(s) : s[j] = k) <=>
                   (k \in K /\ \E j \in 1..(m-1) : KeyOrder[j] = k)
      BY <2>3 DEF Holds, s
    <3>5. Holds(t, K, m)
      BY <2>7, <2>9, <3>1, <3>2, <3>3, <3>4 DEF Holds
    <3> QED
      BY <1>2, <2>4, <2>9, <3>5 DEF t
  <2>10. CASE key \notin K
    <3>1. Holds(s, K, m)
      BY <2>3, <2>7, <2>10 DEF Holds, s
    <3> QED
      BY <1>2, <2>4, <2>10, <3>1
  <2> QED
    BY <2>9, <2>10
<1> QED
  BY <1>3, <1>4

\* InOrder(K) is the keys of K, each once.
LEMMA InOrderIs ==
    ASSUME NEW K \in SUBSET Keys
    PROVE  /\ InOrder(K) \in Seq(Keys)
           /\ {InOrder(K)[i] : i \in 1..Len(InOrder(K))} = K
           /\ \A i, j \in 1..Len(InOrder(K)) : InOrder(K)[i] = InOrder(K)[j] => i = j
<1> DEFINE n == Len(KeyOrder)
           f == CHOOSE f : f = KeyLoop(K, f)
<1>0. n \in Nat
  BY KeyOrderAssumption
<1>1. PICK g : Solves(K, g, n)
  <2> HIDE DEF n
  <2> QED
    BY <1>0, LoopHasResults
<1>2. g = KeyLoop(K, g)
  <2>1. \A i \in 0..n : i = 0 \/ i \in 1..n
    BY <1>0
  <2> QED
    BY <1>1, <2>1 DEF Solves, KeyLoop
<1>3. f = KeyLoop(K, f)
  BY <1>2
<1>4. Solves(K, f, n)
  <2> HIDE DEF f
  <2>1. 0 \in 0..n /\ \A i \in 1..n : i \in 0..n /\ i # 0
    BY <1>0
  <2> QED
    BY <1>3, <2>1 DEF Solves, KeyLoop
<1>5. Holds(f[n], K, n)
  <2> HIDE DEF f
  <2> QED
    BY <1>0, <1>4, LoopHolds
<1>6. InOrder(K) = f[n]
  BY DEF InOrder, KeyLoop
<1>7. \A k \in K : \E j \in 1..n : KeyOrder[j] = k
  BY DEF Keys
<1> HIDE DEF f
<1> QED
  BY <1>5, <1>6, <1>7 DEF Holds
=============================================================================
