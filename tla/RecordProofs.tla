---------------------------- MODULE RecordProofs ----------------------------
(***************************************************************************)
(* Proofs about what is recorded beside the chain.  audit.Chain and        *)
(* audit.Bus: for any writers, subscribers and channel capacity the chain  *)
(* verifies, a poller misses no record, and a subscriber that is still     *)
(* served has no gap.  repository.Index and MetaStore: for any blocks they *)
(* know the same ones every way they are asked.  state_machine.Catalog:    *)
(* for any maps without NULs a checksum tells what was written.            *)
(***************************************************************************)
EXTENDS AuditFeed, Lookups, Catalog, Wire,
        SequenceTheorems, FiniteSetTheorems, WellFoundedInduction, TLAPS

-----------------------------------------------------------------------------
(* The audit chain and its bus. *)

\* The body of Since's loop, for the records rs: f[i] from f[i - 1].
SinceLoop(rs, seq, f) ==
    [i \in 0..Len(rs) |->
        IF i = 0 THEN <<>>
        ELSE IF rs[i].Sequence > seq THEN Append(f[i-1], rs[i])
        ELSE f[i-1]]

\* What the loop has collected after i records when the records are numbered
\* from 1: nothing up to seq, then all of them.
Collected(rs, seq) ==
    [i \in 0..Len(rs) |-> IF i <= seq THEN <<>> ELSE SubSeq(rs, seq + 1, i)]

\* It solves the loop's equation.
LEMMA CollectedLoops ==
    ASSUME NEW T, NEW rs \in Seq(T), NEW seq \in Nat,
           \A i \in 1..Len(rs) : rs[i].Sequence = i
    PROVE  Collected(rs, seq) = SinceLoop(rs, seq, Collected(rs, seq))
<1> DEFINE g == Collected(rs, seq)
           D == 0..Len(rs)
           e(i) == IF i = 0 THEN <<>>
                   ELSE IF rs[i].Sequence > seq THEN Append(g[i-1], rs[i])
                   ELSE g[i-1]
<1>0. Len(rs) \in Nat
  OBVIOUS
<1>1. ASSUME NEW i \in D PROVE g[i] = e(i)
  <2>1. CASE i = 0
    BY <2>1 DEF Collected
  <2>2. CASE i # 0 /\ i <= seq
    <3>1. i \in 1..Len(rs) /\ i - 1 \in D /\ i - 1 <= seq
      BY <1>0, <2>2
    <3>2. g[i] = <<>> /\ g[i - 1] = <<>>
      BY <2>2, <3>1 DEF Collected
    <3>3. ~(rs[i].Sequence > seq)
      BY <2>2, <3>1
    <3> QED
      BY <2>2, <3>2, <3>3
  <2>3. CASE i # 0 /\ i > seq
    <3>1. i \in 1..Len(rs) /\ i - 1 \in D
      BY <1>0, <2>3
    <3>2. rs[i].Sequence > seq /\ g[i] = SubSeq(rs, seq + 1, i)
      BY <2>3, <3>1 DEF Collected
    <3>3. g[i - 1] = SubSeq(rs, seq + 1, i - 1)
      <4>1. CASE i - 1 <= seq
        <5>1. i - 1 = seq
          BY <1>0, <2>3, <3>1, <4>1
        <5>2. SubSeq(rs, seq + 1, i - 1) = <<>>
          BY <5>1, <3>1
        <5> QED
          BY <3>1, <4>1, <5>2 DEF Collected
      <4>2. CASE ~(i - 1 <= seq)
        BY <3>1, <4>2 DEF Collected
      <4> QED
        BY <4>1, <4>2
    <3>4. SubSeq(rs, seq + 1, i) = Append(SubSeq(rs, seq + 1, i - 1), rs[i])
      <4> DEFINE a == SubSeq(rs, seq + 1, i)
                 b == Append(SubSeq(rs, seq + 1, i - 1), rs[i])
      <4>1. a \in Seq(T) /\ Len(a) = i - seq /\ \A j \in 1..(i - seq) : a[j] = rs[seq + j]
        BY <2>3, <3>1
      <4>2. b \in Seq(T) /\ Len(b) = i - seq /\ \A j \in 1..(i - seq) : b[j] = rs[seq + j]
        BY <2>3, <3>1
      <4> HIDE DEF a, b
      <4>3. Len(a) = Len(b) /\ \A j \in 1..Len(a) : a[j] = b[j]
        BY <4>1, <4>2
      <4>4. a = b
        BY <4>1, <4>2, <4>3, SeqEqual
      <4> QED
        BY <4>4 DEF a, b
    <3> QED
      BY <2>3, <3>2, <3>3, <3>4
  <2> QED
    BY <1>0, <2>1, <2>2, <2>3
<1>2. g = [i \in D |-> g[i]]
  BY DEF Collected
<1>3. [i \in D |-> e(i)] = SinceLoop(rs, seq, g)
  BY DEF SinceLoop
<1> HIDE DEF g, e, D
<1>4. g = [i \in D |-> e(i)]
  BY <1>1, <1>2
<1> QED
  BY <1>3, <1>4 DEF g

\* The equation has one solution: where two differed first, they would not.
LEMMA LoopIsUnique ==
    ASSUME NEW rs, Len(rs) \in Nat, NEW seq,
           NEW f, f = SinceLoop(rs, seq, f), NEW g, g = SinceLoop(rs, seq, g)
    PROVE  \A i \in 0..Len(rs) : f[i] = g[i]
<1> DEFINE D == {i \in 0..Len(rs) : f[i] # g[i]}
<1> SUFFICES ASSUME D # {} PROVE FALSE
  OBVIOUS
<1>1. PICK m \in D : \A e \in D : ~(<<e, m>> \in OpToRel(<, Nat))
  <2>1. D \subseteq Nat
    OBVIOUS
  <2> HIDE DEF D
  <2> QED
    BY <2>1, WFMin, NatLessThanWellFounded
<1>2. \A e \in D : ~(e < m)
  <2>1. \A e \in D : <<e, m>> \in Nat \X Nat
    OBVIOUS
  <2> HIDE DEF D
  <2> QED
    BY <1>1, <2>1 DEF OpToRel
<1>3. m \in 0..Len(rs) /\ f[m] # g[m]
  OBVIOUS
<1>4. CASE m = 0
  <2>1. f[0] = <<>> /\ g[0] = <<>>
    BY <1>4, <1>3 DEF SinceLoop
  <2> QED
    BY <1>3, <1>4, <2>1
<1>5. CASE m # 0
  <2>1. m - 1 \in 0..Len(rs) /\ m - 1 < m
    BY <1>3, <1>5
  <2>2. f[m - 1] = g[m - 1]
    BY <1>2, <2>1
  <2>3. f[m] = SinceLoop(rs, seq, f)[m] /\ g[m] = SinceLoop(rs, seq, g)[m]
    OBVIOUS
  <2>4. SinceLoop(rs, seq, f)[m] = SinceLoop(rs, seq, g)[m]
    BY <1>3, <2>2 DEF SinceLoop
  <2> QED
    BY <1>3, <2>3, <2>4
<1> QED
  BY <1>4, <1>5

\* Since returns the records after the first seq.
LEMMA SinceIsSuffix ==
    ASSUME NEW T, records \in Seq(T), NEW seq \in 0..Len(records),
           \A i \in 1..Len(records) : records[i].Sequence = i
    PROVE  Since(seq) = SubSeq(records, seq + 1, Len(records))
<1> DEFINE g == Collected(records, seq)
           n == Len(records)
           f == CHOOSE f : f = SinceLoop(records, seq, f)
<1>1. n \in Nat /\ seq \in Nat /\ seq <= n
  OBVIOUS
<1>2. g = SinceLoop(records, seq, g)
  BY <1>1, CollectedLoops
<1>3. f = SinceLoop(records, seq, f)
  <2> HIDE DEF g
  <2> QED
    BY <1>2
<1>4. f[n] = g[n]
  <2> HIDE DEF g, f
  <2> QED
    BY <1>1, <1>2, <1>3, LoopIsUnique
<1>5. Since(seq) = f[n]
  BY DEF Since, SinceLoop
<1>6. g[n] = SubSeq(records, seq + 1, n)
  <2>1. CASE n <= seq
    <3>1. SubSeq(records, seq + 1, n) = <<>>
      BY <1>1, <2>1
    <3> QED
      BY <1>1, <2>1, <3>1 DEF Collected
  <2>2. CASE ~(n <= seq)
    BY <1>1, <2>2 DEF Collected
  <2> QED
    BY <2>1, <2>2
<1> QED
  BY <1>4, <1>5, <1>6
-----------------------------------------------------------------------------
(* The inductive invariant.                                                 *)

\* s is a sequence, of whatever it contains.
IsSequence(s) == s \in Seq({s[i] : i \in 1..Len(s)})

\* A sequence of anything is one of what it contains.
LEMMA SequenceOfOwn == ASSUME NEW T, NEW s \in Seq(T) PROVE IsSequence(s)
<1>1. Len(s) \in Nat /\ DOMAIN s = 1..Len(s) /\ s = [i \in 1..Len(s) |-> s[i]]
  OBVIOUS
<1> QED
  BY <1>1 DEF IsSequence

\* A sequence grows by one.
LEMMA SequenceAppend ==
    ASSUME NEW s, IsSequence(s), NEW x
    PROVE  /\ IsSequence(Append(s, x))
           /\ Len(Append(s, x)) = Len(s) + 1 /\ Len(s) \in Nat
           /\ \A i \in 1..Len(s) : Append(s, x)[i] = s[i]
           /\ Append(s, x)[Len(s) + 1] = x
<1> DEFINE T == {s[i] : i \in 1..Len(s)}
<1>1. s \in Seq(T \cup {x}) /\ x \in T \cup {x}
  <2>1. s \in Seq(T)
    BY DEF IsSequence
  <2> HIDE DEF T
  <2>2. Len(s) \in Nat /\ DOMAIN s = 1..Len(s) /\ s = [i \in 1..Len(s) |-> s[i]]
        /\ \A i \in 1..Len(s) : s[i] \in T
    BY <2>1
  <2> QED
    BY <2>1, <2>2
<1> HIDE DEF T
<1>2. Append(s, x) \in Seq(T \cup {x})
  BY <1>1
<1>3. IsSequence(Append(s, x))
  BY <1>2, SequenceOfOwn
<1>4. /\ Len(Append(s, x)) = Len(s) + 1 /\ Len(s) \in Nat
      /\ \A i \in 1..Len(s) : Append(s, x)[i] = s[i]
      /\ Append(s, x)[Len(s) + 1] = x
  BY <1>1
<1> QED
  BY <1>3, <1>4

\* What follows position m of a sequence grows with it.
LEMMA SubSeqGrows ==
    ASSUME NEW T, NEW s \in Seq(T), NEW x \in T, NEW m \in 0..Len(s)
    PROVE  SubSeq(Append(s, x), m + 1, Len(s) + 1) = Append(SubSeq(s, m + 1, Len(s)), x)
<1> DEFINE n == Len(s)
<1>1. n \in Nat /\ m \in Nat /\ m <= n
  OBVIOUS
<1>2. PICK q : q = Append(s, x)
  OBVIOUS
<1>3. q \in Seq(T) /\ Len(q) = n + 1 /\ q[n + 1] = x /\ \A i \in 1..n : q[i] = s[i]
  BY <1>2
<1>4. PICK a : a = SubSeq(q, m + 1, n + 1)
  OBVIOUS
<1>5. PICK r : r = SubSeq(s, m + 1, n)
  OBVIOUS
<1>6. PICK b : b = Append(r, x)
  OBVIOUS
<1>7. a \in Seq(T) /\ Len(a) = n + 1 - m /\ \A j \in 1..(n + 1 - m) : a[j] = q[m + j]
  <2> HIDE DEF n
  <2> QED
    BY <1>1, <1>3, <1>4
<1>8. r \in Seq(T) /\ Len(r) = n - m /\ \A j \in 1..(n - m) : r[j] = s[m + j]
  BY <1>1, <1>5
<1> HIDE DEF n
<1>9. /\ b \in Seq(T) /\ Len(b) = n + 1 - m /\ b[n + 1 - m] = x
      /\ \A j \in 1..(n - m) : b[j] = r[j]
  <2>1. b \in Seq(T) /\ Len(b) = Len(r) + 1 /\ b[Len(r) + 1] = x
        /\ \A j \in 1..Len(r) : b[j] = r[j]
    BY <1>6, <1>8
  <2>2. Len(r) + 1 = n + 1 - m
    BY <1>1, <1>8
  <2> QED
    BY <1>8, <2>1, <2>2
<1>10. ASSUME NEW j \in 1..(n + 1 - m) PROVE a[j] = b[j]
  <2>1. CASE j = n + 1 - m
    BY <1>1, <1>3, <1>7, <1>9, <2>1
  <2>2. CASE j # n + 1 - m
    <3>1. j \in 1..(n - m) /\ m + j \in 1..n
      BY <1>1, <2>2
    <3> QED
      BY <1>3, <1>7, <1>8, <1>9, <3>1
  <2> QED
    BY <2>1, <2>2
<1>11. a = b
  <2>1. Len(a) = Len(b) /\ \A j \in 1..Len(a) : a[j] = b[j]
    BY <1>7, <1>9, <1>10
  <2> QED
    BY <1>7, <1>9, <2>1, SeqEqual
<1> QED
  BY <1>2, <1>4, <1>5, <1>6, <1>11 DEF n

Channels == [sent : Seq(Nat), received : Nat, closed : BOOLEAN, since : Nat]

\* Each record is numbered and linked, as Verify wants it, and the poller has
\* the first of them.
ChainPart ==
    /\ IsSequence(records)
    /\ Verify
    /\ \E n \in 0..Len(records) : polled = SubSeq(records, 1, n)
    /\ \A w \in Writers : writing[w] # Idle => writing[w].Sequence \in Nat

\* The channels: what is received was sent, and what was published before a
\* channel was made is published still.
BusPart ==
    /\ published \in Seq(Nat)
    /\ chans \in Seq(Channels)
    /\ \A c \in 1..Len(chans) :
         /\ chans[c].received <= Len(chans[c].sent)
         /\ chans[c].since <= Len(published)
    /\ \A id \in DOMAIN subs : subs[id] \in 1..Len(chans)
    /\ FeedHasNoGaps

FeedInv == DOMAIN writing = Writers /\ ChainPart /\ BusPart

\* Steps that leave a part's variables leave the part.
LEMMA ChainKept ==
    ASSUME FeedInv, records' = records, writing' = writing, polled' = polled
    PROVE  ChainPart' /\ DOMAIN writing' = Writers
BY DEF FeedInv, ChainPart, IsSequence, Verify

LEMMA BusKept ==
    ASSUME FeedInv, subs' = subs, chans' = chans, published' = published
    PROVE  BusPart'
BY DEF FeedInv, BusPart, FeedHasNoGaps, Buffered

\* At first nothing is recorded, and nobody has subscribed.
LEMMA FeedInitInv == FeedInit => FeedInv
<1> SUFFICES ASSUME FeedInit PROVE FeedInv
  OBVIOUS
<1>1. ChainPart
  <2>1. IsSequence(records) /\ Len(records) = 0 /\ polled = SubSeq(records, 1, 0)
    BY DEF FeedInit, IsSequence
  <2> QED
    BY <2>1 DEF FeedInit, ChainPart, Verify
<1>2. BusPart
  BY DEF FeedInit, BusPart, FeedHasNoGaps, EmptyMap
<1> QED
  BY <1>1, <1>2 DEF FeedInv, FeedInit

\* An appended record continues the chain.
LEMMA AppendRecordInv ==
    ASSUME FeedInv, NEW w \in Writers, AppendRecord(w) PROVE FeedInv'
<1> DEFINE n == Len(records)
<1>1. PICK r : r = NextRecord(w)
  OBVIOUS
<1>2. /\ records' = Append(records, r) /\ writing' = [writing EXCEPT ![w] = r]
      /\ UNCHANGED <<subs, chans, polled, published>>
  BY <1>1 DEF AppendRecord
<1>3. /\ IsSequence(records') /\ Len(records') = n + 1 /\ n \in Nat
      /\ \A i \in 1..n : records'[i] = records[i]
      /\ records'[n + 1] = r
  BY <1>2, SequenceAppend DEF FeedInv, ChainPart
<1>4. /\ r.Sequence = n + 1
      /\ r.PrevHash = IF n = 0 THEN NoHash ELSE records[n].Hash
      /\ r.Hash = Digest(r.Sequence, r.Actor, r.PrevHash)
      /\ r.Signature = r.Hash
  <2>1. CASE records = <<>>
    <3>1. n = 0 /\ r = Record(1, w, NoHash)
      BY <1>1, <2>1 DEF NextRecord
    <3> QED
      BY <3>1 DEF Record
  <2>2. CASE records # <<>>
    <3>1. n # 0
      BY <2>2, <1>3 DEF FeedInv, ChainPart, IsSequence
    <3>2. Last(records) = records[n] /\ records[n].Sequence = n
      BY <1>3, <3>1 DEF Last, FeedInv, ChainPart, Verify
    <3>3. r = Record(n + 1, w, records[n].Hash)
      BY <1>1, <2>2, <3>2 DEF NextRecord
    <3> QED
      BY <3>1, <3>3 DEF Record
  <2> QED
    BY <2>1, <2>2
<1>5. Verify'
  <2> SUFFICES ASSUME NEW i \in 1..(n + 1)
               PROVE  LET x == records'[i]
                      IN /\ x.Sequence = i
                         /\ x.PrevHash = IF i = 1 THEN NoHash ELSE records'[i-1].Hash
                         /\ x.Hash = Digest(x.Sequence, x.Actor, x.PrevHash)
                         /\ x.Signature = x.Hash
    BY <1>3 DEF Verify, Digest
  <2>1. CASE i \in 1..n
    <3>1. records'[i] = records[i] /\ (i # 1 => records'[i-1] = records[i-1])
      BY <1>3, <2>1
    <3> QED
      BY <2>1, <3>1 DEF FeedInv, ChainPart, Verify
  <2>2. CASE i = n + 1
    <3>1. records'[i] = r /\ (i # 1 => records'[i-1] = records[n] /\ n # 0)
      BY <1>3, <2>2
    <3>2. i = 1 => n = 0
      BY <1>3, <2>2
    <3> QED
      BY <1>4, <2>2, <3>1, <3>2
  <2> QED
    BY <1>3, <2>1, <2>2
<1>6. \E m \in 0..Len(records') : polled' = SubSeq(records', 1, m)
  <2>1. PICK m \in 0..n : polled = SubSeq(records, 1, m)
    BY DEF FeedInv, ChainPart
  <2>2. SubSeq(records', 1, m) = SubSeq(records, 1, m)
    BY <1>3, <2>1
  <2> QED
    BY <1>2, <1>3, <2>1, <2>2
<1>7. ChainPart'
  <2>1. ASSUME NEW x \in Writers, writing'[x] # Idle PROVE writing'[x].Sequence \in Nat
    BY <1>2, <1>3, <1>4, <2>1 DEF FeedInv, ChainPart
  <2> QED
    BY <1>3, <1>5, <1>6, <2>1 DEF ChainPart
<1>8. BusPart'
  BY <1>2, BusKept
<1> QED
  BY <1>2, <1>7, <1>8 DEF FeedInv

\* A poll reads on from where the poller is, to the end.
LEMMA PollInv == ASSUME FeedInv, Poll PROVE FeedInv'
<1> DEFINE T == {records[i] : i \in 1..Len(records)}
<1>1. records \in Seq(T) /\ Len(records) \in Nat
  BY DEF FeedInv, ChainPart, IsSequence
<1>2. PICK n \in 0..Len(records) : polled = SubSeq(records, 1, n)
  BY DEF FeedInv, ChainPart
<1>3. \A i \in 1..Len(records) : records[i].Sequence = i
  BY DEF FeedInv, ChainPart, Verify
<1> HIDE DEF T
<1>4. Len(polled) = n /\ polled \in Seq(T) /\ \A i \in 1..n : polled[i] = records[i]
  BY <1>1, <1>2
<1>5. n = IF polled = <<>> THEN 0 ELSE Last(polled).Sequence
  <2>1. CASE polled = <<>>
    BY <1>4, <2>1
  <2>2. CASE polled # <<>>
    <3>1. n # 0
      BY <1>4, <2>2
    <3>2. Last(polled) = records[n]
      BY <1>4, <3>1 DEF Last
    <3> QED
      BY <1>3, <2>2, <3>1, <3>2
  <2> QED
    BY <2>1, <2>2
<1>6. polled' = polled \o Since(n)
  BY <1>5 DEF Poll
<1>7. Since(n) = SubSeq(records, n + 1, Len(records))
  BY <1>1, <1>3, SinceIsSuffix
<1>8. polled \o SubSeq(records, n + 1, Len(records)) = SubSeq(records, 1, Len(records))
  <2>1. 1 \in 1..(Len(records) + 1) /\ n \in (1 - 1)..Len(records)
        /\ Len(records) \in n..Len(records)
    BY <1>1
  <2> QED
    BY <1>1, <1>2, <2>1, ConcatAdjacentSubSeq
<1>9. polled' = SubSeq(records, 1, Len(records)) /\ UNCHANGED <<records, subs, chans, writing, published>>
  BY <1>6, <1>7, <1>8 DEF Poll
<1>10. ChainPart'
  BY <1>1, <1>9, SMTT(40) DEF FeedInv, ChainPart, IsSequence, Verify
<1>11. BusPart'
  BY <1>9, BusKept
<1> QED
  BY <1>9, <1>10, <1>11 DEF FeedInv

\* A new channel is empty and open, and has everything published since now.
LEMMA SubscribeInv ==
    ASSUME FeedInv, NEW id \in SubscriberIDs, Subscribe(id) PROVE FeedInv'
<1> DEFINE n == Len(chans)
           p == Len(published)
<1>0. p \in Nat /\ n \in Nat /\ chans \in Seq(Channels)
  BY DEF FeedInv, BusPart
<1>1. PICK new : new = [sent |-> <<>>, received |-> 0, closed |-> FALSE, since |-> p]
  OBVIOUS
<1>2. /\ new \in Channels /\ new.sent = <<>> /\ new.received = 0 /\ ~new.closed
      /\ new.since = p
  BY <1>0, <1>1 DEF Channels
<1>3. /\ chans' = Append(chans, new)
      /\ subs' = MapPut(subs, id, n + 1)
      /\ UNCHANGED <<records, writing, polled, published>>
  BY <1>1 DEF Subscribe
<1>4. /\ chans' \in Seq(Channels) /\ Len(chans') = n + 1
      /\ \A c \in 1..n : chans'[c] = chans[c]
      /\ chans'[n + 1] = new
  BY <1>0, <1>2, <1>3
<1>5. \A c \in 1..Len(chans') : /\ chans'[c].received <= Len(chans'[c].sent)
                                /\ chans'[c].since <= Len(published')
  <2>1. \A c \in 1..n : /\ chans'[c].received <= Len(chans'[c].sent)
                        /\ chans'[c].since <= Len(published')
    BY <1>3, <1>4 DEF FeedInv, BusPart
  <2>2. new.received <= Len(new.sent) /\ new.since <= Len(published')
    BY <1>0, <1>2, <1>3
  <2> QED
    BY <1>0, <1>4, <2>1, <2>2, SMTT(40)
<1>6. DOMAIN subs' = DOMAIN subs \cup {id} /\ subs'[id] = n + 1
      /\ \A x \in DOMAIN subs : x # id => subs'[x] = subs[x] /\ subs[x] \in 1..n
  BY <1>3 DEF MapPut, FeedInv, BusPart
<1>7. \A x \in DOMAIN subs' : subs'[x] \in 1..Len(chans')
  BY <1>0, <1>4, <1>6
<1>8. ASSUME NEW x \in DOMAIN subs'
      PROVE  LET c == chans'[subs'[x]]
             IN /\ ~c.closed
                /\ Len(c.sent) - c.received <= ChanCap
                /\ c.sent = SubSeq(published', c.since + 1, Len(published'))
                /\ \A other \in DOMAIN subs' : subs'[other] = subs'[x] => other = x
  <2>1. CASE x = id
    <3>1. chans'[subs'[x]] = new
      BY <1>4, <1>6, <2>1
    <3>2. SubSeq(published, p + 1, p) = <<>>
      BY <1>0 DEF FeedInv, BusPart
    <3>3. ASSUME NEW other \in DOMAIN subs', other # id PROVE subs'[other] # n + 1
      BY <1>0, <1>6, <3>3
    <3>4. Len(new.sent) - new.received <= ChanCap
      BY <1>2, FeedAssumption
    <3>5. new.sent = SubSeq(published', new.since + 1, Len(published'))
      BY <1>2, <1>3, <3>2
    <3>6. \A other \in DOMAIN subs' : subs'[other] = subs'[x] => other = x
      BY <1>6, <2>1, <3>3
    <3> QED
      BY <1>2, <3>1, <3>4, <3>5, <3>6
  <2>2. CASE x # id
    <3>1. x \in DOMAIN subs /\ subs'[x] = subs[x] /\ subs[x] \in 1..n
      BY <1>6, <2>2
    <3>2. chans'[subs'[x]] = chans[subs[x]]
      BY <1>4, <3>1
    <3>3. ASSUME NEW other \in DOMAIN subs', subs'[other] = subs'[x] PROVE other = x
      <4>1. other # id
        BY <1>0, <1>6, <3>1, <3>3
      <4> QED
        BY <1>6, <3>1, <3>3, <4>1 DEF FeedInv, BusPart, FeedHasNoGaps
    <3> QED
      BY <1>3, <3>1, <3>2, <3>3 DEF FeedInv, BusPart, FeedHasNoGaps, Buffered
  <2> QED
    BY <2>1, <2>2
<1>9. FeedHasNoGaps'
  BY <1>8 DEF FeedHasNoGaps, Buffered
<1>10. BusPart'
  <2>1. published' \in Seq(Nat)
    BY <1>3 DEF FeedInv, BusPart
  <2> QED
    BY <1>4, <1>5, <1>7, <1>9, <2>1 DEF BusPart
<1>11. ChainPart' /\ DOMAIN writing' = Writers
  BY <1>3, ChainKept
<1> QED
  BY <1>10, <1>11 DEF FeedInv

\* What is published goes to every channel that is still served, and whose
\* subscriber is still subscribed after it.
LEMMA PublishInv ==
    ASSUME FeedInv, NEW w \in Writers, Publish(w) PROVE FeedInv'
<1> DEFINE n == Len(chans)
           p == Len(published)
           seq == writing[w].Sequence
           sendTo == {subs[id] : id \in {i \in DOMAIN subs : Buffered(subs[i]) < ChanCap}}
<1>0. /\ p \in Nat /\ n \in Nat /\ chans \in Seq(Channels) /\ published \in Seq(Nat)
      /\ DOMAIN chans = 1..n
      /\ \A c \in 1..n : chans[c] \in Channels
  BY DEF FeedInv, BusPart
<1>1. /\ chans' = [c \in DOMAIN chans |->
                     IF c \in sendTo THEN [chans[c] EXCEPT !.sent = Append(@, seq)]
                     ELSE chans[c]]
      /\ published' = Append(published, seq)
      /\ subs' = MapDelete(subs, Dropped)
      /\ writing' = [writing EXCEPT ![w] = Idle]
      /\ UNCHANGED <<records, polled>>
      /\ seq \in Nat
  BY DEF Publish, FeedInv, ChainPart
<1>2. published' \in Seq(Nat) /\ Len(published') = p + 1
  BY <1>0, <1>1
<1>3. ASSUME NEW c \in 1..n
      PROVE  /\ chans'[c] \in Channels
             /\ chans'[c].received = chans[c].received
             /\ chans'[c].closed = chans[c].closed
             /\ chans'[c].since = chans[c].since
             /\ chans'[c].sent = IF c \in sendTo THEN Append(chans[c].sent, seq)
                                 ELSE chans[c].sent
             /\ chans[c].sent \in Seq(Nat) /\ chans[c].received \in Nat /\ chans[c].since \in Nat
  <2> HIDE DEF sendTo, seq
  <2>1. CASE c \in sendTo
    <3>1. chans'[c] = [chans[c] EXCEPT !.sent = Append(chans[c].sent, seq)]
      BY <1>0, <1>1, <2>1
    <3>2. chans[c] \in Channels
      BY <1>0
    <3>3. Append(chans[c].sent, seq) \in Seq(Nat)
      BY <1>1, <3>2 DEF Channels
    <3> QED
      BY <2>1, <3>1, <3>2, <3>3 DEF Channels
  <2>2. CASE c \notin sendTo
    <3>1. chans'[c] = chans[c] /\ chans[c] \in Channels
      BY <1>0, <1>1, <2>2
    <3> QED
      BY <2>2, <3>1 DEF Channels
  <2> QED
    BY <2>1, <2>2
<1>4. chans' \in Seq(Channels) /\ Len(chans') = n
  <2>1. DOMAIN chans' = 1..n /\ chans' = [c \in 1..n |-> chans'[c]]
    BY <1>0, <1>1
  <2>2. chans' \in [1..n -> Channels]
    BY <1>3, <2>1
  <2> QED
    BY <1>0, <2>2
<1>5. ASSUME NEW c \in 1..Len(chans')
      PROVE  chans'[c].received <= Len(chans'[c].sent) /\ chans'[c].since <= Len(published')
  <2>1. c \in 1..n
    BY <1>4
  <2>2. chans[c].received <= Len(chans[c].sent) /\ chans[c].since <= p
    BY <2>1 DEF FeedInv, BusPart
  <2>3. Len(chans'[c].sent) \in {Len(chans[c].sent), Len(chans[c].sent) + 1}
    BY <1>1, <1>3, <2>1
  <2>4. /\ chans'[c].received = chans[c].received /\ chans'[c].since = chans[c].since
        /\ chans[c].received \in Nat /\ chans[c].since \in Nat /\ Len(chans[c].sent) \in Nat
    BY <1>0, <1>2, <1>3, <2>1, SMTT(40)
  <2>5. chans'[c].received <= Len(chans'[c].sent)
    <3>1. PICK a \in Nat, l \in Nat : a = chans[c].received /\ l = Len(chans[c].sent)
      BY <2>4
    <3>2. PICK k \in {l, l + 1} : k = Len(chans'[c].sent)
      BY <2>3, <3>1
    <3>3. a <= k
      BY <2>2, <3>1
    <3> QED
      BY <2>4, <3>1, <3>2, <3>3
  <2>6. p \in Nat /\ Len(published') \in Nat /\ p <= Len(published')
    BY <1>0, <1>2
  <2>7. chans'[c].since <= Len(published')
    BY <2>2, <2>4, <2>6
  <2> QED
    BY <2>5, <2>7
<1>6. ASSUME NEW x \in DOMAIN subs'
      PROVE  x \in DOMAIN subs /\ subs'[x] = subs[x] /\ subs[x] \in 1..n /\ subs[x] \in sendTo
             /\ Buffered(subs[x]) < ChanCap
  <2>1. x \in DOMAIN subs /\ subs'[x] = subs[x] /\ x \notin Dropped
    BY <1>1 DEF MapDelete
  <2>2. subs[x] \in 1..n
    BY <2>1 DEF FeedInv, BusPart
  <2>3. Buffered(subs[x]) \in Int
    BY <1>3, <2>2, SMTT(40) DEF Buffered
  <2>4. Buffered(subs[x]) < ChanCap
    BY <2>1, <2>3, FeedAssumption DEF Dropped
  <2> QED
    BY <2>1, <2>2, <2>4
<1>7. ASSUME NEW x \in DOMAIN subs'
      PROVE  LET c == chans'[subs'[x]]
             IN /\ ~c.closed
                /\ Len(c.sent) - c.received <= ChanCap
                /\ c.sent = SubSeq(published', c.since + 1, Len(published'))
                /\ \A other \in DOMAIN subs' : subs'[other] = subs'[x] => other = x
  <2> DEFINE k == subs[x]
  <2>1. /\ x \in DOMAIN subs /\ subs'[x] = k /\ k \in 1..n /\ k \in sendTo
        /\ Len(chans[k].sent) - chans[k].received < ChanCap
    BY <1>6 DEF Buffered
  <2>2. /\ ~chans[k].closed
        /\ chans[k].sent = SubSeq(published, chans[k].since + 1, p)
        /\ chans[k].since <= p
    BY <2>1 DEF FeedInv, BusPart, FeedHasNoGaps
  <2> HIDE DEF k, sendTo
  <2>3. chans'[k].sent = Append(chans[k].sent, seq) /\ chans'[k].since = chans[k].since
        /\ chans'[k].closed = chans[k].closed /\ chans'[k].received = chans[k].received
    BY <1>3, <2>1
  <2>4. Len(chans'[k].sent) - chans'[k].received <= ChanCap
    <3>1. chans[k].sent \in Seq(Nat) /\ chans[k].received \in Nat
      BY <1>3, <2>1
    <3> HIDE DEF seq
    <3>2. Len(chans'[k].sent) = Len(chans[k].sent) + 1
      BY <1>1, <2>3, <3>1
    <3>3. Len(chans[k].sent) \in Nat
      BY <3>1
    <3> QED
      BY <2>1, <2>3, <3>1, <3>2, <3>3, FeedAssumption
  <2>5. SubSeq(published', chans[k].since + 1, p + 1)
          = Append(SubSeq(published, chans[k].since + 1, p), seq)
    <3> DEFINE s == chans[k].since
    <3>1. s \in Nat /\ s <= p
      BY <1>3, <2>1, <2>2
    <3> HIDE DEF s
    <3>2. SubSeq(Append(published, seq), s + 1, p + 1)
            = Append(SubSeq(published, s + 1, p), seq)
      <4>1. s \in 0..Len(published) /\ seq \in Nat /\ published \in Seq(Nat)
        BY <1>0, <1>1, <3>1
      <4> HIDE DEF seq
      <4> QED
        BY <4>1, SubSeqGrows
    <3> QED
      BY <1>1, <3>2 DEF s
  <2>6. ASSUME NEW other \in DOMAIN subs', subs'[other] = subs'[x] PROVE other = x
    <3>1. other \in DOMAIN subs /\ subs'[other] = subs[other]
      BY <1>6
    <3> QED
      BY <2>1, <2>6, <3>1 DEF k, FeedInv, BusPart, FeedHasNoGaps
  <2> QED
    BY <1>2, <2>1, <2>2, <2>3, <2>4, <2>5, <2>6
<1>8. FeedHasNoGaps'
  BY <1>7 DEF FeedHasNoGaps, Buffered
<1>9. BusPart'
  <2>1. \A x \in DOMAIN subs' : subs'[x] \in 1..Len(chans')
    BY <1>4, <1>6
  <2> QED
    BY <1>2, <1>4, <1>5, <1>8, <2>1 DEF BusPart
<1>10. ChainPart' /\ DOMAIN writing' = Writers
  <2>1. DOMAIN writing' = Writers
    BY <1>1 DEF FeedInv
  <2>2. ASSUME NEW x \in Writers, writing'[x] # Idle PROVE writing'[x].Sequence \in Nat
    BY <1>1, <2>2 DEF FeedInv, ChainPart
  <2>3. records' = records /\ polled' = polled
    BY <1>1
  <2> QED
    BY <2>1, <2>2, <2>3, SMTT(40) DEF FeedInv, ChainPart, IsSequence, Verify
<1> QED
  BY <1>9, <1>10 DEF FeedInv

\* The channel that is closed belonged to the subscriber that leaves, and to
\* nobody else.
LEMMA UnsubscribeInv ==
    ASSUME FeedInv, NEW id \in SubscriberIDs, Unsubscribe(id) PROVE FeedInv'
<1> DEFINE n == Len(chans)
           k == subs[id]
<1>0. /\ n \in Nat /\ chans \in Seq(Channels) /\ DOMAIN chans = 1..n
      /\ \A c \in 1..n : chans[c] \in Channels
      /\ id \in DOMAIN subs /\ k \in 1..n
  BY DEF FeedInv, BusPart, Unsubscribe
<1>1. /\ chans' = [chans EXCEPT ![k].closed = TRUE]
      /\ subs' = MapDelete(subs, {id})
      /\ UNCHANGED <<records, writing, polled, published>>
  BY DEF Unsubscribe
<1> HIDE DEF k
<1>2. ASSUME NEW c \in 1..n
      PROVE  /\ chans'[c] \in Channels
             /\ chans'[c].sent = chans[c].sent /\ chans'[c].received = chans[c].received
             /\ chans'[c].since = chans[c].since
             /\ c # k => chans'[c] = chans[c]
  BY <1>0, <1>1 DEF Channels
<1>3. chans' \in Seq(Channels) /\ Len(chans') = n
  <2>1. chans' \in [1..n -> Channels]
    BY <1>0, <1>1, <1>2
  <2> QED
    BY <1>0, <2>1
<1>4. ASSUME NEW x \in DOMAIN subs'
      PROVE  x \in DOMAIN subs /\ x # id /\ subs'[x] = subs[x] /\ subs[x] \in 1..n
             /\ subs[x] # k
  <2>1. x \in DOMAIN subs /\ x # id /\ subs'[x] = subs[x]
    BY <1>1 DEF MapDelete
  <2> QED
    BY <1>0, <2>1 DEF k, FeedInv, BusPart, FeedHasNoGaps
<1>5. ASSUME NEW x \in DOMAIN subs'
      PROVE  LET c == chans'[subs'[x]]
             IN /\ ~c.closed
                /\ Len(c.sent) - c.received <= ChanCap
                /\ c.sent = SubSeq(published', c.since + 1, Len(published'))
                /\ \A other \in DOMAIN subs' : subs'[other] = subs'[x] => other = x
  <2>1. chans'[subs'[x]] = chans[subs[x]] /\ x \in DOMAIN subs
    BY <1>2, <1>4
  <2>2. \A other \in DOMAIN subs' : subs'[other] = subs'[x] => other = x
    BY <1>4 DEF FeedInv, BusPart, FeedHasNoGaps
  <2> QED
    BY <1>1, <2>1, <2>2 DEF FeedInv, BusPart, FeedHasNoGaps, Buffered
<1>6. FeedHasNoGaps'
  BY <1>5 DEF FeedHasNoGaps, Buffered
<1>7. BusPart'
  <2>1. \A x \in DOMAIN subs' : subs'[x] \in 1..Len(chans')
    BY <1>3, <1>4
  <2>2. \A c \in 1..Len(chans') : /\ chans'[c].received <= Len(chans'[c].sent)
                                  /\ chans'[c].since <= Len(published')
    BY <1>1, <1>2, <1>3 DEF FeedInv, BusPart
  <2>3. published' \in Seq(Nat)
    BY <1>1 DEF FeedInv, BusPart
  <2> QED
    BY <1>3, <1>6, <2>1, <2>2, <2>3 DEF BusPart
<1>8. ChainPart' /\ DOMAIN writing' = Writers
  BY <1>1, ChainKept
<1> QED
  BY <1>7, <1>8 DEF FeedInv

\* A receive makes room, and takes no more than was sent.
LEMMA ReceiveInv ==
    ASSUME FeedInv, NEW k \in DOMAIN chans, Receive(k) PROVE FeedInv'
<1> DEFINE n == Len(chans)
<1>0. /\ n \in Nat /\ chans \in Seq(Channels) /\ DOMAIN chans = 1..n /\ k \in 1..n
      /\ \A c \in 1..n : chans[c] \in Channels
  BY DEF FeedInv, BusPart
<1>1. /\ chans' = [chans EXCEPT ![k].received = @ + 1]
      /\ Len(chans[k].sent) - chans[k].received > 0
      /\ UNCHANGED <<records, subs, writing, polled, published>>
  BY DEF Receive, Buffered
<1>2. ASSUME NEW c \in 1..n
      PROVE  /\ chans'[c] \in Channels
             /\ chans'[c].sent = chans[c].sent /\ chans'[c].closed = chans[c].closed
             /\ chans'[c].since = chans[c].since
             /\ chans'[c].received = IF c = k THEN chans[c].received + 1
                                     ELSE chans[c].received
             /\ chans[c].received \in Nat /\ Len(chans[c].sent) \in Nat
  <2>1. chans[c] \in Channels
    BY <1>0
  <2>2. chans[c].received \in Nat /\ Len(chans[c].sent) \in Nat
    BY <2>1 DEF Channels
  <2>3. CASE c = k
    <3>1. chans'[c] = [chans[c] EXCEPT !.received = chans[c].received + 1]
      BY <1>0, <1>1, <2>3
    <3>2. chans[c].received + 1 \in Nat
      BY <2>2
    <3> QED
      BY <2>1, <2>2, <2>3, <3>1, <3>2 DEF Channels
  <2>4. CASE c # k
    <3>1. chans'[c] = chans[c]
      BY <1>0, <1>1, <2>4
    <3> QED
      BY <2>1, <2>2, <2>4, <3>1
  <2> QED
    BY <2>3, <2>4
<1>3. chans' \in Seq(Channels) /\ Len(chans') = n
  <2>1. chans' \in [1..n -> Channels]
    BY <1>0, <1>1, <1>2
  <2> QED
    BY <1>0, <2>1
<1>4. ASSUME NEW c \in 1..n PROVE chans'[c].received <= Len(chans'[c].sent)
  <2>1. chans[c].received <= Len(chans[c].sent)
    BY DEF FeedInv, BusPart
  <2> QED
    BY <1>1, <1>2, <2>1
<1>5. ASSUME NEW x \in DOMAIN subs'
      PROVE  LET c == chans'[subs'[x]]
             IN /\ ~c.closed
                /\ Len(c.sent) - c.received <= ChanCap
                /\ c.sent = SubSeq(published', c.since + 1, Len(published'))
                /\ \A other \in DOMAIN subs' : subs'[other] = subs'[x] => other = x
  <2>1. x \in DOMAIN subs /\ subs' = subs /\ subs[x] \in 1..n
    BY <1>1 DEF FeedInv, BusPart
  <2> DEFINE c == subs[x]
  <2>2. /\ ~chans[c].closed
        /\ Len(chans[c].sent) - chans[c].received <= ChanCap
        /\ chans[c].sent = SubSeq(published, chans[c].since + 1, Len(published))
        /\ \A other \in DOMAIN subs : subs[other] = subs[x] => other = x
    BY <2>1 DEF FeedInv, BusPart, FeedHasNoGaps, Buffered
  <2>3. Len(chans'[c].sent) - chans'[c].received <= ChanCap
    <3> HIDE DEF c
    <3>1. c \in 1..n
      BY <2>1 DEF c
    <3>2. PICK a \in Nat, b \in Nat : a = Len(chans[c].sent) /\ b = chans[c].received
      BY <1>2, <3>1
    <3>3. Len(chans'[c].sent) = a /\ chans'[c].received \in {b, b + 1} /\ a - b <= ChanCap
      BY <1>2, <2>2, <3>1, <3>2
    <3>4. PICK d \in {b, b + 1} : d = chans'[c].received
      BY <3>3
    <3>5. a - d <= ChanCap
      BY <3>3, FeedAssumption
    <3> QED
      BY <3>3, <3>4, <3>5
  <2> QED
    BY <1>1, <1>2, <2>1, <2>2, <2>3, ZenonT(60)
<1>6. FeedHasNoGaps'
  BY <1>5 DEF FeedHasNoGaps, Buffered
<1>7. BusPart'
  <2>1. \A x \in DOMAIN subs' : subs'[x] \in 1..Len(chans')
    BY <1>1, <1>3 DEF FeedInv, BusPart
  <2>2. \A c \in 1..Len(chans') : chans'[c].since <= Len(published')
    BY <1>1, <1>2, <1>3 DEF FeedInv, BusPart
  <2>3. published' \in Seq(Nat)
    BY <1>1 DEF FeedInv, BusPart
  <2> QED
    BY <1>3, <1>4, <1>6, <2>1, <2>2, <2>3 DEF BusPart
<1>8. ChainPart' /\ DOMAIN writing' = Writers
  BY <1>1, ChainKept
<1> QED
  BY <1>7, <1>8 DEF FeedInv

\* Every step keeps the invariant.
LEMMA FeedNextInv == FeedInv /\ [FeedNext]_FeedVars => FeedInv'
<1> SUFFICES ASSUME FeedInv, [FeedNext]_FeedVars PROVE FeedInv'
  OBVIOUS
<1>1. CASE UNCHANGED FeedVars
  <2>1. FeedInv' = (DOMAIN writing' = Writers /\ ChainPart' /\ BusPart')
    BY DEF FeedInv
  <2> QED
    BY <1>1, <2>1, ChainKept, BusKept DEF FeedVars
<1> QED
  BY <1>1, AppendRecordInv, PublishInv, SubscribeInv, UnsubscribeInv, ReceiveInv,
     PollInv DEF FeedNext

\* However many writers append and publish, Verify accepts the chain, and a
\* poller that reads on from its last record has a prefix of it
\* (chain.go:24-57, 63-73).
THEOREM PollerMissesNothing == FeedSpec => []PollSeesAll
<1>1. FeedInv => PollSeesAll
  <2> SUFFICES ASSUME FeedInv PROVE PollSeesAll
    OBVIOUS
  <2>1. PICK n \in 0..Len(records) : polled = SubSeq(records, 1, n)
    BY DEF FeedInv, ChainPart
  <2> DEFINE T == {records[i] : i \in 1..Len(records)}
  <2>2. records \in Seq(T)
    BY DEF FeedInv, ChainPart, IsSequence
  <2> HIDE DEF T
  <2>3. Len(polled) = n /\ n <= Len(records) /\ polled \in Seq(T)
    BY <2>1, <2>2
  <2>4. SubSeq(polled, 1, Len(polled)) = polled
    BY <2>3
  <2> QED
    BY <2>1, <2>3, <2>4 DEF PollSeesAll, IsPrefix, FeedInv, ChainPart
<1> QED
  BY <1>1, FeedInitInv, FeedNextInv, PTL DEF FeedSpec

\* For channels of any capacity and any number of subscribers, a subscriber
\* that is still served has an open channel of its own with everything
\* published since it subscribed (chain.go:96-121).
THEOREM SubscribersHaveNoGaps == FeedSpec => []FeedHasNoGaps
<1>1. FeedInv => FeedHasNoGaps
  BY DEF FeedInv, BusPart
<1> QED
  BY <1>1, FeedInitInv, FeedNextInv, PTL DEF FeedSpec
-----------------------------------------------------------------------------
(* Loops.  A loop is a recursive function of the rounds made, and exists    *)
(* for a body that is a function of the round and of what was made so far.  *)

\* A set of naturals that is not empty has a least element.
LEMMA LeastOf ==
    ASSUME NEW D \in SUBSET Nat, D # {}
    PROVE  \E m \in D : \A x \in D : m <= x
<1>1. PICK m \in D : \A e \in D : ~(<<e, m>> \in OpToRel(<, Nat))
  BY WFMin, NatLessThanWellFounded
<1>2. \A e \in D : <<e, m>> \in Nat \X Nat
  OBVIOUS
<1>3. \A e \in D : ~(e < m)
  BY <1>1, <1>2 DEF OpToRel
<1> QED
  BY <1>3

\* What holds at 0, and at i if at i - 1, holds up to n.
LEMMA UpTo ==
    ASSUME NEW n \in Nat, NEW S, 0 \in S, \A i \in 1..n : i - 1 \in S => i \in S
    PROVE  \A i \in 0..n : i \in S
<1> DEFINE D == {i \in 0..n : i \notin S}
<1> SUFFICES ASSUME D # {} PROVE FALSE
  OBVIOUS
<1>1. PICK m \in D : \A x \in D : m <= x
  <2>1. D \in SUBSET Nat
    OBVIOUS
  <2> HIDE DEF D
  <2> QED
    BY <2>1, LeastOf
<1>2. m \in 1..n /\ m \notin S /\ m - 1 \in 0..n /\ ~(m <= m - 1)
  OBVIOUS
<1>3. m - 1 \notin D
  <2> HIDE DEF D
  <2> QED
    BY <1>1, <1>2
<1> QED
  BY <1>2, <1>3

\* f is what n rounds of the body g make of s.
Rounds(f, n, s, g) ==
    /\ f = [i \in 0..n |-> f[i]] /\ f[0] = s
    /\ \A i \in 1..n : f[i] = g[i][f[i-1]]

\* Rounds of a loop over values of S exist.
LEMMA RoundsExist ==
    ASSUME NEW n \in Nat, NEW S, NEW s \in S, NEW g \in [1..n -> [S -> S]]
    PROVE  \E f : Rounds(f, n, s, g) /\ \A i \in 0..n : f[i] \in S
<1> DEFINE Good(f, k) == /\ f \in [0..k -> S] /\ f[0] = s
                         /\ \A i \in 1..k : f[i] = g[i][f[i-1]]
           W == {k \in 0..n : \E f : Good(f, k)}
<1>1. 0 \in W
  <2> DEFINE f == [i \in 0..0 |-> s]
  <2>1. Good(f, 0)
    OBVIOUS
  <2>2. 0 \in 0..n
    OBVIOUS
  <2> HIDE DEF f
  <2>3. \E e : Good(e, 0)
    BY <2>1
  <2> HIDE DEF Good
  <2> QED
    BY <2>2, <2>3
<1>2. ASSUME NEW i \in 1..n, i - 1 \in W PROVE i \in W
  <2>1. PICK f : Good(f, i - 1)
    BY <1>2
  <2>2. i \in 0..n /\ i - 1 \in 0..(i-1) /\ i - 1 \in Nat /\ i \in Nat /\ i # 0
    OBVIOUS
  <2> DEFINE e == [j \in 0..i |-> IF j = i THEN g[i][f[i-1]] ELSE f[j]]
  <2>3. \A j \in 0..i : j # i => j \in 0..(i-1)
    OBVIOUS
  <2>4. f[i-1] \in S
    BY <2>1, <2>2
  <2>5. g[i][f[i-1]] \in S
    BY <2>4
  <2>6. \A j \in 0..i : e[j] \in S
    BY <2>1, <2>3, <2>5
  <2>7. e \in [0..i -> S]
    BY <2>6
  <2>8. e[0] = s
    BY <2>1, <2>2
  <2>9. ASSUME NEW j \in 1..i PROVE e[j] = g[j][e[j-1]]
    <3>1. j - 1 \in 0..i /\ j - 1 # i /\ j \in 0..i
      OBVIOUS
    <3>2. e[j-1] = f[j-1]
      BY <3>1
    <3>3. CASE j = i
      BY <3>1, <3>2, <3>3
    <3>4. CASE j # i
      <4>1. j \in 1..(i-1)
        BY <3>4
      <4>2. f[j] = g[j][f[j-1]]
        BY <2>1, <4>1
      <4> QED
        BY <3>1, <3>2, <3>4, <4>2
    <3> QED
      BY <3>3, <3>4
  <2>10. Good(e, i)
    <3> HIDE DEF e
    <3> QED
      BY <2>7, <2>8, <2>9
  <2> QED
    BY <2>2, <2>10
<1>3. n \in W
  <2> HIDE DEF W
  <2>1. \A i \in 0..n : i \in W
    BY <1>1, <1>2, UpTo
  <2> QED
    BY <2>1
<1>4. PICK f : Good(f, n)
  BY <1>3
<1>5. f = [i \in 0..n |-> f[i]] /\ \A i \in 0..n : f[i] \in S
  BY <1>4
<1> QED
  BY <1>4, <1>5 DEF Rounds
-----------------------------------------------------------------------------
(* Sequences with one more element. *)

\* What a sequence is with one more element.
LEMMA Appended ==
    ASSUME NEW T, NEW s \in Seq(T), NEW e \in T
    PROVE  /\ Append(s, e) \in Seq(T) /\ Len(Append(s, e)) = Len(s) + 1
           /\ Append(s, e)[Len(s) + 1] = e /\ \A i \in 1..Len(s) : Append(s, e)[i] = s[i]
<1>1. PICK r : r = Append(s, e)
  OBVIOUS
<1>2. r \in Seq(T) /\ Len(r) = Len(s) + 1
  BY <1>1
<1>3. \A i \in 1..(Len(s) + 1) : r[i] = IF i <= Len(s) THEN s[i] ELSE e
  BY <1>1
<1>4. Len(s) \in Nat /\ Len(s) + 1 \in 1..(Len(s) + 1) /\ ~(Len(s) + 1 <= Len(s))
  OBVIOUS
<1>5. \A i \in 1..Len(s) : i \in 1..(Len(s) + 1) /\ i <= Len(s)
  BY <1>4
<1> QED
  BY <1>1, <1>2, <1>3, <1>4, <1>5

\* The first i elements are the first i - 1 and the i-th.
LEMMA OneFurther ==
    ASSUME NEW T, NEW s \in Seq(T), NEW a \in 1..(Len(s) + 1), NEW i \in a..Len(s)
    PROVE  SubSeq(s, a, i) = Append(SubSeq(s, a, i - 1), s[i])
<1>0. Len(s) \in Nat /\ i \in 1..Len(s) /\ i - 1 \in Nat /\ a \in Nat /\ s[i] \in T
  OBVIOUS
<1>1. PICK x : x = SubSeq(s, a, i)
  OBVIOUS
<1>2. PICK y : y = SubSeq(s, a, i - 1)
  OBVIOUS
<1>3. x \in Seq(T) /\ Len(x) = i - a + 1 /\ \A j \in 1..(i - a + 1) : x[j] = s[a + j - 1]
  BY <1>0, <1>1
<1>4. y \in Seq(T) /\ Len(y) = i - a /\ \A j \in 1..(i - a) : y[j] = s[a + j - 1]
  BY <1>0, <1>2
<1>5. PICK z : z = Append(y, s[i])
  OBVIOUS
<1>6. z \in Seq(T) /\ Len(z) = i - a + 1 /\ z[i - a + 1] = s[i]
      /\ \A j \in 1..(i - a) : z[j] = y[j]
  <2>1. PICK e \in T, k \in Nat : e = s[i] /\ k = Len(y) /\ k = i - a
    BY <1>0, <1>4
  <2>2. /\ z \in Seq(T) /\ Len(z) = k + 1 /\ z[k + 1] = e
        /\ \A j \in 1..k : z[j] = y[j]
    BY <1>4, <1>5, <2>1, Appended
  <2> QED
    BY <2>1, <2>2
<1>7. \A j \in 1..(i - a + 1) : z[j] = s[a + j - 1]
  <2>1. TAKE j \in 1..(i - a + 1)
  <2>2. CASE j = i - a + 1
    BY <1>0, <1>6, <2>2
  <2>3. CASE j # i - a + 1
    <3>1. j \in 1..(i - a)
      BY <1>0, <2>3
    <3> QED
      BY <1>4, <1>6, <3>1
  <2> QED
    BY <2>2, <2>3
<1>8. x = z
  BY <1>3, <1>6, <1>7, SeqEqual
<1> QED
  BY <1>1, <1>2, <1>5, <1>8
-----------------------------------------------------------------------------
(* The index: how often a height occurs. *)

\* A count is a natural number.
LEMMA TimesIsNat ==
    ASSUME NEW T, NEW s \in Seq(T), NEW k
    PROVE  Times(s, k) \in Nat
<1>1. Len(s) \in Nat
  OBVIOUS
<1>2. IsFiniteSet(1..Len(s))
  BY <1>1, FS_Interval
<1>3. IsFiniteSet({i \in 1..Len(s) : s[i] = k})
  BY <1>2, FS_Subset
<1> QED
  BY <1>3, FS_CardinalityType DEF Times

\* The empty slice has no heights.
LEMMA TimesOfNone == ASSUME NEW k PROVE Times(<<>>, k) = 0
<1>1. {i \in 1..Len(<<>>) : <<>>[i] = k} = {}
  OBVIOUS
<1> QED
  BY <1>1, FS_EmptySet DEF Times

\* append(xs, e) counts e once more, and nothing else.
LEMMA TimesOfAppend ==
    ASSUME NEW T, NEW s \in Seq(T), NEW e \in T, NEW k
    PROVE  /\ e = k => Times(Append(s, e), k) = Times(s, k) + 1
           /\ e # k => Times(Append(s, e), k) = Times(s, k)
<1>1. PICK r : r = Append(s, e)
  OBVIOUS
<1>2. Len(r) = Len(s) + 1 /\ r[Len(s) + 1] = e /\ \A i \in 1..Len(s) : r[i] = s[i]
  BY <1>1, Appended
<1> DEFINE A == {i \in 1..Len(s) : s[i] = k}
           B == {i \in 1..Len(r) : r[i] = k}
<1>3. Len(s) \in Nat
  OBVIOUS
<1>4. IsFiniteSet(A)
  <2>1. IsFiniteSet(1..Len(s))
    BY <1>3, FS_Interval
  <2> QED
    BY <2>1, FS_Subset
<1>5. Times(s, k) = Cardinality(A) /\ Times(Append(s, e), k) = Cardinality(B)
  BY <1>1 DEF Times
<1>6. Cardinality(A) \in Nat
  BY <1>4, FS_CardinalityType
<1>7. 1..Len(r) = 1..Len(s) \cup {Len(s) + 1} /\ Len(s) + 1 \notin 1..Len(s)
  BY <1>2, <1>3
<1>8. CASE e = k
  <2>1. B = A \cup {Len(s) + 1}
    BY <1>2, <1>7, <1>8
  <2>2. Len(s) + 1 \notin A
    BY <1>7
  <2> HIDE DEF A, B
  <2>3. Cardinality(B) = Cardinality(A) + 1
    BY <1>4, <2>1, <2>2, FS_AddElement
  <2> QED
    BY <1>5, <1>8, <2>3
<1>9. CASE e # k
  <2>1. B = A
    BY <1>2, <1>7, <1>9
  <2> HIDE DEF A, B
  <2> QED
    BY <1>5, <1>9, <2>1
<1> QED
  BY <1>8, <1>9

\* The rounds of RemoveAbove's loop.
KeepRun(f, xs, h) ==
    /\ f = [i \in 0..Len(xs) |-> f[i]] /\ f[0] = <<>>
    /\ \A i \in 1..Len(xs) :
         f[i] = IF xs[i] <= h THEN Append(f[i-1], xs[i]) ELSE f[i-1]

\* Keep returns what they come to.
LEMMA KeepRuns ==
    ASSUME NEW xs \in Seq(Nat), NEW h
    PROVE  \E f : KeepRun(f, xs, h) /\ Keep(xs, h) = f[Len(xs)]
<1> DEFINE n == Len(xs)
           g == [i \in 1..n |-> [s \in Seq(Nat) |-> IF xs[i] <= h THEN Append(s, xs[i]) ELSE s]]
           F(f) == [i \in 0..n |->
                      IF i = 0 THEN <<>>
                      ELSE IF xs[i] <= h THEN Append(f[i-1], xs[i])
                      ELSE f[i-1]]
           f1 == CHOOSE f : f = F(f)
<1>1. n \in Nat /\ \A i \in 1..n : xs[i] \in Nat
  OBVIOUS
<1>2. ASSUME NEW i \in 1..n PROVE g[i] \in [Seq(Nat) -> Seq(Nat)]
  <2>1. \A s \in Seq(Nat) : Append(s, xs[i]) \in Seq(Nat)
    BY <1>1
  <2>2. [s \in Seq(Nat) |-> IF xs[i] <= h THEN Append(s, xs[i]) ELSE s] \in [Seq(Nat) -> Seq(Nat)]
    BY <2>1
  <2> QED
    BY <2>2
<1>3. g \in [1..n -> [Seq(Nat) -> Seq(Nat)]]
  BY <1>2
<1>4. <<>> \in Seq(Nat)
  OBVIOUS
<1>5. PICK f : Rounds(f, n, <<>>, g) /\ \A i \in 0..n : f[i] \in Seq(Nat)
  <2> HIDE DEF n, g
  <2> QED
    BY <1>1, <1>3, <1>4, RoundsExist
<1>6. f = F(f)
  <2>1. f = [i \in 0..n |-> f[i]] /\ f[0] = <<>> /\ \A i \in 1..n : f[i] = g[i][f[i-1]]
    BY <1>5 DEF Rounds
  <2>2. ASSUME NEW i \in 0..n
        PROVE  f[i] = IF i = 0 THEN <<>>
                      ELSE IF xs[i] <= h THEN Append(f[i-1], xs[i])
                      ELSE f[i-1]
    <3>1. CASE i = 0
      BY <2>1, <3>1
    <3>2. CASE i # 0
      <4>1. i \in 1..n /\ i - 1 \in 0..n
        BY <1>1, <3>2
      <4>2. f[i-1] \in Seq(Nat) /\ f[i] = g[i][f[i-1]]
        BY <1>5, <2>1, <4>1
      <4>3. f[i] = IF xs[i] <= h THEN Append(f[i-1], xs[i]) ELSE f[i-1]
        BY <4>1, <4>2
      <4> QED
        BY <3>2, <4>3
    <3> QED
      BY <3>1, <3>2
  <2> QED
    BY <2>1, <2>2
<1>7. f1 = F(f1)
  <2> HIDE DEF F
  <2> QED
    BY <1>6
<1>8. Keep(xs, h) = f1[n]
  BY DEF Keep
<1>9. KeepRun(f1, xs, h)
  <2> HIDE DEF f1
  <2>1. f1 = [i \in 0..n |-> f1[i]]
    BY <1>7
  <2>2. f1[0] = <<>>
    BY <1>7, <1>1
  <2>3. ASSUME NEW i \in 1..n
        PROVE  f1[i] = IF xs[i] <= h THEN Append(f1[i-1], xs[i]) ELSE f1[i-1]
    <3>1. i \in 0..n /\ i # 0
      BY <1>1
    <3> QED
      BY <1>7, <3>1
  <2> QED
    BY <2>1, <2>2, <2>3 DEF KeepRun
<1> QED
  BY <1>8, <1>9

\* RemoveAbove's loop keeps a slice of heights one, with as many of each height
\* up to h as before, and none above.
LEMMA KeepCounts ==
    ASSUME NEW xs \in Seq(Nat), NEW h \in Nat
    PROVE  /\ Keep(xs, h) \in Seq(Nat)
           /\ \A k \in Nat : /\ k <= h => Times(Keep(xs, h), k) = Times(xs, k)
                             /\ ~(k <= h) => Times(Keep(xs, h), k) = 0
<1>1. PICK f : KeepRun(f, xs, h) /\ Keep(xs, h) = f[Len(xs)]
  BY KeepRuns
<1> DEFINE n == Len(xs)
           W == {i \in 0..n : /\ f[i] \in Seq(Nat)
                              /\ \A k \in Nat : Times(f[i], k) =
                                   IF k <= h THEN Times(SubSeq(xs, 1, i), k) ELSE 0}
<1>2. n \in Nat /\ \A i \in 1..n : xs[i] \in Nat
  OBVIOUS
<1>3. 0 \in W
  <2>1. f[0] = <<>> /\ SubSeq(xs, 1, 0) = <<>> /\ 0 \in 0..n
    BY <1>1, <1>2 DEF KeepRun
  <2>2. \A k \in Nat : Times(<<>>, k) = 0
    BY TimesOfNone
  <2>3. f[0] \in Seq(Nat)
    BY <2>1
  <2>4. \A k \in Nat : Times(f[0], k) = IF k <= h THEN Times(SubSeq(xs, 1, 0), k) ELSE 0
    BY <2>1, <2>2
  <2> QED
    BY <2>1, <2>3, <2>4
<1>4. ASSUME NEW i \in 1..n, i - 1 \in W PROVE i \in W
  <2>1. i \in 0..n /\ i - 1 \in 0..n
    BY <1>2
  <2>2. f[i-1] \in Seq(Nat)
        /\ \A k \in Nat : Times(f[i-1], k) =
             IF k <= h THEN Times(SubSeq(xs, 1, i-1), k) ELSE 0
    BY <1>4
  <2>3. f[i] = IF xs[i] <= h THEN Append(f[i-1], xs[i]) ELSE f[i-1]
    BY <1>1 DEF KeepRun
  <2>4. SubSeq(xs, 1, i) = Append(SubSeq(xs, 1, i-1), xs[i])
    BY <1>2, OneFurther
  <2>5. SubSeq(xs, 1, i-1) \in Seq(Nat)
    BY <1>2, <2>1
  <2>6. xs[i] \in Nat
    BY <1>2
  <2>7. \A k \in Nat :
          /\ xs[i] = k => Times(SubSeq(xs, 1, i), k) = Times(SubSeq(xs, 1, i-1), k) + 1
          /\ xs[i] # k => Times(SubSeq(xs, 1, i), k) = Times(SubSeq(xs, 1, i-1), k)
    <3>1. PICK x \in Seq(Nat) : x = SubSeq(xs, 1, i-1)
      BY <2>5
    <3>2. PICK e \in Nat : e = xs[i]
      BY <2>6
    <3>3. \A k \in Nat : /\ e = k => Times(Append(x, e), k) = Times(x, k) + 1
                         /\ e # k => Times(Append(x, e), k) = Times(x, k)
      BY TimesOfAppend
    <3> QED
      BY <2>4, <3>1, <3>2, <3>3
  <2>8. f[i] \in Seq(Nat)
    BY <2>2, <2>3, <2>6, Appended
  <2>9. ASSUME NEW k \in Nat
        PROVE Times(f[i], k) = IF k <= h THEN Times(SubSeq(xs, 1, i), k) ELSE 0
    <3>1. Times(f[i-1], k) \in Nat /\ Times(SubSeq(xs, 1, i-1), k) \in Nat
      BY <2>2, <2>5, TimesIsNat
    <3>2. /\ xs[i] = k => Times(Append(f[i-1], xs[i]), k) = Times(f[i-1], k) + 1
          /\ xs[i] # k => Times(Append(f[i-1], xs[i]), k) = Times(f[i-1], k)
      BY <2>2, <2>6, TimesOfAppend
    <3>3. PICK a, b, c, d \in Nat : a = Times(f[i-1], k) /\ b = Times(SubSeq(xs, 1, i-1), k)
                /\ c = xs[i] /\ d = k
      BY <3>1, <2>6
    <3>4. a = IF d <= h THEN b ELSE 0
      BY <2>2, <3>3
    <3>5. Times(SubSeq(xs, 1, i), k) = b + IF c = d THEN 1 ELSE 0
      BY <2>7, <3>3
    <3>6. CASE c <= h
      <4>1. Times(f[i], k) = a + IF c = d THEN 1 ELSE 0
        BY <2>3, <3>2, <3>3, <3>6
      <4> QED
        BY <3>3, <3>4, <3>5, <3>6, <4>1
    <3>7. CASE ~(c <= h)
      <4>1. Times(f[i], k) = a
        BY <2>3, <3>3, <3>7
      <4> QED
        BY <3>3, <3>4, <3>5, <3>7, <4>1
    <3> QED
      BY <3>6, <3>7
  <2> QED
    BY <2>1, <2>8, <2>9
<1>5. n \in W
  <2> HIDE DEF W
  <2>1. \A i \in 0..n : i \in W
    BY <1>2, <1>3, <1>4, UpTo
  <2> QED
    BY <1>2, <2>1
<1>6. SubSeq(xs, 1, n) = xs
  BY <1>2
<1> QED
  BY <1>1, <1>5, <1>6
-----------------------------------------------------------------------------
(* The index: what it knows. *)

\* What IndexAgrees needs to be inductive: slices of heights, and finitely many
\* blocks, which are known ones.
IndexInv ==
    /\ IndexAgrees
    /\ heights \in Seq(Nat)
    /\ \A p \in DOMAIN proposers : proposers[p] \in Seq(Nat)
    /\ indexed \subseteq Known /\ IsFiniteSet(indexed)

\* The blocks of D at height k, and those of them that p proposed.
At(D, k) == {b \in D : b.Height = k}
By(D, k, p) == {b \in D : b.Height = k /\ b.Proposer = p}

\* A further block counts once at its height and for its proposer.
LEMMA OneMoreBlock ==
    ASSUME NEW D, IsFiniteSet(D), NEW b, b \notin D, NEW k, NEW p
    PROVE  /\ Cardinality(At(D, k)) \in Nat /\ Cardinality(By(D, k, p)) \in Nat
           /\ b.Height = k => Cardinality(At(D \cup {b}, k)) = Cardinality(At(D, k)) + 1
           /\ b.Height # k => Cardinality(At(D \cup {b}, k)) = Cardinality(At(D, k))
           /\ b.Height = k /\ b.Proposer = p =>
                Cardinality(By(D \cup {b}, k, p)) = Cardinality(By(D, k, p)) + 1
           /\ ~(b.Height = k /\ b.Proposer = p) =>
                Cardinality(By(D \cup {b}, k, p)) = Cardinality(By(D, k, p))
<1>1. IsFiniteSet(At(D, k)) /\ IsFiniteSet(By(D, k, p))
  BY FS_Subset DEF At, By
<1>2. Cardinality(At(D, k)) \in Nat /\ Cardinality(By(D, k, p)) \in Nat
  BY <1>1, FS_CardinalityType
<1>3. b \notin At(D, k) /\ b \notin By(D, k, p)
  BY DEF At, By
<1>4. ASSUME b.Height = k
      PROVE Cardinality(At(D \cup {b}, k)) = Cardinality(At(D, k)) + 1
  <2>1. At(D \cup {b}, k) = At(D, k) \cup {b}
    BY <1>4 DEF At
  <2> QED
    BY <1>1, <1>3, <2>1, FS_AddElement
<1>5. ASSUME b.Height # k
      PROVE Cardinality(At(D \cup {b}, k)) = Cardinality(At(D, k))
  <2>1. At(D \cup {b}, k) = At(D, k)
    BY <1>5 DEF At
  <2> QED
    BY <2>1
<1>6. ASSUME b.Height = k /\ b.Proposer = p
      PROVE Cardinality(By(D \cup {b}, k, p)) = Cardinality(By(D, k, p)) + 1
  <2>1. By(D \cup {b}, k, p) = By(D, k, p) \cup {b}
    BY <1>6 DEF By
  <2> QED
    BY <1>1, <1>3, <2>1, FS_AddElement
<1>7. ASSUME ~(b.Height = k /\ b.Proposer = p)
      PROVE Cardinality(By(D \cup {b}, k, p)) = Cardinality(By(D, k, p))
  <2>1. By(D \cup {b}, k, p) = By(D, k, p)
    BY <1>7 DEF By
  <2> QED
    BY <2>1
<1> QED
  BY <1>2, <1>4, <1>5, <1>6, <1>7

\* A new index knows nothing.
LEMMA IndexInitInv == LookupInit => IndexInv
<1> SUFFICES ASSUME LookupInit PROVE IndexInv
  OBVIOUS
<1>1. heights = <<>> /\ DOMAIN hashes = {} /\ DOMAIN proposers = {} /\ indexed = {}
  BY DEF LookupInit, EmptyMap
<1>2. \A h \in 1..TopHeight : Times(heights, h) = Cardinality({b \in indexed : b.Height = h})
  <2>1. TAKE h \in 1..TopHeight
  <2>2. {b \in indexed : b.Height = h} = {} /\ Cardinality({}) = 0
    BY <1>1, FS_EmptySet
  <2> QED
    BY <1>1, <2>2, TimesOfNone
<1>3. heights \in Seq(Nat) /\ IsFiniteSet(indexed)
  BY <1>1, FS_EmptySet
<1>4. DOMAIN hashes = {b.Hash : b \in indexed}
  BY <1>1
<1>5. IndexAgrees
  BY <1>1, <1>2, <1>4 DEF IndexAgrees
<1> QED
  BY <1>1, <1>3, <1>5 DEF IndexInv

\* Add keeps the invariant: the hash is new, so the block is.
LEMMA IndexAddInv ==
    ASSUME IndexInv, NEW b \in Known, IndexAdd(b)
    PROVE  IndexInv'
<1>0. b.Height \in Nat /\ TopHeight \in Nat
  BY KnownAssumption
<1>1. /\ heights \in Seq(Nat) /\ indexed \subseteq Known /\ IsFiniteSet(indexed)
      /\ \A p \in DOMAIN proposers : proposers[p] \in Seq(Nat)
      /\ DOMAIN hashes = {c.Hash : c \in indexed}
      /\ \A c \in indexed : hashes[c.Hash] = c.Height /\ c.Proposer \in DOMAIN proposers
      /\ \A c, d \in indexed : c.Hash = d.Hash => c = d
  BY DEF IndexInv, IndexAgrees
<1>2. /\ \A h \in 1..TopHeight : Times(heights, h) = Cardinality(At(indexed, h))
      /\ \A h \in 1..TopHeight : \A p \in DOMAIN proposers :
           Times(proposers[p], h) = Cardinality(By(indexed, h, p))
  BY DEF IndexInv, IndexAgrees, At, By
<1>3. /\ b.Hash \notin DOMAIN hashes /\ indexed' = indexed \cup {b}
      /\ heights' = Append(heights, b.Height)
      /\ hashes' = MapPut(hashes, b.Hash, b.Height)
  BY DEF IndexAdd
<1> DEFINE old == IF b.Proposer \in DOMAIN proposers THEN proposers[b.Proposer] ELSE <<>>
<1>4. proposers' = MapPut(proposers, b.Proposer, Append(old, b.Height))
  BY DEF IndexAdd
<1>5. b \notin indexed
  BY <1>1, <1>3
<1>6. heights' \in Seq(Nat)
  BY <1>0, <1>1, <1>3, Appended
<1>7. old \in Seq(Nat)
  BY <1>1
<1>8. ASSUME NEW h \in 1..TopHeight PROVE Times(old, h) = Cardinality(By(indexed, h, b.Proposer))
  <2>1. CASE b.Proposer \in DOMAIN proposers
    BY <1>2, <2>1
  <2>2. CASE b.Proposer \notin DOMAIN proposers
    <3>1. By(indexed, h, b.Proposer) = {}
      BY <1>1, <2>2 DEF By
    <3>2. Cardinality({}) = 0 /\ Times(<<>>, h) = 0
      BY FS_EmptySet, TimesOfNone
    <3> QED
      BY <2>2, <3>1, <3>2
  <2> QED
    BY <2>1, <2>2
<1> HIDE DEF old
<1>9. /\ DOMAIN proposers' = DOMAIN proposers \cup {b.Proposer}
      /\ proposers'[b.Proposer] = Append(old, b.Height)
      /\ \A p \in DOMAIN proposers : p # b.Proposer => proposers'[p] = proposers[p]
  BY <1>4 DEF MapPut
<1>10. \A p \in DOMAIN proposers' : proposers'[p] \in Seq(Nat)
  <2>1. Append(old, b.Height) \in Seq(Nat)
    BY <1>0, <1>7, Appended
  <2> QED
    BY <1>1, <1>9, <2>1
<1>11. ASSUME NEW h \in 1..TopHeight
       PROVE Times(heights', h) = Cardinality(At(indexed', h))
  <2>1. /\ b.Height = h => Cardinality(At(indexed', h)) = Cardinality(At(indexed, h)) + 1
        /\ b.Height # h => Cardinality(At(indexed', h)) = Cardinality(At(indexed, h))
    <3>1. PICK D, q : D = indexed /\ q = b.Proposer
      OBVIOUS
    <3>2. IsFiniteSet(D) /\ b \notin D
      BY <1>1, <1>5, <3>1
    <3>3. /\ b.Height = h => Cardinality(At(D \cup {b}, h)) = Cardinality(At(D, h)) + 1
          /\ b.Height # h => Cardinality(At(D \cup {b}, h)) = Cardinality(At(D, h))
          /\ Cardinality(By(D, h, q)) \in Nat
      BY <3>2, OneMoreBlock
    <3> QED
      BY <1>3, <3>1, <3>3
  <2>2. /\ b.Height = h => Times(heights', h) = Times(heights, h) + 1
        /\ b.Height # h => Times(heights', h) = Times(heights, h)
    BY <1>0, <1>1, <1>3, TimesOfAppend, SMTT(40)
  <2> QED
    BY <1>2, <2>1, <2>2
<1>12. ASSUME NEW h \in 1..TopHeight, NEW p \in DOMAIN proposers'
       PROVE Times(proposers'[p], h) = Cardinality(By(indexed', h, p))
  <2>1. /\ b.Height = h /\ b.Proposer = p =>
             Cardinality(By(indexed', h, p)) = Cardinality(By(indexed, h, p)) + 1
        /\ ~(b.Height = h /\ b.Proposer = p) =>
             Cardinality(By(indexed', h, p)) = Cardinality(By(indexed, h, p))
    BY <1>1, <1>3, <1>5, OneMoreBlock
  <2>2. CASE p = b.Proposer
    <3>1. /\ b.Height = h => Times(Append(old, b.Height), h) = Times(old, h) + 1
          /\ b.Height # h => Times(Append(old, b.Height), h) = Times(old, h)
      BY <1>0, <1>7, TimesOfAppend
    <3> QED
      BY <1>8, <1>9, <2>1, <2>2, <3>1
  <2>3. CASE p # b.Proposer
    BY <1>2, <1>9, <2>1, <2>3
  <2> QED
    BY <2>2, <2>3
<1>13. DOMAIN hashes' = {c.Hash : c \in indexed'}
  BY <1>1, <1>3 DEF MapPut
<1>14. \A c \in indexed' : hashes'[c.Hash] = c.Height /\ c.Proposer \in DOMAIN proposers'
  BY <1>1, <1>3, <1>9 DEF MapPut
<1>15. \A c, d \in indexed' : c.Hash = d.Hash => c = d
  BY <1>1, <1>3
<1>16. IndexAgrees'
  BY <1>11, <1>12, <1>13, <1>14, <1>15 DEF IndexAgrees, At, By
<1>17. IsFiniteSet(indexed')
  BY <1>1, <1>3, FS_AddElement
<1> QED
  BY <1>1, <1>3, <1>6, <1>10, <1>16, <1>17 DEF IndexInv

\* RemoveAbove keeps the invariant: what is left is left everywhere.
LEMMA RemoveAboveInv ==
    ASSUME IndexInv, NEW h \in 0..TopHeight, RemoveAbove(h)
    PROVE  IndexInv'
<1>0. /\ TopHeight \in Nat /\ h \in Nat
      /\ \A b \in Known : b.Height \in Nat
  BY KnownAssumption
<1>1. /\ heights \in Seq(Nat) /\ indexed \subseteq Known /\ IsFiniteSet(indexed)
      /\ \A p \in DOMAIN proposers : proposers[p] \in Seq(Nat)
      /\ DOMAIN hashes = {c.Hash : c \in indexed}
      /\ \A c \in indexed : hashes[c.Hash] = c.Height /\ c.Proposer \in DOMAIN proposers
      /\ \A c, d \in indexed : c.Hash = d.Hash => c = d
  BY DEF IndexInv, IndexAgrees
<1>2. /\ \A k \in 1..TopHeight : Times(heights, k) = Cardinality(At(indexed, k))
      /\ \A k \in 1..TopHeight : \A p \in DOMAIN proposers :
           Times(proposers[p], k) = Cardinality(By(indexed, k, p))
  BY DEF IndexInv, IndexAgrees, At, By
<1>3. /\ heights' = Keep(heights, h) /\ indexed' = {b \in indexed : b.Height <= h}
      /\ DOMAIN hashes' = {x \in DOMAIN hashes : ~(hashes[x] > h)}
      /\ \A x \in DOMAIN hashes' : hashes'[x] = hashes[x]
      /\ DOMAIN proposers' = DOMAIN proposers
      /\ \A p \in DOMAIN proposers : proposers'[p] = Keep(proposers[p], h)
  BY DEF RemoveAbove, MapDelete
<1>4. heights' \in Seq(Nat) /\ \A p \in DOMAIN proposers' : proposers'[p] \in Seq(Nat)
  BY <1>0, <1>1, <1>3, KeepCounts
<1>5. ASSUME NEW k \in 1..TopHeight
      PROVE Times(heights', k) = Cardinality(At(indexed', k))
  <2>1. /\ k \in Nat
        /\ k <= h => Times(heights', k) = Times(heights, k)
        /\ ~(k <= h) => Times(heights', k) = 0
    <3>1. PICK xs \in Seq(Nat) : xs = heights
      BY <1>1
    <3>2. k \in Nat
      BY <1>0
    <3>3. PICK e \in Nat : e = h
      BY <1>0
    <3>4. \A j \in Nat : /\ j <= e => Times(Keep(xs, e), j) = Times(xs, j)
                         /\ ~(j <= e) => Times(Keep(xs, e), j) = 0
      BY KeepCounts
    <3> QED
      BY <1>3, <3>1, <3>2, <3>3, <3>4
  <2>2. CASE k <= h
    <3>1. At(indexed', k) = At(indexed, k)
      BY <1>3, <2>2 DEF At
    <3> QED
      BY <1>2, <2>1, <2>2, <3>1
  <2>3. CASE ~(k <= h)
    <3>1. At(indexed', k) = {} /\ Cardinality({}) = 0
      BY <1>3, <2>3, FS_EmptySet DEF At
    <3> QED
      BY <2>1, <2>3, <3>1
  <2> QED
    BY <2>2, <2>3
<1>6. ASSUME NEW k \in 1..TopHeight, NEW p \in DOMAIN proposers'
      PROVE Times(proposers'[p], k) = Cardinality(By(indexed', k, p))
  <2>0. p \in DOMAIN proposers /\ proposers[p] \in Seq(Nat) /\ proposers'[p] = Keep(proposers[p], h)
    BY <1>1, <1>3
  <2>1. /\ k \in Nat
        /\ k <= h => Times(proposers'[p], k) = Times(proposers[p], k)
        /\ ~(k <= h) => Times(proposers'[p], k) = 0
    <3>1. PICK xs \in Seq(Nat) : xs = proposers[p]
      BY <2>0
    <3>2. k \in Nat
      BY <1>0
    <3>3. PICK e \in Nat : e = h
      BY <1>0
    <3>4. \A j \in Nat : /\ j <= e => Times(Keep(xs, e), j) = Times(xs, j)
                         /\ ~(j <= e) => Times(Keep(xs, e), j) = 0
      BY KeepCounts
    <3> QED
      BY <2>0, <3>1, <3>2, <3>3, <3>4
  <2>2. CASE k <= h
    <3>1. By(indexed', k, p) = By(indexed, k, p)
      BY <1>3, <2>2 DEF By
    <3> QED
      BY <1>2, <2>0, <2>1, <2>2, <3>1
  <2>3. CASE ~(k <= h)
    <3>1. By(indexed', k, p) = {} /\ Cardinality({}) = 0
      BY <1>3, <2>3, FS_EmptySet DEF By
    <3> QED
      BY <2>1, <2>3, <3>1
  <2> QED
    BY <2>2, <2>3
<1>7. \A c \in indexed : c.Height \in Nat /\ (hashes[c.Hash] > h <=> ~(c.Height <= h))
  BY <1>0, <1>1
<1>8. DOMAIN hashes' = {c.Hash : c \in indexed'}
  BY <1>1, <1>3, <1>7, SMTT(40)
<1>9. \A c \in indexed' : hashes'[c.Hash] = c.Height /\ c.Proposer \in DOMAIN proposers'
  BY <1>1, <1>3, <1>8
<1>10. \A c, d \in indexed' : c.Hash = d.Hash => c = d
  BY <1>1, <1>3
<1>11. IndexAgrees'
  BY <1>5, <1>6, <1>8, <1>9, <1>10 DEF IndexAgrees, At, By
<1>12. IsFiniteSet(indexed') /\ indexed' \subseteq Known
  BY <1>1, <1>3, FS_Subset
<1> QED
  BY <1>4, <1>11, <1>12 DEF IndexInv
-----------------------------------------------------------------------------
(* The metadata store: the two maps. *)

\* The records of known blocks.
Metas == {[Height |-> b.Height, Hash |-> b.Hash] : b \in Known}

\* What MetaAgrees needs to be inductive: a record is of a known block, and is
\* kept under its own height and its own hash.
MetaInv ==
    /\ MetaAgrees
    /\ DOMAIN byHeight \subseteq 1..TopHeight
    /\ \A h \in DOMAIN byHeight : byHeight[h] \in Metas /\ byHeight[h].Height = h
    /\ \A x \in DOMAIN byHash : byHash[x] \in Metas /\ byHash[x].Hash = x

\* Two records with one hash, not the empty one, have one height.
LEMMA HashCoversHeight ==
    ASSUME NEW m \in Metas, NEW o \in Metas, m.Hash # NoName, m.Hash = o.Hash
    PROVE  m.Height = o.Height
BY KnownAssumption DEF Metas

\* A new store is empty.
LEMMA MetaInitInv == LookupInit => MetaInv
BY DEF LookupInit, MetaInv, MetaAgrees, EmptyMap

\* Put keeps the invariant.
LEMMA MetaPutInv ==
    ASSUME MetaInv, NEW m \in Metas, MetaPut(m)
    PROVE  MetaInv'
<1>0. m.Height \in 1..TopHeight
  BY KnownAssumption DEF Metas
<1>1. /\ DOMAIN byHeight \subseteq 1..TopHeight
      /\ \A h \in DOMAIN byHeight : byHeight[h] \in Metas /\ byHeight[h].Height = h
      /\ \A x \in DOMAIN byHash : byHash[x] \in Metas /\ byHash[x].Hash = x
  BY DEF MetaInv
<1>2. /\ DOMAIN byHeight' = DOMAIN byHeight \cup {m.Height} /\ byHeight'[m.Height] = m
      /\ \A h \in DOMAIN byHeight : h # m.Height => byHeight'[h] = byHeight[h]
      /\ DOMAIN byHash' = DOMAIN byHash \cup {m.Hash} /\ byHash'[m.Hash] = m
      /\ \A x \in DOMAIN byHash : x # m.Hash => byHash'[x] = byHash[x]
      /\ superseded' = (superseded \cup {x \in DOMAIN byHash : byHash[x].Height = m.Height})
                         \ {m.Hash}
  BY DEF MetaPut, MapPut
<1>3. ASSUME NEW h \in DOMAIN byHeight', byHeight'[h].Hash # NoName
      PROVE byHeight'[h].Hash \in DOMAIN byHash' /\ byHash'[byHeight'[h].Hash] = byHeight'[h]
  <2>1. CASE h = m.Height
    BY <1>2, <2>1
  <2>2. CASE h # m.Height
    <3>1. h \in DOMAIN byHeight /\ byHeight'[h] = byHeight[h]
      BY <1>2, <2>2
    <3>2. byHeight[h].Hash \in DOMAIN byHash /\ byHash[byHeight[h].Hash] = byHeight[h]
      BY <1>3, <3>1 DEF MetaInv, MetaAgrees
    <3>3. byHeight[h].Hash # m.Hash
      BY <1>1, <1>3, <2>2, <3>1, HashCoversHeight
    <3> QED
      BY <1>2, <3>1, <3>2, <3>3
  <2> QED
    BY <2>1, <2>2
<1>4. ASSUME NEW x \in DOMAIN byHash' \ superseded'
      PROVE byHash'[x].Height \in DOMAIN byHeight' /\ byHeight'[byHash'[x].Height] = byHash'[x]
  <2>1. CASE x = m.Hash
    BY <1>2, <2>1
  <2>2. CASE x # m.Hash
    <3>1. /\ x \in DOMAIN byHash \ superseded /\ byHash'[x] = byHash[x]
          /\ byHash[x].Height # m.Height
      BY <1>2, <2>2
    <3>2. byHash[x].Height \in DOMAIN byHeight /\ byHeight[byHash[x].Height] = byHash[x]
      BY <3>1 DEF MetaInv, MetaAgrees
    <3> QED
      BY <1>2, <3>1, <3>2
  <2> QED
    BY <2>1, <2>2
<1>5. MetaAgrees'
  BY <1>3, <1>4 DEF MetaAgrees
<1>6. DOMAIN byHeight' \subseteq 1..TopHeight
  BY <1>0, <1>1, <1>2
<1>7. \A h \in DOMAIN byHeight' : byHeight'[h] \in Metas /\ byHeight'[h].Height = h
  BY <1>1, <1>2
<1>8. \A x \in DOMAIN byHash' : byHash'[x] \in Metas /\ byHash'[x].Hash = x
  BY <1>1, <1>2
<1> QED
  BY <1>5, <1>6, <1>7, <1>8 DEF MetaInv

\* DeleteAbove keeps the invariant: it deletes no hash of a record it keeps.
LEMMA MetaDeleteInv ==
    ASSUME MetaInv, NEW h \in 0..TopHeight, MetaDeleteAbove(h)
    PROVE  MetaInv'
<1>1. /\ DOMAIN byHeight \subseteq 1..TopHeight
      /\ \A y \in DOMAIN byHeight : byHeight[y] \in Metas /\ byHeight[y].Height = y
      /\ \A x \in DOMAIN byHash : byHash[x] \in Metas /\ byHash[x].Hash = x
  BY DEF MetaInv
<1> DEFINE gone == {x \in DOMAIN byHeight : x > h}
           lost == {byHeight[x].Hash : x \in gone}
<1>2. /\ DOMAIN byHeight' = DOMAIN byHeight \ gone
      /\ \A y \in DOMAIN byHeight' : byHeight'[y] = byHeight[y]
      /\ DOMAIN byHash' = DOMAIN byHash \ lost
      /\ \A x \in DOMAIN byHash' : byHash'[x] = byHash[x]
      /\ superseded' = superseded
  BY DEF MetaDeleteAbove, MapDelete
<1>3. ASSUME NEW y \in DOMAIN byHeight', byHeight'[y].Hash # NoName
      PROVE byHeight'[y].Hash \in DOMAIN byHash' /\ byHash'[byHeight'[y].Hash] = byHeight'[y]
  <2>1. y \in DOMAIN byHeight /\ y \notin gone /\ byHeight'[y] = byHeight[y]
    BY <1>2
  <2>2. byHeight[y].Hash \in DOMAIN byHash /\ byHash[byHeight[y].Hash] = byHeight[y]
    BY <1>3, <2>1 DEF MetaInv, MetaAgrees
  <2>3. ASSUME NEW z \in gone, byHeight[z].Hash = byHeight[y].Hash PROVE FALSE
    BY <1>1, <1>3, <2>1, <2>3, HashCoversHeight
  <2>4. byHeight[y].Hash \notin lost
    BY <2>3
  <2> HIDE DEF lost, gone
  <2> QED
    BY <1>2, <2>1, <2>2, <2>4
<1>4. ASSUME NEW x \in DOMAIN byHash' \ superseded'
      PROVE byHash'[x].Height \in DOMAIN byHeight' /\ byHeight'[byHash'[x].Height] = byHash'[x]
  <2>1. x \in DOMAIN byHash \ superseded /\ x \notin lost /\ byHash'[x] = byHash[x]
    BY <1>2
  <2>2. byHash[x].Height \in DOMAIN byHeight /\ byHeight[byHash[x].Height] = byHash[x]
    BY <2>1 DEF MetaInv, MetaAgrees
  <2>3. byHash[x].Hash = x
    BY <1>1, <2>1
  <2>4. byHash[x].Height \notin gone
    BY <2>1, <2>2, <2>3
  <2> QED
    BY <1>2, <2>1, <2>2, <2>4
<1>5. MetaAgrees'
  BY <1>3, <1>4 DEF MetaAgrees
<1> QED
  BY <1>1, <1>2, <1>5 DEF MetaInv

\* Clear does.
LEMMA MetaClearInv ==
    ASSUME MetaClear
    PROVE  MetaInv'
BY DEF MetaClear, MetaInv, MetaAgrees, EmptyMap
-----------------------------------------------------------------------------
(* The metadata store: pages of a query. *)

\* The rounds of All, of Query and of a client's pages.
AllRun(f) ==
    /\ f = [h \in 0..TopHeight |-> f[h]] /\ f[0] = <<>>
    /\ \A h \in 1..TopHeight :
         f[h] = IF h \in DOMAIN byHeight THEN Append(f[h-1], byHeight[h]) ELSE f[h-1]

Skips(m, from, to, limit, out) ==
    \/ from > 0 /\ m.Height < from
    \/ to > 0 /\ m.Height > to
    \/ limit > 0 /\ Len(out) >= limit

QueryRun(f, all, from, to, limit) ==
    /\ f = [i \in 0..Len(all) |-> f[i]] /\ f[0] = <<>>
    /\ \A i \in 1..Len(all) :
         f[i] = IF Skips(all[i], from, to, limit, f[i-1]) THEN f[i-1]
                ELSE Append(f[i-1], all[i])

NextFrom(s) == IF s = <<>> THEN 0 ELSE s[Len(s)].Height + 1

PageRun(f, limit) ==
    /\ f = [n \in 0..TopHeight |-> f[n]] /\ f[0] = <<>>
    /\ \A n \in 1..TopHeight : f[n] = f[n-1] \o Query(NextFrom(f[n-1]), 0, limit)

\* All returns what its rounds come to.
LEMMA AllRuns ==
    ASSUME MetaInv
    PROVE  \E f : AllRun(f) /\ AllMeta = f[TopHeight]
<1> DEFINE n == TopHeight
           S == Seq(Metas)
           g == [i \in 1..n |-> [s \in S |->
                   IF i \in DOMAIN byHeight THEN Append(s, byHeight[i]) ELSE s]]
           F(f) == [h \in 0..n |->
                      IF h = 0 THEN <<>>
                      ELSE IF h \in DOMAIN byHeight THEN Append(f[h-1], byHeight[h])
                      ELSE f[h-1]]
           f1 == CHOOSE f : f = F(f)
<1>1. n \in Nat /\ \A i \in DOMAIN byHeight : byHeight[i] \in Metas
  BY KnownAssumption DEF MetaInv
<1>2. ASSUME NEW i \in 1..n PROVE g[i] \in [S -> S]
  <2>1. \A s \in S : i \in DOMAIN byHeight => Append(s, byHeight[i]) \in S
    BY <1>1
  <2>2. [s \in S |-> IF i \in DOMAIN byHeight THEN Append(s, byHeight[i]) ELSE s] \in [S -> S]
    BY <2>1
  <2> QED
    BY <2>2
<1>3. g \in [1..n -> [S -> S]]
  BY <1>2
<1>4. <<>> \in S
  OBVIOUS
<1>5. PICK f : Rounds(f, n, <<>>, g) /\ \A i \in 0..n : f[i] \in S
  <2> HIDE DEF n, g, S
  <2> QED
    BY <1>1, <1>3, <1>4, RoundsExist
<1>6. f = F(f)
  <2>1. f = [i \in 0..n |-> f[i]] /\ f[0] = <<>> /\ \A i \in 1..n : f[i] = g[i][f[i-1]]
    BY <1>5 DEF Rounds
  <2>2. ASSUME NEW i \in 0..n
        PROVE  f[i] = IF i = 0 THEN <<>>
                      ELSE IF i \in DOMAIN byHeight THEN Append(f[i-1], byHeight[i])
                      ELSE f[i-1]
    <3>1. CASE i = 0
      BY <2>1, <3>1
    <3>2. CASE i # 0
      <4>1. i \in 1..n /\ i - 1 \in 0..n
        BY <1>1, <3>2
      <4>2. f[i-1] \in S /\ f[i] = g[i][f[i-1]]
        BY <1>5, <2>1, <4>1
      <4> HIDE DEF S
      <4>3. f[i] = IF i \in DOMAIN byHeight THEN Append(f[i-1], byHeight[i]) ELSE f[i-1]
        BY <4>1, <4>2
      <4> QED
        BY <3>2, <4>3
    <3> QED
      BY <3>1, <3>2
  <2> QED
    BY <2>1, <2>2
<1>7. f1 = F(f1)
  <2> HIDE DEF F
  <2> QED
    BY <1>6
<1>8. AllMeta = f1[n]
  BY DEF AllMeta
<1>9. AllRun(f1)
  <2> HIDE DEF f1
  <2>1. f1 = [i \in 0..n |-> f1[i]]
    BY <1>7
  <2>2. f1[0] = <<>>
    BY <1>7, <1>1
  <2>3. ASSUME NEW i \in 1..n
        PROVE  f1[i] = IF i \in DOMAIN byHeight THEN Append(f1[i-1], byHeight[i]) ELSE f1[i-1]
    <3>1. i \in 0..n /\ i # 0
      BY <1>1
    <3> QED
      BY <1>7, <3>1
  <2> QED
    BY <2>1, <2>2, <2>3 DEF AllRun
<1> QED
  BY <1>8, <1>9

\* all is what All may return: at most TopHeight records, the heights rising.
Sorted(all) ==
    /\ all \in Seq(Metas) /\ Len(all) <= TopHeight
    /\ \A i \in 1..Len(all) : all[i].Height \in Nat \ {0}
    /\ \A i, j \in 1..Len(all) : i < j => all[i].Height < all[j].Height

\* And it is what All returns.
LEMMA AllIsSorted ==
    ASSUME MetaInv
    PROVE  Sorted(AllMeta)
<1>1. PICK f : AllRun(f) /\ AllMeta = f[TopHeight]
  BY AllRuns
<1>0. TopHeight \in Nat
  BY KnownAssumption
<1> DEFINE Up(s, h) == /\ s \in Seq(Metas) /\ Len(s) <= h
                       /\ \A i \in 1..Len(s) : s[i].Height \in 1..h
                       /\ \A i, j \in 1..Len(s) : i < j => s[i].Height < s[j].Height
           W == {h \in 0..TopHeight : Up(f[h], h)}
<1>2. 0 \in W
  <2>1. f[0] = <<>>
    BY <1>1 DEF AllRun
  <2>2. Up(<<>>, 0) /\ 0 \in 0..TopHeight
    BY <1>0
  <2> QED
    BY <2>1, <2>2
<1>3. ASSUME NEW h \in 1..TopHeight, h - 1 \in W PROVE h \in W
  <2>1. PICK s : s = f[h-1]
    OBVIOUS
  <2>2. Up(s, h - 1) /\ h \in 0..TopHeight /\ h - 1 \in Nat /\ h \in Nat
    BY <1>0, <1>3, <2>1
  <2>3. f[h] = IF h \in DOMAIN byHeight THEN Append(s, byHeight[h]) ELSE s
    BY <1>1, <2>1 DEF AllRun
  <2>4. Len(s) \in Nat
    BY <2>2
  <2>5. CASE h \in DOMAIN byHeight
    <3>1. PICK e \in Metas : e = byHeight[h] /\ e.Height = h
      BY <2>5 DEF MetaInv
    <3>2. PICK r : r = Append(s, e)
      OBVIOUS
    <3>3. r \in Seq(Metas) /\ Len(r) = Len(s) + 1 /\ r[Len(s) + 1] = e
          /\ \A i \in 1..Len(s) : r[i] = s[i]
      BY <2>2, <3>2, Appended
    <3>4. Len(r) <= h
      BY <2>2, <2>4, <3>3
    <3>5. \A i \in 1..Len(r) : i \in 1..Len(s) \/ i = Len(s) + 1
      BY <2>4, <3>3
    <3>6. \A i \in 1..Len(s) : r[i].Height = s[i].Height /\ s[i].Height \in 1..(h-1)
      BY <2>2, <3>3
    <3>7. \A i \in 1..Len(r) : r[i].Height \in 1..h
      BY <2>2, <3>1, <3>3, <3>5, <3>6
    <3>8. ASSUME NEW i \in 1..Len(r), NEW j \in 1..Len(r), i < j
          PROVE  r[i].Height < r[j].Height
      <4>1. i \in 1..Len(s)
        BY <2>4, <3>3, <3>8
      <4>2. CASE j \in 1..Len(s)
        <5>1. s[i].Height < s[j].Height
          BY <2>2, <3>8, <4>1, <4>2
        <5> QED
          BY <3>6, <4>1, <4>2, <5>1
      <4>3. CASE j = Len(s) + 1
        BY <2>2, <3>1, <3>3, <3>6, <4>1, <4>3
      <4> QED
        BY <3>5, <4>2, <4>3
    <3>9. Up(r, h)
      BY <3>3, <3>4, <3>7, <3>8
    <3> QED
      BY <2>2, <2>3, <2>5, <3>1, <3>2, <3>9
  <2>6. CASE h \notin DOMAIN byHeight
    <3>1. Up(s, h)
      <4>1. 1..(h-1) \subseteq 1..h /\ Len(s) <= h
        BY <2>2, <2>4
      <4> QED
        BY <2>2, <4>1
    <3> HIDE DEF Up
    <3> QED
      BY <2>2, <2>3, <2>6, <3>1
  <2> QED
    BY <2>5, <2>6
<1>4. TopHeight \in W
  <2> HIDE DEF W
  <2>1. \A h \in 0..TopHeight : h \in W
    BY <1>0, <1>2, <1>3, UpTo
  <2> QED
    BY <1>0, <2>1
<1>5. 1..TopHeight \subseteq Nat \ {0}
  BY <1>0
<1> QED
  BY <1>1, <1>4, <1>5 DEF Sorted

\* Query returns what its rounds come to, a sequence of records.
LEMMA QueryRuns ==
    ASSUME NEW all \in Seq(Metas), all = AllMeta, NEW from, NEW to, NEW limit
    PROVE  \E f : /\ QueryRun(f, all, from, to, limit)
                  /\ Query(from, to, limit) = f[Len(all)]
                  /\ f[Len(all)] \in Seq(Metas)
<1> DEFINE n == Len(all)
           S == Seq(Metas)
           g == [i \in 1..n |-> [s \in S |->
                   IF Skips(all[i], from, to, limit, s) THEN s ELSE Append(s, all[i])]]
           F(f) == [i \in 0..n |->
                      IF i = 0 THEN <<>>
                      ELSE IF Skips(all[i], from, to, limit, f[i-1]) THEN f[i-1]
                      ELSE Append(f[i-1], all[i])]
           f1 == CHOOSE f : f = F(f)
<1>1. n \in Nat /\ \A i \in 1..n : all[i] \in Metas
  OBVIOUS
<1>2. ASSUME NEW i \in 1..n PROVE g[i] \in [S -> S]
  <2>1. \A s \in S : Append(s, all[i]) \in S
    BY <1>1
  <2>2. [s \in S |-> IF Skips(all[i], from, to, limit, s) THEN s ELSE Append(s, all[i])]
          \in [S -> S]
    BY <2>1
  <2> QED
    BY <2>2
<1>3. g \in [1..n -> [S -> S]]
  BY <1>2
<1>4. <<>> \in S
  OBVIOUS
<1>5. PICK f : Rounds(f, n, <<>>, g) /\ \A i \in 0..n : f[i] \in S
  <2> HIDE DEF n, g, S
  <2> QED
    BY <1>1, <1>3, <1>4, RoundsExist
<1>6. f = F(f)
  <2>1. f = [i \in 0..n |-> f[i]] /\ f[0] = <<>> /\ \A i \in 1..n : f[i] = g[i][f[i-1]]
    BY <1>5 DEF Rounds
  <2>2. ASSUME NEW i \in 0..n
        PROVE  f[i] = IF i = 0 THEN <<>>
                      ELSE IF Skips(all[i], from, to, limit, f[i-1]) THEN f[i-1]
                      ELSE Append(f[i-1], all[i])
    <3>1. CASE i = 0
      BY <2>1, <3>1
    <3>2. CASE i # 0
      <4>1. i \in 1..n /\ i - 1 \in 0..n
        BY <1>1, <3>2
      <4>2. f[i-1] \in S /\ f[i] = g[i][f[i-1]]
        BY <1>5, <2>1, <4>1
      <4> HIDE DEF S
      <4>3. f[i] = IF Skips(all[i], from, to, limit, f[i-1]) THEN f[i-1]
                   ELSE Append(f[i-1], all[i])
        BY <4>1, <4>2
      <4> QED
        BY <3>2, <4>3
    <3> QED
      BY <3>1, <3>2
  <2> QED
    BY <2>1, <2>2
<1>7. f1 = F(f1)
  <2> HIDE DEF F
  <2> QED
    BY <1>6
<1>8. Query(from, to, limit) = f1[n]
  BY DEF Query, Skips
<1> HIDE DEF f1
<1>9. QueryRun(f1, all, from, to, limit)
  <2>1. f1 = [i \in 0..n |-> f1[i]]
    BY <1>7
  <2>2. f1[0] = <<>>
    BY <1>7, <1>1
  <2>3. ASSUME NEW i \in 1..n
        PROVE  f1[i] = IF Skips(all[i], from, to, limit, f1[i-1]) THEN f1[i-1]
                       ELSE Append(f1[i-1], all[i])
    <3>1. i \in 0..n /\ i # 0
      BY <1>1
    <3> QED
      BY <1>7, <3>1
  <2> QED
    BY <2>1, <2>2, <2>3 DEF QueryRun
<1>10. f1[n] \in S
  <2> DEFINE W == {i \in 0..n : f1[i] \in S}
  <2>1. 0 \in W
    <3>1. f1[0] = <<>> /\ 0 \in 0..n
      BY <1>1, <1>9 DEF QueryRun
    <3> QED
      BY <1>4, <3>1
  <2>2. ASSUME NEW i \in 1..n, i - 1 \in W PROVE i \in W
    <3>1. i \in 0..n /\ f1[i-1] \in S /\ all[i] \in Metas
      BY <1>1, <2>2
    <3>2. f1[i] = f1[i-1] \/ f1[i] = Append(f1[i-1], all[i])
      BY <1>9 DEF QueryRun
    <3>3. Append(f1[i-1], all[i]) \in S
      BY <3>1, Appended
    <3>4. f1[i] \in S
      <4> HIDE DEF S
      <4> QED
        BY <3>1, <3>2, <3>3
    <3> QED
      BY <3>1, <3>4
  <2> HIDE DEF W
  <2>3. \A i \in 0..n : i \in W
    BY <1>1, <2>1, <2>2, UpTo
  <2> QED
    BY <1>1, <2>3 DEF W
<1> QED
  BY <1>8, <1>9, <1>10

\* A page is the next limit records, or what there is of them.
LEMMA PageIsNext ==
    ASSUME NEW all, all = AllMeta, Sorted(all), NEW c \in 0..Len(all),
           NEW from, from = IF c = 0 THEN 0 ELSE all[c].Height + 1,
           NEW limit \in Nat \ {0}
    PROVE  Query(from, 0, limit) =
             SubSeq(all, c + 1, IF c + limit <= Len(all) THEN c + limit ELSE Len(all))
<1>0. /\ all \in Seq(Metas) /\ Len(all) \in Nat /\ c \in Nat
      /\ \A i \in 1..Len(all) : all[i].Height \in Nat \ {0}
      /\ \A i, j \in 1..Len(all) : i < j => all[i].Height < all[j].Height
  BY DEF Sorted
<1>1. PICK f : QueryRun(f, all, from, 0, limit) /\ Query(from, 0, limit) = f[Len(all)]
  BY <1>0, QueryRuns
<1> DEFINE n == Len(all)
           Stop(i) == IF i <= c + limit THEN i ELSE c + limit
           W == {i \in 0..n : f[i] = SubSeq(all, c + 1, Stop(i))}
<1>2. 0 \in W
  <2>1. f[0] = <<>> /\ Stop(0) = 0 /\ SubSeq(all, c + 1, 0) = <<>> /\ 0 \in 0..n
    BY <1>0, <1>1 DEF QueryRun
  <2> QED
    BY <2>1
<1>3. ASSUME NEW i \in 1..n, i - 1 \in W PROVE i \in W
  <2>0. i \in 0..n /\ i \in Nat /\ i - 1 \in Nat /\ i <= n
    BY <1>0
  <2>1. f[i-1] = SubSeq(all, c + 1, Stop(i-1))
    BY <1>3
  <2>2. f[i] = IF Skips(all[i], from, 0, limit, f[i-1]) THEN f[i-1]
               ELSE Append(f[i-1], all[i])
    BY <1>1 DEF QueryRun
  <2>3. CASE i <= c
    <3>1. all[i].Height \in Nat /\ all[c].Height \in Nat /\ all[i].Height <= all[c].Height
      <4>1. c \in 1..n
        BY <1>0, <2>0, <2>3
      <4>2. CASE i = c
        BY <1>0, <4>1, <4>2
      <4>3. CASE i # c
        <5>1. i < c
          BY <1>0, <2>0, <2>3, <4>3
        <5>2. all[i].Height < all[c].Height /\ all[i].Height \in Nat /\ all[c].Height \in Nat
          BY <1>0, <4>1, <5>1
        <5> QED
          BY <5>2
      <4> QED
        BY <4>2, <4>3
    <3>2. from > 0 /\ all[i].Height < from
      BY <1>0, <2>0, <2>3, <3>1
    <3>3. f[i] = f[i-1]
      BY <2>2, <3>2 DEF Skips
    <3>4. Stop(i) = i /\ Stop(i-1) = i - 1
      BY <1>0, <2>0, <2>3
    <3>5. SubSeq(all, c + 1, i - 1) = <<>> /\ SubSeq(all, c + 1, i) = <<>>
      BY <1>0, <2>0, <2>3
    <3> QED
      BY <2>0, <2>1, <3>3, <3>4, <3>5
  <2>4. CASE i > c
    <3>1. all[i].Height \in Nat /\ ~(from > 0 /\ all[i].Height < from)
      <4>1. CASE c = 0
        BY <1>0, <4>1
      <4>2. CASE c # 0
        <5>1. c \in 1..n
          BY <1>0, <4>2
        <5>2. all[c].Height < all[i].Height /\ all[c].Height \in Nat /\ all[i].Height \in Nat
          BY <1>0, <2>0, <2>4, <5>1
        <5> QED
          BY <4>2, <5>2
      <4> QED
        BY <4>1, <4>2
    <3>2. Skips(all[i], from, 0, limit, f[i-1]) <=> Len(f[i-1]) >= limit
      BY <3>1 DEF Skips
    <3>3. CASE i <= c + limit
      <4>1. Stop(i) = i /\ Stop(i-1) = i - 1
        BY <1>0, <2>0, <3>3
      <4>2. Len(f[i-1]) = i - 1 - c
        BY <1>0, <2>0, <2>1, <2>4, <4>1
      <4>3. ~(Len(f[i-1]) >= limit)
        BY <1>0, <2>0, <3>3, <4>2
      <4>4. f[i] = Append(SubSeq(all, c + 1, i - 1), all[i])
        BY <2>1, <2>2, <3>2, <4>1, <4>3
      <4>5. c + 1 \in 1..(n + 1) /\ i \in (c+1)..n
        BY <1>0, <2>0, <2>4
      <4>6. SubSeq(all, c + 1, i) = Append(SubSeq(all, c + 1, i - 1), all[i])
        BY <1>0, <4>5, OneFurther
      <4> QED
        BY <2>0, <4>1, <4>4, <4>6
    <3>4. CASE ~(i <= c + limit)
      <4>1. Stop(i) = c + limit /\ Stop(i-1) = c + limit
        BY <1>0, <2>0, <3>4
      <4>2. Len(f[i-1]) = limit
        BY <1>0, <2>0, <2>1, <3>4, <4>1
      <4>3. f[i] = f[i-1]
        BY <2>2, <3>2, <4>2
      <4> QED
        BY <2>0, <2>1, <4>1, <4>3
    <3> QED
      BY <3>3, <3>4
  <2> QED
    BY <1>0, <2>0, <2>3, <2>4
<1>4. n \in W
  <2> HIDE DEF W
  <2>1. \A i \in 0..n : i \in W
    BY <1>0, <1>2, <1>3, UpTo
  <2> QED
    BY <1>0, <2>1
<1>5. Stop(n) = IF c + limit <= n THEN c + limit ELSE n
  BY <1>0
<1>6. f[n] = SubSeq(all, c + 1, Stop(n))
  BY <1>4
<1> HIDE DEF Stop
<1> QED
  BY <1>1, <1>5, <1>6

\* A client's pages are what its rounds come to.
LEMMA PageRuns ==
    ASSUME NEW all \in Seq(Metas), all = AllMeta, NEW limit
    PROVE  \E f : PageRun(f, limit) /\ Paged(limit) = f[TopHeight]
<1> DEFINE n == TopHeight
           S == Seq(Metas)
           g == [i \in 1..n |-> [s \in S |-> s \o Query(NextFrom(s), 0, limit)]]
           F(f) == [i \in 0..n |->
                      IF i = 0 THEN <<>>
                      ELSE f[i-1] \o Query(NextFrom(f[i-1]), 0, limit)]
           f1 == CHOOSE f : f = F(f)
<1>1. n \in Nat
  BY KnownAssumption
<1>2. ASSUME NEW s \in S PROVE s \o Query(NextFrom(s), 0, limit) \in S
  <2>1. PICK from : from = NextFrom(s)
    OBVIOUS
  <2>2. PICK q : q = Query(from, 0, limit)
    OBVIOUS
  <2>3. q \in Seq(Metas)
    BY <2>2, QueryRuns
  <2>4. s \o q \in S
    BY <2>3
  <2> QED
    BY <2>1, <2>2, <2>4
<1>3. g \in [1..n -> [S -> S]]
  <2>1. [s \in S |-> s \o Query(NextFrom(s), 0, limit)] \in [S -> S]
    <3> HIDE DEF S
    <3> QED
      BY <1>2
  <2> HIDE DEF S
  <2> QED
    BY <2>1
<1>4. <<>> \in S
  OBVIOUS
<1>5. PICK f : Rounds(f, n, <<>>, g) /\ \A i \in 0..n : f[i] \in S
  <2> HIDE DEF n, g, S
  <2> QED
    BY <1>1, <1>3, <1>4, RoundsExist
<1>6. f = F(f)
  <2>1. f = [i \in 0..n |-> f[i]] /\ f[0] = <<>> /\ \A i \in 1..n : f[i] = g[i][f[i-1]]
    BY <1>5 DEF Rounds
  <2>2. ASSUME NEW i \in 0..n
        PROVE  f[i] = IF i = 0 THEN <<>> ELSE f[i-1] \o Query(NextFrom(f[i-1]), 0, limit)
    <3>1. CASE i = 0
      BY <2>1, <3>1
    <3>2. CASE i # 0
      <4>1. i \in 1..n /\ i - 1 \in 0..n
        BY <1>1, <3>2
      <4>2. f[i-1] \in S /\ f[i] = g[i][f[i-1]]
        BY <1>5, <2>1, <4>1
      <4> HIDE DEF S
      <4>3. f[i] = f[i-1] \o Query(NextFrom(f[i-1]), 0, limit)
        BY <4>1, <4>2
      <4> QED
        BY <3>2, <4>3
    <3> QED
      BY <3>1, <3>2
  <2> QED
    BY <2>1, <2>2
<1>7. f1 = F(f1)
  <2> HIDE DEF F
  <2> QED
    BY <1>6
<1>8. Paged(limit) = f1[n]
  BY DEF Paged, NextFrom
<1> HIDE DEF f1
<1>9. PageRun(f1, limit)
  <2>1. f1 = [i \in 0..n |-> f1[i]]
    BY <1>7
  <2>2. f1[0] = <<>>
    BY <1>7, <1>1
  <2>3. ASSUME NEW i \in 1..n
        PROVE  f1[i] = f1[i-1] \o Query(NextFrom(f1[i-1]), 0, limit)
    <3>1. i \in 0..n /\ i # 0
      BY <1>1
    <3> QED
      BY <1>7, <3>1
  <2> QED
    BY <2>1, <2>2, <2>3 DEF PageRun
<1> QED
  BY <1>8, <1>9

\* The first c elements and those from c + 1 to e are the first e.
LEMMA TwoParts ==
    ASSUME NEW T, NEW s \in Seq(T), NEW c \in Nat, NEW e \in Nat, c <= e, e <= Len(s)
    PROVE  SubSeq(s, 1, c) \o SubSeq(s, c + 1, e) = SubSeq(s, 1, e)
<1>0. Len(s) \in Nat
  OBVIOUS
<1>1. PICK x : x = SubSeq(s, 1, c)
  OBVIOUS
<1>2. PICK y : y = SubSeq(s, c + 1, e)
  OBVIOUS
<1>3. PICK z : z = SubSeq(s, 1, e)
  OBVIOUS
<1>4. x \in Seq(T) /\ Len(x) = c /\ \A i \in 1..c : x[i] = s[i]
  BY <1>0, <1>1
<1>5. y \in Seq(T) /\ Len(y) = e - c /\ \A i \in 1..(e - c) : y[i] = s[c + i]
  BY <1>0, <1>2
<1>6. z \in Seq(T) /\ Len(z) = e /\ \A i \in 1..e : z[i] = s[i]
  BY <1>0, <1>3
<1>7. PICK r : r = x \o y
  OBVIOUS
<1>8. r \in Seq(T) /\ Len(r) = e
  <2>1. x \in Seq(T) /\ y \in Seq(T)
    BY <1>4, <1>5
  <2>2. r \in Seq(T) /\ Len(r) = Len(x) + Len(y)
    BY <1>7, <2>1, ConcatProperties
  <2>3. c + (e - c) = e
    OBVIOUS
  <2> QED
    BY <1>4, <1>5, <2>2, <2>3
<1>9. \A i \in 1..e : r[i] = IF i <= c THEN x[i] ELSE y[i - c]
  BY <1>4, <1>5, <1>7, SMTT(40)
<1>10. \A i \in 1..e : r[i] = z[i]
  <2>1. TAKE i \in 1..e
  <2>2. CASE i <= c
    BY <1>4, <1>6, <1>9, <2>2
  <2>3. CASE ~(i <= c)
    <3>1. i - c \in 1..(e - c) /\ c + (i - c) = i
      BY <2>3
    <3>2. y[i - c] = s[i]
      BY <1>5, <3>1
    <3> QED
      BY <1>6, <1>9, <2>3, <3>2
  <2> QED
    BY <2>2, <2>3
<1>11. r = z
  BY <1>6, <1>8, <1>10, SeqEqual
<1> QED
  BY <1>1, <1>2, <1>3, <1>7, <1>11

\* Page by page a client sees all the records.
LEMMA MetaPages ==
    ASSUME MetaInv
    PROVE  PagesSeeAll
<1> SUFFICES ASSUME NEW limit \in 1..TopHeight PROVE Paged(limit) = AllMeta
  BY DEF PagesSeeAll
<1>1. PICK all : all = AllMeta
  OBVIOUS
<1>2. Sorted(all) /\ all \in Seq(Metas) /\ Len(all) \in Nat /\ Len(all) <= TopHeight
  BY <1>1, AllIsSorted DEF Sorted
<1>3. TopHeight \in Nat /\ limit \in Nat \ {0}
  BY KnownAssumption
<1>4. PICK f : PageRun(f, limit) /\ Paged(limit) = f[TopHeight]
  BY <1>1, <1>2, PageRuns
<1> DEFINE Seen(n, c) == f[n] = SubSeq(all, 1, c) /\ (c = Len(all) \/ c >= n)
           W == {n \in 0..TopHeight : \E c \in 0..Len(all) : Seen(n, c)}
<1>5. 0 \in W
  <2>1. f[0] = <<>> /\ SubSeq(all, 1, 0) = <<>> /\ 0 \in 0..TopHeight /\ 0 \in 0..Len(all)
    BY <1>2, <1>3, <1>4 DEF PageRun
  <2>2. Seen(0, 0)
    BY <2>1
  <2> HIDE DEF Seen
  <2> QED
    BY <2>1, <2>2
<1>6. ASSUME NEW n \in 1..TopHeight, n - 1 \in W PROVE n \in W
  <2>1. PICK c \in 0..Len(all) : Seen(n - 1, c)
    BY <1>6
  <2>2. n \in 0..TopHeight /\ n \in Nat /\ c \in Nat /\ c <= Len(all)
    BY <1>2, <1>3
  <2>3. PICK s : s = f[n-1]
    OBVIOUS
  <2>4. s = SubSeq(all, 1, c)
    BY <2>1, <2>3
  <2>5. f[n] = s \o Query(NextFrom(s), 0, limit)
    BY <1>4, <2>3 DEF PageRun
  <2>6. NextFrom(s) = IF c = 0 THEN 0 ELSE all[c].Height + 1
    <3>1. CASE c = 0
      <4>1. s = <<>>
        BY <1>2, <2>4, <3>1
      <4> QED
        BY <3>1, <4>1 DEF NextFrom
    <3>2. CASE c # 0
      <4>1. Len(s) = c /\ s[c] = all[c]
        BY <1>2, <2>2, <2>4, <3>2
      <4>2. s # <<>>
        BY <3>2, <4>1
      <4> QED
        BY <3>2, <4>1, <4>2 DEF NextFrom
    <3> QED
      BY <3>1, <3>2
  <2>7. PICK from : from = NextFrom(s)
    OBVIOUS
  <2>8. PICK e : e = IF c + limit <= Len(all) THEN c + limit ELSE Len(all)
    OBVIOUS
  <2>9. Query(from, 0, limit) = SubSeq(all, c + 1, e)
    <3>1. from = IF c = 0 THEN 0 ELSE all[c].Height + 1
      BY <2>6, <2>7
    <3> QED
      BY <1>1, <1>2, <1>3, <2>8, <3>1, PageIsNext
  <2>10. e \in Nat /\ c <= e /\ e <= Len(all) /\ (e = Len(all) \/ e = c + limit)
    BY <1>2, <1>3, <2>2, <2>8
  <2>11. f[n] = SubSeq(all, 1, e)
    <3>1. SubSeq(all, 1, c) \o SubSeq(all, c + 1, e) = SubSeq(all, 1, e)
      BY <1>2, <2>2, <2>10, TwoParts
    <3> QED
      BY <2>4, <2>5, <2>7, <2>9, <3>1
  <2>12. e = Len(all) \/ e >= n
    BY <1>2, <1>3, <2>1, <2>2, <2>8, <2>10
  <2>13. Seen(n, e) /\ e \in 0..Len(all)
    BY <1>2, <2>10, <2>11, <2>12
  <2> HIDE DEF Seen
  <2> QED
    BY <2>2, <2>13
<1>7. TopHeight \in W
  <2> HIDE DEF W
  <2>1. \A n \in 0..TopHeight : n \in W
    BY <1>3, <1>5, <1>6, UpTo
  <2> QED
    BY <1>3, <2>1
<1>8. PICK c \in 0..Len(all) : Seen(TopHeight, c)
  BY <1>7
<1>9. c = Len(all)
  BY <1>2, <1>3, <1>8
<1>10. f[TopHeight] = all
  BY <1>2, <1>8, <1>9
<1> QED
  BY <1>1, <1>4, <1>10

\* After any additions, puts and roll-backs, in any order, what the index and
\* the metadata store know of the blocks agrees however they are asked, and
\* pages of any size lose and repeat nothing (index.go:23-36, 63-87, 106-168).
THEOREM LookupsSafe == LookupSpec => []LookupsAgree
<1>1. LookupInit => IndexInv /\ MetaInv
  BY IndexInitInv, MetaInitInv
<1>2. IndexInv /\ MetaInv /\ [IndexNext \/ MetaNext]_LookupVars => (IndexInv /\ MetaInv)'
  <2> SUFFICES ASSUME IndexInv, MetaInv, [IndexNext \/ MetaNext]_LookupVars
               PROVE  IndexInv' /\ MetaInv'
    OBVIOUS
  <2>1. CASE IndexNext
    <3>1. MetaInv'
      BY <2>1 DEF IndexNext, MetaVars, MetaInv, MetaAgrees
    <3>2. IndexInv'
      BY <2>1, IndexAddInv, RemoveAboveInv DEF IndexNext
    <3> QED
      BY <3>1, <3>2
  <2>2. CASE MetaNext
    <3>1. IndexInv'
      BY <2>2 DEF MetaNext, IndexVars, IndexInv, IndexAgrees
    <3>2. ASSUME NEW b \in Known, MetaPut([Height |-> b.Height, Hash |-> b.Hash])
          PROVE MetaInv'
      <4>1. PICK m : m = [Height |-> b.Height, Hash |-> b.Hash]
        OBVIOUS
      <4>2. m \in Metas
        BY <4>1 DEF Metas
      <4> QED
        BY <3>2, <4>1, <4>2, MetaPutInv
    <3>3. MetaInv'
      BY <2>2, <3>2, MetaDeleteInv, MetaClearInv DEF MetaNext
    <3> QED
      BY <3>1, <3>3
  <2>3. CASE UNCHANGED LookupVars
    <3>1. IndexInv'
      BY <2>3 DEF LookupVars, IndexInv, IndexAgrees
    <3>2. MetaInv'
      BY <2>3 DEF LookupVars, MetaInv, MetaAgrees
    <3> QED
      BY <3>1, <3>2
  <2> QED
    BY <2>1, <2>2, <2>3
<1>3. IndexInv /\ MetaInv => LookupsAgree
  <2> SUFFICES ASSUME IndexInv, MetaInv PROVE LookupsAgree
    OBVIOUS
  <2> QED
    BY MetaPages DEF LookupsAgree, IndexInv, MetaInv
<1> QED
  BY <1>1, <1>2, <1>3, PTL DEF LookupSpec
-----------------------------------------------------------------------------
(* The catalog: strings that end in NUL can be told apart. *)

\* r is a, then s, then NUL.
Joins(r, a, s) ==
    /\ r \in Seq(Nat) /\ Len(r) = Len(a) + Len(s) + 1
    /\ r[Len(a) + Len(s) + 1] = NUL
    /\ \A i \in 1..Len(a) : r[i] = a[i]
    /\ \A i \in 1..Len(s) : r[Len(a) + i] = s[i]

\* What h has been given after a string and its NUL.
LEMMA StringWritten ==
    ASSUME NEW a \in Seq(Nat), NEW s \in Seq(Nat)
    PROVE  Joins(WriteString(a, s), a, s)
<1>1. PICK x : x = a \o s
  OBVIOUS
<1>2. PICK r : r = Append(x, NUL)
  OBVIOUS
<1>3. x \in Seq(Nat) /\ Len(x) = Len(a) + Len(s)
      /\ \A i \in 1..(Len(a) + Len(s)) : x[i] = IF i <= Len(a) THEN a[i] ELSE s[i - Len(a)]
  BY <1>1, ConcatProperties
<1>4. NUL \in Nat /\ Len(a) \in Nat /\ Len(s) \in Nat
  BY DEF NUL
<1>5. r \in Seq(Nat) /\ Len(r) = Len(x) + 1 /\ r[Len(x) + 1] = NUL
      /\ \A i \in 1..Len(x) : r[i] = x[i]
  <2>1. PICK e \in Nat : e = NUL
    BY <1>4
  <2>2. x \in Seq(Nat) /\ r = Append(x, e)
    BY <1>2, <1>3, <2>1
  <2>3. r \in Seq(Nat) /\ Len(r) = Len(x) + 1 /\ r[Len(x) + 1] = e
        /\ \A i \in 1..Len(x) : r[i] = x[i]
    BY <2>2, Appended
  <2> QED
    BY <2>1, <2>3
<1>6. ASSUME NEW i \in 1..Len(a) PROVE r[i] = a[i]
  <2>1. i \in 1..(Len(a) + Len(s)) /\ i <= Len(a)
    BY <1>4
  <2> QED
    BY <1>3, <1>5, <2>1
<1>7. ASSUME NEW i \in 1..Len(s) PROVE r[Len(a) + i] = s[i]
  <2>1. Len(a) + i \in 1..(Len(a) + Len(s)) /\ ~(Len(a) + i <= Len(a))
        /\ (Len(a) + i) - Len(a) = i
    BY <1>4
  <2> QED
    BY <1>3, <1>5, <2>1
<1> QED
  BY <1>1, <1>2, <1>3, <1>5, <1>6, <1>7 DEF WriteString, Joins

\* Nothing was written, or a NUL was last.
Ended(a) == a \in Seq(Nat) /\ (a = <<>> \/ a[Len(a)] = NUL)

\* What comes before a last string without NULs is not the longer for another
\* such string: its last NUL would be in this one.
LEMMA NotLonger ==
    ASSUME NEW a \in Seq(Nat), NEW s \in Seq(Nat), NULFree(s),
           NEW b, Ended(b), NEW t \in Seq(Nat),
           WriteString(a, s) = WriteString(b, t)
    PROVE  Len(b) <= Len(a)
<1> SUFFICES ASSUME Len(b) > Len(a) PROVE FALSE
  BY DEF Ended
<1>1. PICK r : r = WriteString(a, s)
  OBVIOUS
<1>2. /\ Len(r) = Len(a) + Len(s) + 1
      /\ \A i \in 1..Len(s) : r[Len(a) + i] = s[i]
  BY <1>1, StringWritten, ZenonT(60) DEF Joins
<1>3. b \in Seq(Nat) /\ Len(b) \in Nat /\ Len(a) \in Nat /\ Len(s) \in Nat /\ Len(t) \in Nat
  BY DEF Ended
<1>4. /\ Len(r) = Len(b) + Len(t) + 1
      /\ \A i \in 1..Len(b) : r[i] = b[i]
  <2>1. r = WriteString(b, t)
    BY <1>1
  <2>2. Joins(r, b, t)
    BY <1>3, <2>1, StringWritten
  <2> QED
    BY <2>2 DEF Joins
<1>5. b[Len(b)] = NUL
  <2>1. b # <<>>
    BY <1>3
  <2> QED
    BY <2>1 DEF Ended
<1>6. r[Len(b)] = NUL
  <2>1. Len(b) \in 1..Len(b)
    BY <1>3
  <2> QED
    BY <1>4, <1>5, <2>1
<1>7. PICK i : i = Len(b) - Len(a)
  OBVIOUS
<1>8. i \in 1..Len(s) /\ Len(a) + i = Len(b)
  BY <1>2, <1>3, <1>4, <1>7
<1>9. s[i] = NUL
  BY <1>2, <1>6, <1>8
<1> QED
  BY <1>8, <1>9 DEF NULFree

\* So the last string can be read back, and what came before it.
LEMMA LastString ==
    ASSUME NEW a, Ended(a), NEW s \in Seq(Nat), NULFree(s),
           NEW b, Ended(b), NEW t \in Seq(Nat), NULFree(t),
           WriteString(a, s) = WriteString(b, t)
    PROVE  a = b /\ s = t
<1>1. a \in Seq(Nat) /\ b \in Seq(Nat)
  BY DEF Ended
<1>2. Len(a) \in Nat /\ Len(b) \in Nat /\ Len(s) \in Nat /\ Len(t) \in Nat
  BY <1>1
<1>3. Len(b) <= Len(a) /\ Len(a) <= Len(b)
  BY <1>1, NotLonger
<1>4. Len(a) = Len(b)
  BY <1>2, <1>3
<1>5. PICK r : r = WriteString(a, s) /\ r = WriteString(b, t)
  OBVIOUS
<1>6. /\ Len(r) = Len(a) + Len(s) + 1 /\ \A i \in 1..Len(a) : r[i] = a[i]
      /\ \A i \in 1..Len(s) : r[Len(a) + i] = s[i]
  <2>1. r = WriteString(a, s)
    BY <1>5
  <2>2. Joins(r, a, s)
    BY <1>1, <2>1, StringWritten
  <2> QED
    BY <2>2 DEF Joins
<1>7. /\ Len(r) = Len(b) + Len(t) + 1 /\ \A i \in 1..Len(b) : r[i] = b[i]
      /\ \A i \in 1..Len(t) : r[Len(b) + i] = t[i]
  <2>1. r = WriteString(b, t)
    BY <1>5
  <2>2. Joins(r, b, t)
    BY <1>1, <2>1, StringWritten
  <2> QED
    BY <2>2 DEF Joins
<1>8. a = b
  <2>1. \A i \in 1..Len(a) : a[i] = b[i]
    BY <1>4, <1>6, <1>7
  <2> QED
    BY <1>1, <1>4, <2>1, SeqEqual
<1>9. s = t
  <2>1. Len(s) = Len(t)
    BY <1>2, <1>4, <1>6, <1>7
  <2>2. \A i \in 1..Len(s) : s[i] = t[i]
    BY <1>4, <1>6, <1>7, <2>1
  <2> QED
    BY <2>1, <2>2, SeqEqual
<1> QED
  BY <1>8, <1>9

\* A key and its value.
Pair(a, k, v) == WriteString(WriteString(a, k), v)

\* A pair leaves the bytes ended, and not empty.
LEMMA PairEnds ==
    ASSUME NEW a \in Seq(Nat), NEW k \in Seq(Nat), NEW v \in Seq(Nat)
    PROVE  /\ Ended(WriteString(a, k)) /\ WriteString(a, k) \in Seq(Nat)
           /\ Ended(Pair(a, k, v)) /\ Pair(a, k, v) \in Seq(Nat) /\ Pair(a, k, v) # <<>>
<1>1. ASSUME NEW x \in Seq(Nat), NEW y \in Seq(Nat)
      PROVE Ended(WriteString(x, y)) /\ WriteString(x, y) \in Seq(Nat) /\ WriteString(x, y) # <<>>
  <2>1. PICK r : r = WriteString(x, y)
    OBVIOUS
  <2>2. r \in Seq(Nat) /\ Len(r) = Len(x) + Len(y) + 1 /\ r[Len(x) + Len(y) + 1] = NUL
    BY <2>1, StringWritten DEF Joins
  <2>3. r # <<>>
    <3>1. Len(x) \in Nat /\ Len(y) \in Nat
      OBVIOUS
    <3>2. Len(r) # 0
      BY <2>2, <3>1
    <3> QED
      BY <3>2
  <2> QED
    BY <2>1, <2>2, <2>3 DEF Ended
<1>2. PICK w : w = WriteString(a, k)
  OBVIOUS
<1>3. Ended(w) /\ w \in Seq(Nat)
  BY <1>1, <1>2
<1> QED
  BY <1>1, <1>2, <1>3 DEF Pair

\* The last pair can be read back, and what came before it.
LEMMA LastPair ==
    ASSUME NEW a, Ended(a), NEW k \in Seq(Nat), NULFree(k), NEW v \in Seq(Nat), NULFree(v),
           NEW b, Ended(b), NEW l \in Seq(Nat), NULFree(l), NEW u \in Seq(Nat), NULFree(u),
           Pair(a, k, v) = Pair(b, l, u)
    PROVE  a = b /\ k = l /\ v = u
<1>1. PICK x, y : x = WriteString(a, k) /\ y = WriteString(b, l)
  OBVIOUS
<1>2. a \in Seq(Nat) /\ b \in Seq(Nat)
  BY DEF Ended
<1>3. Ended(x) /\ Ended(y)
  BY <1>1, <1>2, PairEnds
<1>4. WriteString(x, v) = WriteString(y, u)
  BY <1>1 DEF Pair
<1>5. x = y /\ v = u
  BY <1>3, <1>4, LastString
<1>6. WriteString(a, k) = WriteString(b, l)
  BY <1>1, <1>5
<1>7. a = b /\ k = l
  BY <1>6, LastString
<1> QED
  BY <1>5, <1>7
-----------------------------------------------------------------------------
(* The catalog: a checksum tells maps apart. *)

\* The maps a snapshot may have for entries.
KeySet == {EntryKeys[i] : i \in 1..Len(EntryKeys)}
EntryMaps == UNION {[K -> Seq(Nat)] : K \in SUBSET KeySet}

\* The rounds of checksum's loop over the keys.
ChecksumRun(f, d) ==
    /\ f = [i \in 0..Len(EntryKeys) |-> f[i]] /\ f[0] = <<>>
    /\ \A i \in 1..Len(EntryKeys) :
         f[i] = IF EntryKeys[i] \in DOMAIN d
                THEN Pair(f[i-1], EntryKeys[i], d[EntryKeys[i]]) ELSE f[i-1]

\* Keys and values of a map are strings.
LEMMA EntriesAreStrings ==
    /\ Len(EntryKeys) \in Nat
    /\ \A i \in 1..Len(EntryKeys) : EntryKeys[i] \in Seq(Nat)
    /\ \A d \in EntryMaps : \A i \in 1..Len(EntryKeys) :
         EntryKeys[i] \in DOMAIN d => d[EntryKeys[i]] \in Seq(Nat)
<1>1. EntryKeys \in Seq(Seq(Nat))
  BY CatalogAssumption
<1> QED
  BY <1>1 DEF EntryMaps

\* The checksum hashes what its rounds come to.
LEMMA ChecksumRuns ==
    ASSUME NEW d \in EntryMaps
    PROVE  \E f : ChecksumRun(f, d) /\ Checksum(d) = SHA256(f[Len(EntryKeys)])
<1> DEFINE n == Len(EntryKeys)
           S == Seq(Nat)
           g == [i \in 1..n |-> [s \in S |->
                   IF EntryKeys[i] \in DOMAIN d THEN Pair(s, EntryKeys[i], d[EntryKeys[i]]) ELSE s]]
           F(f) == [i \in 0..n |->
                      IF i = 0 THEN <<>>
                      ELSE IF EntryKeys[i] \in DOMAIN d
                           THEN Pair(f[i-1], EntryKeys[i], d[EntryKeys[i]])
                      ELSE f[i-1]]
           f1 == CHOOSE f : f = F(f)
<1>1. n \in Nat /\ \A i \in 1..n :
        EntryKeys[i] \in S /\ (EntryKeys[i] \in DOMAIN d => d[EntryKeys[i]] \in S)
  BY EntriesAreStrings
<1>2. ASSUME NEW i \in 1..n PROVE g[i] \in [S -> S]
  <2>1. ASSUME NEW s \in S, EntryKeys[i] \in DOMAIN d
        PROVE Pair(s, EntryKeys[i], d[EntryKeys[i]]) \in S
    <3>1. PICK k \in S, v \in S : k = EntryKeys[i] /\ v = d[EntryKeys[i]]
      BY <1>1, <2>1
    <3>2. Pair(s, k, v) \in S
      BY PairEnds
    <3> QED
      BY <3>1, <3>2
  <2>2. [s \in S |-> IF EntryKeys[i] \in DOMAIN d
                     THEN Pair(s, EntryKeys[i], d[EntryKeys[i]]) ELSE s] \in [S -> S]
    <3> HIDE DEF S
    <3> QED
      BY <2>1
  <2> QED
    BY <2>2
<1>3. g \in [1..n -> [S -> S]]
  BY <1>2
<1>4. <<>> \in S
  OBVIOUS
<1>5. PICK f : Rounds(f, n, <<>>, g) /\ \A i \in 0..n : f[i] \in S
  <2> HIDE DEF n, g, S
  <2> QED
    BY <1>1, <1>3, <1>4, RoundsExist
<1>6. f = F(f)
  <2>1. f = [i \in 0..n |-> f[i]] /\ f[0] = <<>> /\ \A i \in 1..n : f[i] = g[i][f[i-1]]
    BY <1>5 DEF Rounds
  <2>2. ASSUME NEW i \in 0..n
        PROVE  f[i] = IF i = 0 THEN <<>>
                      ELSE IF EntryKeys[i] \in DOMAIN d
                           THEN Pair(f[i-1], EntryKeys[i], d[EntryKeys[i]])
                      ELSE f[i-1]
    <3>1. CASE i = 0
      BY <2>1, <3>1
    <3>2. CASE i # 0
      <4>1. i \in 1..n /\ i - 1 \in 0..n
        BY <1>1, <3>2
      <4>2. f[i-1] \in S /\ f[i] = g[i][f[i-1]]
        BY <1>5, <2>1, <4>1
      <4> HIDE DEF S
      <4>3. f[i] = IF EntryKeys[i] \in DOMAIN d
                   THEN Pair(f[i-1], EntryKeys[i], d[EntryKeys[i]]) ELSE f[i-1]
        BY <4>1, <4>2
      <4> QED
        BY <3>2, <4>3
    <3> QED
      BY <3>1, <3>2
  <2> QED
    BY <2>1, <2>2
<1>7. f1 = F(f1)
  <2> HIDE DEF F
  <2> QED
    BY <1>6
<1>8. Checksum(d) = SHA256(f1[n])
  BY DEF Checksum, Pair
<1> HIDE DEF f1
<1>9. ChecksumRun(f1, d)
  <2>1. f1 = [i \in 0..n |-> f1[i]]
    BY <1>7
  <2>2. f1[0] = <<>>
    BY <1>7, <1>1
  <2>3. ASSUME NEW i \in 1..n
        PROVE  f1[i] = IF EntryKeys[i] \in DOMAIN d
                       THEN Pair(f1[i-1], EntryKeys[i], d[EntryKeys[i]]) ELSE f1[i-1]
    <3>1. i \in 0..n /\ i # 0
      BY <1>1
    <3> QED
      BY <1>7, <3>1
  <2> QED
    BY <2>1, <2>2, <2>3 DEF ChecksumRun
<1> QED
  BY <1>8, <1>9

\* s is nothing, or ends with the pair of one of the first i keys.
EndsWithPair(s, d, i) ==
    \/ s = <<>>
    \/ \E j \in 1..i : \E a :
         Ended(a) /\ EntryKeys[j] \in DOMAIN d /\ s = Pair(a, EntryKeys[j], d[EntryKeys[j]])

\* What the rounds have written is.
LEMMA RoundsEndWithPair ==
    ASSUME NEW d \in EntryMaps, NEW f, ChecksumRun(f, d)
    PROVE  \A i \in 0..Len(EntryKeys) : Ended(f[i]) /\ EndsWithPair(f[i], d, i)
<1> DEFINE n == Len(EntryKeys)
           W == {i \in 0..n : Ended(f[i]) /\ EndsWithPair(f[i], d, i)}
<1>0. n \in Nat
  BY EntriesAreStrings
<1>1. 0 \in W
  <2>1. f[0] = <<>> /\ 0 \in 0..n
    BY <1>0 DEF ChecksumRun
  <2>2. Ended(f[0])
    BY <2>1 DEF Ended
  <2>3. EndsWithPair(f[0], d, 0)
    BY <2>1 DEF EndsWithPair
  <2> QED
    BY <2>1, <2>2, <2>3
<1>2. ASSUME NEW i \in 1..n, i - 1 \in W PROVE i \in W
  <2>1. i \in 0..n /\ i - 1 \in Nat /\ i \in 1..i /\ 1..(i-1) \subseteq 1..i
    BY <1>0
  <2>2. Ended(f[i-1]) /\ EndsWithPair(f[i-1], d, i - 1)
    BY <1>2
  <2>3. CASE EntryKeys[i] \in DOMAIN d
    <3>1. PICK a : a = f[i-1]
      OBVIOUS
    <3>2. PICK k, v : k = EntryKeys[i] /\ v = d[EntryKeys[i]]
      OBVIOUS
    <3>3. f[i] = Pair(a, k, v)
      BY <2>3, <3>1, <3>2 DEF ChecksumRun
    <3>4. a \in Seq(Nat) /\ k \in Seq(Nat) /\ v \in Seq(Nat)
      BY <2>2, <2>3, <3>1, <3>2, EntriesAreStrings DEF Ended
    <3>5. Ended(f[i])
      BY <3>3, <3>4, PairEnds
    <3>6. EndsWithPair(f[i], d, i)
      BY <2>1, <2>2, <2>3, <3>1, <3>2, <3>3 DEF EndsWithPair
    <3> QED
      BY <2>1, <3>5, <3>6
  <2>4. CASE EntryKeys[i] \notin DOMAIN d
    <3>1. f[i] = f[i-1]
      BY <2>4 DEF ChecksumRun
    <3>2. EndsWithPair(f[i], d, i)
      BY <2>1, <2>2, <3>1 DEF EndsWithPair
    <3> QED
      BY <2>1, <2>2, <3>1, <3>2
  <2> QED
    BY <2>3, <2>4
<1> HIDE DEF W
<1>3. \A i \in 0..n : i \in W
  BY <1>0, <1>1, <1>2, UpTo
<1> QED
  BY <1>3 DEF W

\* A round that writes a pair comes to nothing that a run of another map comes
\* to without that key.
LEMMA MissingKeyShows ==
    ASSUME NEW d \in EntryMaps, AllNULFree(d), NEW f, ChecksumRun(f, d),
           NEW e \in EntryMaps, AllNULFree(e), NEW g, ChecksumRun(g, e),
           NEW i \in 1..Len(EntryKeys), EntryKeys[i] \in DOMAIN d, EntryKeys[i] \notin DOMAIN e,
           f[i] = g[i]
    PROVE  FALSE
<1>0. Len(EntryKeys) \in Nat
  BY EntriesAreStrings
<1>1. i - 1 \in 0..Len(EntryKeys) /\ i \in 0..Len(EntryKeys)
  BY <1>0
<1>2. PICK a : a = f[i-1]
  OBVIOUS
<1>3. PICK k, v : k = EntryKeys[i] /\ v = d[EntryKeys[i]]
  OBVIOUS
<1>4. f[i] = Pair(a, k, v)
  BY <1>2, <1>3 DEF ChecksumRun
<1>5. Ended(a) /\ a \in Seq(Nat)
  BY <1>1, <1>2, RoundsEndWithPair DEF Ended
<1>6. k \in Seq(Nat) /\ v \in Seq(Nat) /\ NULFree(k) /\ NULFree(v)
  BY <1>3, EntriesAreStrings DEF AllNULFree
<1>7. f[i] # <<>>
  BY <1>4, <1>5, <1>6, PairEnds
<1>8. g[i-1] = f[i]
  BY DEF ChecksumRun
<1>9. EndsWithPair(g[i-1], e, i - 1)
  BY <1>1, RoundsEndWithPair
<1>10. PICK j \in 1..(i-1) : \E b :
         Ended(b) /\ EntryKeys[j] \in DOMAIN e /\ g[i-1] = Pair(b, EntryKeys[j], e[EntryKeys[j]])
  BY <1>7, <1>8, <1>9 DEF EndsWithPair
<1>11. PICK b :
         Ended(b) /\ EntryKeys[j] \in DOMAIN e /\ g[i-1] = Pair(b, EntryKeys[j], e[EntryKeys[j]])
  BY <1>10
<1>12. PICK l, u : l = EntryKeys[j] /\ u = e[EntryKeys[j]]
  OBVIOUS
<1>13. j \in 1..Len(EntryKeys) /\ j # i
  BY <1>0
<1>14. l \in Seq(Nat) /\ u \in Seq(Nat) /\ NULFree(l) /\ NULFree(u)
  BY <1>11, <1>12, <1>13, EntriesAreStrings DEF AllNULFree
<1>15. Pair(a, k, v) = Pair(b, l, u)
  BY <1>4, <1>8, <1>11, <1>12
<1>16. k = l
  BY <1>5, <1>6, <1>11, <1>14, <1>15, LastPair
<1> QED
  BY <1>3, <1>12, <1>13, <1>16, CatalogAssumption

\* Maps without NULs that have the same checksum are the same.
LEMMA ChecksumTells ==
    ASSUME NEW d \in EntryMaps, AllNULFree(d), NEW e \in EntryMaps, AllNULFree(e),
           Checksum(d) = Checksum(e)
    PROVE  d = e
<1> DEFINE n == Len(EntryKeys)
           Same(j) == /\ EntryKeys[j] \in DOMAIN d <=> EntryKeys[j] \in DOMAIN e
                      /\ EntryKeys[j] \in DOMAIN d => d[EntryKeys[j]] = e[EntryKeys[j]]
<1>0. n \in Nat
  BY EntriesAreStrings
<1>1. PICK f : ChecksumRun(f, d) /\ Checksum(d) = SHA256(f[n])
  BY ChecksumRuns
<1>2. PICK g : ChecksumRun(g, e) /\ Checksum(e) = SHA256(g[n])
  BY ChecksumRuns
<1>3. f[n] = g[n]
  <2>1. PICK x, y : x = f[n] /\ y = g[n]
    OBVIOUS
  <2>2. SHA256(x) = SHA256(y)
    BY <1>1, <1>2, <2>1
  <2>3. x = y
    BY <2>2 DEF SHA256
  <2> QED
    BY <2>1, <2>3
<1> DEFINE W == {i \in 0..n : f[i] = g[i] => \A j \in 1..i : Same(j)}
<1>4. 0 \in W
  <2>1. 0 \in 0..n /\ 1..0 = {}
    BY <1>0
  <2> HIDE DEF Same
  <2> QED
    BY <2>1
<1>5. ASSUME NEW i \in 1..n, i - 1 \in W PROVE i \in W
  <2>1. i \in 0..n /\ i - 1 \in 0..n /\ 1..i = 1..(i-1) \cup {i}
    BY <1>0
  <2> SUFFICES ASSUME f[i] = g[i] PROVE \A j \in 1..i : Same(j)
    <3> HIDE DEF Same
    <3> QED
      BY <2>1
  <2>2. EntryKeys[i] \in DOMAIN d <=> EntryKeys[i] \in DOMAIN e
    BY <1>1, <1>2, MissingKeyShows
  <2>3. CASE EntryKeys[i] \in DOMAIN d
    <3>1. PICK a, b : a = f[i-1] /\ b = g[i-1]
      OBVIOUS
    <3>2. PICK k, v, u : k = EntryKeys[i] /\ v = d[EntryKeys[i]] /\ u = e[EntryKeys[i]]
      OBVIOUS
    <3>3. f[i] = Pair(a, k, v) /\ g[i] = Pair(b, k, u)
      BY <1>1, <1>2, <2>2, <2>3, <3>1, <3>2 DEF ChecksumRun
    <3>4. Ended(a) /\ Ended(b)
      BY <1>1, <1>2, <2>1, <3>1, RoundsEndWithPair
    <3>5. /\ k \in Seq(Nat) /\ v \in Seq(Nat) /\ u \in Seq(Nat)
          /\ NULFree(k) /\ NULFree(v) /\ NULFree(u)
      BY <2>2, <2>3, <3>2, EntriesAreStrings DEF AllNULFree
    <3>6. Pair(a, k, v) = Pair(b, k, u)
      BY <3>3
    <3>7. a = b /\ v = u
      BY <3>4, <3>5, <3>6, LastPair
    <3>8. Same(i)
      BY <2>2, <2>3, <3>2, <3>7
    <3>9. \A j \in 1..(i-1) : Same(j)
      <4> HIDE DEF Same
      <4> QED
        BY <1>5, <3>1, <3>7
    <3> HIDE DEF Same
    <3> QED
      BY <2>1, <3>8, <3>9
  <2>4. CASE EntryKeys[i] \notin DOMAIN d
    <3>1. f[i] = f[i-1] /\ g[i] = g[i-1]
      BY <1>1, <1>2, <2>2, <2>4 DEF ChecksumRun
    <3>2. Same(i)
      BY <2>2, <2>4
    <3> HIDE DEF Same
    <3>3. \A j \in 1..(i-1) : Same(j)
      BY <1>5, <3>1
    <3> QED
      BY <2>1, <3>2, <3>3
  <2> QED
    BY <2>3, <2>4
<1>6. n \in W
  <2> HIDE DEF W
  <2>1. \A i \in 0..n : i \in W
    BY <1>0, <1>4, <1>5, UpTo
  <2> QED
    BY <1>0, <2>1
<1>7. \A j \in 1..n : Same(j)
  <2> HIDE DEF Same
  <2> QED
    BY <1>3, <1>6
<1>8. /\ d = [k \in DOMAIN d |-> d[k]] /\ DOMAIN d \subseteq KeySet
      /\ e = [k \in DOMAIN e |-> e[k]] /\ DOMAIN e \subseteq KeySet
  BY DEF EntryMaps
<1>9. DOMAIN d = DOMAIN e /\ \A k \in DOMAIN d : d[k] = e[k]
  BY <1>7, <1>8 DEF KeySet
<1> QED
  BY <1>8, <1>9
-----------------------------------------------------------------------------
(* The catalog: verdicts. *)

\* s is the record in the catalog that t tells of, and has one of n maps: its
\* checksum is of what it was made of, its flag of what was last seen.
RecordOK(s, t, n) ==
    /\ s = [Entries |-> s.Entries, Checksum |-> s.Checksum, Verified |-> s.Verified]
    /\ t = [Contents |-> t.Contents, Seen |-> t.Seen]
    /\ s.Entries \in 1..n /\ t.Contents \in EntryMaps
    /\ t.Seen = {} \/ \E d \in EntryMaps : t.Seen = {d}
    /\ s.Checksum = Checksum(t.Contents)
    /\ s.Verified <=> \E d \in t.Seen : Checksum(d) = s.Checksum

\* What CatalogVerdict needs to be inductive: everyone has a map of its own.
CatalogInv ==
    /\ entryMaps \in Seq(EntryMaps) /\ 1 \in 1..Len(entryMaps)
    /\ holders \in Seq([Entries : Nat, Own : EntryMaps])
    /\ Len(holders) = Len(entryMaps)
    /\ \A n \in 1..Len(holders) : holders[n].Entries = n /\ holders[n].Own = entryMaps[n]
    /\ DOMAIN taken = DOMAIN items
    /\ \A id \in DOMAIN items : RecordOK(items[id], taken[id], Len(entryMaps))

\* What a snapshot is made of, or written with, is a map of strings.
LEMMA MapsOfStrings ==
    /\ Source \in EntryMaps
    /\ \A d \in EntryMaps, i \in 1..Len(EntryKeys), v \in EntryValues :
         MapPut(d, EntryKeys[i], v) \in EntryMaps
<1>1. Source \in EntryMaps
  <2>1. IsMap(Source, KeySet, Seq(Nat))
    BY CatalogAssumption DEF KeySet
  <2>2. Source \in [DOMAIN Source -> Seq(Nat)] /\ DOMAIN Source \in SUBSET KeySet
    BY <2>1 DEF IsMap
  <2> QED
    BY <2>2 DEF EntryMaps
<1>2. ASSUME NEW d \in EntryMaps, NEW i \in 1..Len(EntryKeys), NEW v \in EntryValues
      PROVE MapPut(d, EntryKeys[i], v) \in EntryMaps
  <2>1. PICK K \in SUBSET KeySet : d \in [K -> Seq(Nat)]
    BY DEF EntryMaps
  <2>2. PICK k : k = EntryKeys[i]
    OBVIOUS
  <2>3. k \in KeySet /\ v \in Seq(Nat)
    BY <2>2, CatalogAssumption DEF KeySet
  <2>4. MapPut(d, k, v) \in [K \cup {k} -> Seq(Nat)] /\ K \cup {k} \in SUBSET KeySet
    BY <2>1, <2>3 DEF MapPut
  <2> QED
    BY <2>2, <2>4 DEF EntryMaps
<1> QED
  BY <1>1, <1>2

\* At first only the caller has a map.
LEMMA CatalogInitInv == CatalogInit => CatalogInv
<1> SUFFICES ASSUME CatalogInit PROVE CatalogInv
  OBVIOUS
<1> DEFINE H == [Entries : Nat, Own : EntryMaps]
<1>1. PICK h : h = [Entries |-> 1, Own |-> Source]
  OBVIOUS
<1>2. h \in H /\ h.Entries = 1 /\ h.Own = Source
  BY <1>1, MapsOfStrings
<1>3. entryMaps = <<Source>> /\ holders = <<h>>
  BY <1>1 DEF CatalogInit
<1>4. /\ entryMaps \in Seq(EntryMaps) /\ Len(entryMaps) = 1 /\ entryMaps[1] = Source
  BY <1>3, MapsOfStrings
<1>5. /\ holders \in Seq(H) /\ Len(holders) = 1 /\ holders[1] = h
  <2> HIDE DEF H
  <2> QED
    BY <1>2, <1>3
<1>6. \A n \in 1..Len(holders) : holders[n].Entries = n /\ holders[n].Own = entryMaps[n]
  BY <1>2, <1>4, <1>5
<1>7. DOMAIN items = {} /\ DOMAIN taken = {}
  BY DEF CatalogInit, EmptyMap
<1> QED
  BY <1>4, <1>5, <1>6, <1>7 DEF CatalogInv

\* Put of a new snapshot keeps the invariant: the copy is a map of its own.
LEMMA MakeAndPutInv ==
    ASSUME CatalogInv, NEW id \in SnapshotIDs, MakeAndPut(id)
    PROVE  CatalogInv'
<1> DEFINE H == [Entries : Nat, Own : EntryMaps]
<1>1. PICK n, d : n = Len(entryMaps) /\ d = entryMaps[1]
  OBVIOUS
<1>2. /\ entryMaps \in Seq(EntryMaps) /\ holders \in Seq(H) /\ Len(holders) = n
      /\ n \in Nat /\ 1 \in 1..n
  BY <1>1 DEF CatalogInv
<1>3. d \in EntryMaps
  BY <1>1, <1>2
<1>4. PICK h : h = [Entries |-> n + 1, Own |-> d]
  OBVIOUS
<1>5. h \in H /\ h.Entries = n + 1 /\ h.Own = d
  BY <1>2, <1>3, <1>4
<1>6. /\ entryMaps' = Append(entryMaps, d) /\ holders' = Append(holders, h)
      /\ items' = MapPut(items, id, MakeSnapshot(n + 1, d))
      /\ taken' = MapPut(taken, id, [Contents |-> d, Seen |-> {}])
  BY <1>1, <1>4 DEF MakeAndPut, Taken
<1> HIDE DEF H
<1>7. /\ entryMaps' \in Seq(EntryMaps) /\ Len(entryMaps') = n + 1 /\ entryMaps'[n + 1] = d
      /\ \A i \in 1..n : entryMaps'[i] = entryMaps[i]
  BY <1>1, <1>2, <1>3, <1>6, Appended
<1>8. /\ holders' \in Seq(H) /\ Len(holders') = n + 1 /\ holders'[n + 1] = h
      /\ \A i \in 1..n : holders'[i] = holders[i]
  BY <1>2, <1>5, <1>6, Appended
<1>9. ASSUME NEW i \in 1..(n + 1)
      PROVE  holders'[i].Entries = i /\ holders'[i].Own = entryMaps'[i]
  <2>1. CASE i = n + 1
    BY <1>5, <1>7, <1>8, <2>1
  <2>2. CASE i # n + 1
    <3>1. i \in 1..n
      BY <1>2, <2>2
    <3>2. holders[i].Entries = i /\ holders[i].Own = entryMaps[i]
      BY <1>2, <3>1 DEF CatalogInv
    <3> QED
      BY <1>7, <1>8, <3>1, <3>2
  <2> QED
    BY <2>1, <2>2
<1>10. DOMAIN taken' = DOMAIN items'
  BY <1>6 DEF CatalogInv, MapPut
<1>11. ASSUME NEW x \in DOMAIN items' PROVE RecordOK(items'[x], taken'[x], n + 1)
  <2>1. CASE x = id
    <3>1. PICK s : s = [Entries |-> n + 1, Checksum |-> Checksum(d), Verified |-> FALSE]
      OBVIOUS
    <3>2. PICK t : t = [Contents |-> d, Seen |-> {}]
      OBVIOUS
    <3>3. items'[x] = s /\ taken'[x] = t
      BY <1>6, <2>1, <3>1, <3>2 DEF MapPut, MakeSnapshot
    <3>4. /\ s = [Entries |-> s.Entries, Checksum |-> s.Checksum, Verified |-> s.Verified]
          /\ s.Entries = n + 1 /\ s.Checksum = Checksum(d) /\ ~s.Verified
      BY <3>1
    <3>5. t = [Contents |-> t.Contents, Seen |-> t.Seen] /\ t.Contents = d /\ t.Seen = {}
      BY <3>2
    <3>6. n + 1 \in 1..(n + 1)
      BY <1>2
    <3>7. RecordOK(s, t, n + 1)
      BY <1>3, <3>4, <3>5, <3>6 DEF RecordOK
    <3> QED
      BY <3>3, <3>7
  <2>2. CASE x # id
    <3>1. x \in DOMAIN items /\ items'[x] = items[x] /\ taken'[x] = taken[x]
      BY <1>6, <2>2 DEF MapPut, CatalogInv
    <3>2. RecordOK(items[x], taken[x], n)
      BY <1>1, <3>1 DEF CatalogInv
    <3>3. items[x].Entries \in 1..n => items[x].Entries \in 1..(n + 1)
      BY <1>2
    <3>4. RecordOK(items[x], taken[x], n + 1)
      BY <3>2, <3>3, Zenon DEF RecordOK
    <3> QED
      BY <3>1, <3>4
  <2> QED
    BY <2>1, <2>2
<1>12. 1 \in 1..(n + 1)
  BY <1>2
<1> QED
  BY <1>7, <1>8, <1>9, <1>10, <1>11, <1>12 DEF CatalogInv, H

\* Writing to a map does: it is only its holder's.
LEMMA WriteEntryInv ==
    ASSUME CatalogInv, NEW e \in 1..Len(holders), NEW i \in 1..Len(EntryKeys),
           NEW v \in EntryValues, WriteEntry(e, EntryKeys[i], v)
    PROVE  CatalogInv'
<1> DEFINE H == [Entries : Nat, Own : EntryMaps]
<1>1. PICK n : n = Len(entryMaps)
  OBVIOUS
<1>2. /\ entryMaps \in Seq(EntryMaps) /\ holders \in Seq(H) /\ Len(holders) = n
      /\ n \in Nat /\ 1 \in 1..n /\ e \in 1..n
  BY <1>1 DEF CatalogInv
<1>3. /\ holders[e].Entries = e /\ holders[e].Own = entryMaps[e]
      /\ holders[e] \in H /\ entryMaps[e] \in EntryMaps
  <2>1. holders[e].Entries = e /\ holders[e].Own = entryMaps[e]
    BY DEF CatalogInv
  <2> HIDE DEF H
  <2>2. holders[e] \in H /\ entryMaps[e] \in EntryMaps
    BY <1>1, <1>2
  <2> QED
    BY <2>1, <2>2
<1>4. PICK m : m = MapPut(entryMaps[e], EntryKeys[i], v)
  OBVIOUS
<1>5. m \in EntryMaps
  BY <1>3, <1>4, MapsOfStrings
<1>6. PICK h : h = [holders[e] EXCEPT !.Own = m]
  OBVIOUS
<1>7. h \in H /\ h.Entries = e /\ h.Own = m
  BY <1>3, <1>5, <1>6
<1>8. /\ entryMaps' = [entryMaps EXCEPT ![e] = m] /\ holders' = [holders EXCEPT ![e] = h]
      /\ items' = items /\ taken' = taken
  BY <1>3, <1>4, <1>6 DEF WriteEntry
<1> HIDE DEF H
<1>9. /\ entryMaps' \in Seq(EntryMaps) /\ Len(entryMaps') = n
      /\ \A j \in 1..n : entryMaps'[j] = IF j = e THEN m ELSE entryMaps[j]
  BY <1>1, <1>2, <1>5, <1>8
<1>10. /\ holders' \in Seq(H) /\ Len(holders') = n
       /\ \A j \in 1..n : holders'[j] = IF j = e THEN h ELSE holders[j]
  BY <1>2, <1>7, <1>8
<1>11. \A j \in 1..n : holders'[j].Entries = j /\ holders'[j].Own = entryMaps'[j]
  <2>1. \A j \in 1..n : holders[j].Entries = j /\ holders[j].Own = entryMaps[j]
    BY <1>2 DEF CatalogInv
  <2> QED
    BY <1>7, <1>9, <1>10, <2>1
<1>12. /\ DOMAIN taken' = DOMAIN items'
       /\ \A x \in DOMAIN items' : RecordOK(items'[x], taken'[x], n)
  BY <1>1, <1>8 DEF CatalogInv
<1> QED
  BY <1>2, <1>9, <1>10, <1>11, <1>12 DEF CatalogInv, H

\* Verify does: it only notes the verdict.
LEMMA VerifyItemsInv ==
    ASSUME CatalogInv, NEW id \in SnapshotIDs, VerifyItems(id)
    PROVE  CatalogInv'
<1>1. entryMaps' = entryMaps /\ holders' = holders /\ id \in DOMAIN items
  BY DEF VerifyItems
<1>2. PICK b, d, s, t, n :
        /\ b = Verdict(items[id]) /\ d = entryMaps[items[id].Entries]
        /\ s = items[id] /\ t = taken[id] /\ n = Len(entryMaps)
  OBVIOUS
<1>3. /\ DOMAIN taken = DOMAIN items /\ RecordOK(s, t, n)
      /\ \A x \in DOMAIN items : RecordOK(items[x], taken[x], n)
  BY <1>1, <1>2 DEF CatalogInv
<1>4. d \in EntryMaps
  BY <1>2, <1>3 DEF CatalogInv, RecordOK
<1>5. PICK s1, t1 : s1 = [s EXCEPT !.Verified = b] /\ t1 = [t EXCEPT !.Seen = {d}]
  OBVIOUS
<1>6. items' = [items EXCEPT ![id] = s1] /\ taken' = [taken EXCEPT ![id] = t1]
  BY <1>2, <1>5 DEF VerifyItems
<1>7. RecordOK(s1, t1, n)
  <2>1. PICK e, c, o : s = [Entries |-> e, Checksum |-> c, Verified |-> o]
    BY <1>3 DEF RecordOK
  <2>2. PICK m, w : t = [Contents |-> m, Seen |-> w]
    BY <1>3 DEF RecordOK
  <2>3. s1 = [Entries |-> e, Checksum |-> c, Verified |-> b]
    BY <1>5, <2>1
  <2>4. t1 = [Contents |-> m, Seen |-> {d}]
    BY <1>5, <2>2
  <2>5. e \in 1..n /\ m \in EntryMaps /\ c = Checksum(m)
    BY <1>3, <2>1, <2>2 DEF RecordOK
  <2>6. b <=> Checksum(d) = c
    <3>1. items[id].Checksum = c
      BY <1>2, <2>1
    <3>2. Verdict(items[id]) <=> Checksum(d) = c
      BY <1>2, <3>1 DEF Verdict
    <3> QED
      BY <1>2, <3>2, Zenon
  <2>7. /\ s1 = [Entries |-> s1.Entries, Checksum |-> s1.Checksum, Verified |-> s1.Verified]
        /\ s1.Entries = e /\ s1.Checksum = c /\ s1.Verified = b
    BY <2>3
  <2>8. t1 = [Contents |-> t1.Contents, Seen |-> t1.Seen] /\ t1.Contents = m /\ t1.Seen = {d}
    BY <2>4
  <2>9. s1.Verified <=> \E x \in t1.Seen : Checksum(x) = s1.Checksum
    BY <2>6, <2>7, <2>8, Zenon
  <2> QED
    BY <1>4, <2>5, <2>7, <2>8, <2>9, Zenon DEF RecordOK
<1>8. DOMAIN items' = DOMAIN items /\ DOMAIN taken' = DOMAIN taken
  BY <1>6
<1>9. ASSUME NEW x \in DOMAIN items' PROVE RecordOK(items'[x], taken'[x], n)
  <2>1. CASE x = id
    <3>1. items'[x] = s1 /\ taken'[x] = t1
      BY <1>1, <1>3, <1>6, <2>1
    <3> QED
      BY <1>7, <3>1
  <2>2. CASE x # id
    <3>1. items'[x] = items[x] /\ taken'[x] = taken[x] /\ x \in DOMAIN items
      BY <1>3, <1>6, <1>8, <2>2
    <3> QED
      BY <1>3, <3>1
  <2> QED
    BY <2>1, <2>2
<1> QED
  BY <1>1, <1>2, <1>3, <1>8, <1>9 DEF CatalogInv

\* For any map of the caller's, in any order of puts, writes by anyone who has a
\* map and checks: nobody's writes show in another's map, Verify tells a record
\* that was written to from one that was not, and its flag says what it has
\* seen, unless a key or a value has a NUL in it (snapshot.go:30-38, 55-87).
THEOREM CatalogSafe == CatalogSpec => []CatalogVerdict
<1>1. CatalogInit => CatalogInv
  BY CatalogInitInv
<1>2. CatalogInv /\ [CatalogNext]_CatalogVars => CatalogInv'
  <2> SUFFICES ASSUME CatalogInv, [CatalogNext]_CatalogVars PROVE CatalogInv'
    OBVIOUS
  <2>1. CASE CatalogNext
    BY <2>1, MakeAndPutInv, WriteEntryInv, VerifyItemsInv DEF CatalogNext
  <2>2. CASE UNCHANGED CatalogVars
    BY <2>2 DEF CatalogVars, CatalogInv
  <2> QED
    BY <2>1, <2>2
<1>3. CatalogInv => CatalogVerdict
  <2> SUFFICES ASSUME CatalogInv PROVE CatalogVerdict
    OBVIOUS
  <2>1. \A n \in 1..Len(holders) : entryMaps[holders[n].Entries] = holders[n].Own
    BY DEF CatalogInv
  <2>2. ASSUME NEW id \in DOMAIN items, NEW now, now = entryMaps[items[id].Entries],
               NEW made, made = taken[id].Contents, NEW seen, seen = taken[id].Seen,
               AllNULFree(made)
        PROVE  /\ AllNULFree(now) => (Verdict(items[id]) <=> now = made)
               /\ (\A d \in seen : AllNULFree(d)) =>
                    (items[id].Verified <=> seen = {made})
    <3>1. RecordOK(items[id], taken[id], Len(entryMaps))
      BY DEF CatalogInv
    <3>2. now \in EntryMaps /\ made \in EntryMaps
      BY <2>2, <3>1 DEF RecordOK, CatalogInv
    <3>3. ASSUME AllNULFree(now) PROVE Verdict(items[id]) <=> now = made
      <4>1. Verdict(items[id]) <=> Checksum(now) = Checksum(made)
        BY <2>2, <3>1 DEF Verdict, RecordOK
      <4>2. Checksum(now) = Checksum(made) => now = made
        BY <2>2, <3>2, <3>3, ChecksumTells
      <4> QED
        BY <4>1, <4>2
    <3>4. ASSUME \A d \in seen : AllNULFree(d)
          PROVE  items[id].Verified <=> seen = {made}
      <4>1. items[id].Verified <=> \E d \in seen : Checksum(d) = Checksum(made)
        BY <2>2, <3>1, Zenon DEF RecordOK
      <4>2. seen = {} \/ \E d \in EntryMaps : seen = {d}
        BY <2>2, <3>1 DEF RecordOK
      <4>3. CASE seen = {}
        BY <4>1, <4>3, Zenon
      <4>4. ASSUME NEW d \in EntryMaps, seen = {d}
            PROVE  items[id].Verified <=> seen = {made}
        <5>1. Checksum(d) = Checksum(made) <=> d = made
          BY <2>2, <3>2, <3>4, <4>4, ChecksumTells
        <5>2. items[id].Verified <=> d = made
          BY <4>1, <4>4, <5>1, Zenon
        <5>3. d = made <=> {d} = {made}
          OBVIOUS
        <5> QED
          BY <4>4, <5>2, <5>3, Zenon
      <4> QED
        BY <4>2, <4>3, <4>4
    <3> QED
      BY <3>3, <3>4
  <2> QED
    BY <2>1, <2>2 DEF CatalogVerdict
<1> QED
  BY <1>1, <1>2, <1>3, PTL DEF CatalogSpec
-----------------------------------------------------------------------------
(* The encoding: numbers in bytes. *)

\* Quotient and remainder.
LEMMA DivMod ==
    ASSUME NEW n \in Int, NEW p \in Nat \ {0}
    PROVE  n \div p \in Int /\ n % p \in 0..(p - 1) /\ n = p * (n \div p) + (n % p)
OBVIOUS

\* There is one quotient.
LEMMA OneQuotient ==
    ASSUME NEW n \in Int, NEW p \in Nat \ {0}, NEW q \in Int, NEW r \in 0..(p - 1),
           n = p * q + r
    PROVE  n \div p = q
OBVIOUS

\* Products.
LEMMA Distributes ==
    ASSUME NEW a \in Int, NEW b \in Int, NEW c \in Int
    PROVE  a * (b + c) = a * b + a * c /\ a * (b * c) = (a * b) * c
OBVIOUS

LEMMA ProductGrows ==
    ASSUME NEW a \in Nat, NEW b \in Int, NEW c \in Int, b <= c
    PROVE  a * b <= a * c
OBVIOUS

\* A shift by p and then by b is one by their product.
LEMMA DivTwice ==
    ASSUME NEW n \in Int, NEW p \in Nat \ {0}, NEW b \in Nat \ {0}
    PROVE  (n \div p) \div b = n \div (p * b)
<1>1. PICK a \in Int, r1 \in 0..(p-1) : a = n \div p /\ n = p * a + r1
  BY DivMod
<1>2. PICK c \in Int, r2 \in 0..(b-1) : c = a \div b /\ a = b * c + r2
  BY DivMod
<1>3. p * a = p * (b * c) + p * r2
  BY <1>2, Distributes
<1>4. PICK d \in Nat \ {0} : d = p * b
  OBVIOUS
<1>5. p * (b * c) = d * c
  BY <1>4, Distributes
<1>6. PICK r \in Nat : r = p * r2 + r1
  OBVIOUS
<1>7. p * r2 <= p * (b - 1)
  BY ProductGrows
<1>8. p * (b - 1) = d - p
  BY <1>4
<1>9. r \in 0..(d-1)
  BY <1>6, <1>7, <1>8
<1>10. n = d * c + r
  BY <1>1, <1>3, <1>5, <1>6
<1>11. n \div d = c
  BY <1>9, <1>10, OneQuotient
<1> QED
  BY <1>1, <1>2, <1>4, <1>11

\* Powers of Base.
LEMMA Powers ==
    ASSUME NEW w \in Widths
    PROVE  /\ w \in Nat \ {0} /\ Base \in Nat \ {0, 1} /\ Base^0 = 1
           /\ \A k \in 0..w : Base^k \in Nat \ {0}
           /\ \A k \in 1..w : Base^k = Base^(k - 1) * Base
<1>1. w \in Nat \ {0} /\ Base \in Nat \ {0, 1}
  BY WireAssumption
<1>2. \A k \in 0..(w - 1) : Base^k \in Nat \ {0} /\ Base^(k + 1) = Base^k * Base
  BY PowerAssumption
<1>3. Base^0 = 1 /\ Base^w \in Nat \ {0}
  <2>1. 0 \in 0..(w - 1)
    BY <1>1
  <2> QED
    BY <2>1, PowerAssumption
<1>4. ASSUME NEW k \in 0..w PROVE Base^k \in Nat \ {0}
  <2>1. k \in 0..(w-1) \/ k = w
    BY <1>1
  <2> QED
    BY <1>2, <1>3, <2>1
<1>5. ASSUME NEW k \in 1..w PROVE Base^k = Base^(k - 1) * Base
  <2>1. k - 1 \in 0..(w - 1) /\ (k - 1) + 1 = k
    BY <1>1
  <2>2. PICK j \in 0..(w-1) : j = k - 1 /\ j + 1 = k
    BY <2>1
  <2> QED
    BY <1>2, <2>2
<1> QED
  BY <1>1, <1>3, <1>4, <1>5

\* A number in w bytes is w bytes.
LEMMA BigEndianBytes ==
    ASSUME NEW n \in Int, NEW w \in Widths
    PROVE  BigEndian(n, w) \in Seq(Bytes) /\ Len(BigEndian(n, w)) = w
<1>1. w \in Nat \ {0} /\ Base \in Nat \ {0, 1} /\ \A k \in 0..w : Base^k \in Nat \ {0}
  BY Powers
<1>2. ASSUME NEW i \in 1..w PROVE (n \div Base^(w - i)) % Base \in Bytes
  <2>1. w - i \in 0..w
    BY <1>1
  <2>2. PICK p \in Nat \ {0} : p = Base^(w - i)
    BY <1>1, <2>1
  <2>3. PICK q \in Int : q = n \div p
    BY DivMod
  <2>4. q % Base \in 0..(Base - 1)
    BY <1>1, DivMod
  <2> QED
    BY <2>2, <2>3, <2>4 DEF Bytes
<1>3. PICK s : s = BigEndian(n, w)
  OBVIOUS
<1>4. s \in [1..w -> Bytes]
  BY <1>2, <1>3 DEF BigEndian
<1>5. s \in Seq(Bytes) /\ Len(s) = w
  BY <1>1, <1>4
<1> QED
  BY <1>3, <1>5

\* The rounds of reading a number.
NumberRun(f, bytes) ==
    /\ f = [i \in 0..Len(bytes) |-> f[i]] /\ f[0] = 0
    /\ \A i \in 1..Len(bytes) : f[i] = f[i-1] * Base + bytes[i]
    /\ \A i \in 0..Len(bytes) : f[i] \in Nat

\* A number read is what they come to.
LEMMA NumberRuns ==
    ASSUME NEW bytes \in Seq(Bytes)
    PROVE  \E f : NumberRun(f, bytes) /\ Number(bytes) = f[Len(bytes)]
<1> DEFINE n == Len(bytes)
           g == [i \in 1..n |-> [x \in Nat |-> x * Base + bytes[i]]]
           F(f) == [i \in 0..n |-> IF i = 0 THEN 0 ELSE f[i-1] * Base + bytes[i]]
           f1 == CHOOSE f : f = F(f)
<1>1. n \in Nat /\ Base \in Nat /\ \A i \in 1..n : bytes[i] \in Nat
  BY WireAssumption DEF Bytes
<1>2. ASSUME NEW i \in 1..n PROVE g[i] \in [Nat -> Nat]
  <2>1. \A x \in Nat : x * Base + bytes[i] \in Nat
    BY <1>1
  <2>2. [x \in Nat |-> x * Base + bytes[i]] \in [Nat -> Nat]
    BY <2>1
  <2> QED
    BY <2>2
<1>3. g \in [1..n -> [Nat -> Nat]]
  BY <1>2
<1>5. PICK f : Rounds(f, n, 0, g) /\ \A i \in 0..n : f[i] \in Nat
  <2> HIDE DEF n, g
  <2> QED
    BY <1>1, <1>3, RoundsExist
<1>6. f = F(f)
  <2>1. f = [i \in 0..n |-> f[i]] /\ f[0] = 0 /\ \A i \in 1..n : f[i] = g[i][f[i-1]]
    BY <1>5 DEF Rounds
  <2>2. ASSUME NEW i \in 0..n
        PROVE  f[i] = IF i = 0 THEN 0 ELSE f[i-1] * Base + bytes[i]
    <3>1. CASE i = 0
      BY <2>1, <3>1
    <3>2. CASE i # 0
      <4>1. i \in 1..n /\ i - 1 \in 0..n
        BY <1>1, <3>2
      <4>2. f[i-1] \in Nat /\ f[i] = g[i][f[i-1]]
        BY <1>5, <2>1, <4>1
      <4>3. f[i] = f[i-1] * Base + bytes[i]
        BY <4>1, <4>2
      <4> QED
        BY <3>2, <4>3
    <3> QED
      BY <3>1, <3>2
  <2> QED
    BY <2>1, <2>2
<1>7. f1 = F(f1)
  <2> HIDE DEF F
  <2> QED
    BY <1>6
<1>8. Number(bytes) = f1[n]
  BY DEF Number
<1> HIDE DEF f1
<1>9. f1 = [i \in 0..n |-> f1[i]] /\ f1[0] = 0
  BY <1>7, <1>1
<1>10. ASSUME NEW i \in 1..n PROVE f1[i] = f1[i-1] * Base + bytes[i]
  <2>1. i \in 0..n /\ i # 0
    BY <1>1
  <2> QED
    BY <1>7, <2>1
<1> DEFINE W == {i \in 0..n : f1[i] \in Nat}
<1>11. 0 \in W
  BY <1>1, <1>9
<1>12. ASSUME NEW i \in 1..n, i - 1 \in W PROVE i \in W
  <2>1. PICK x \in Nat, y \in Nat, b \in Nat : x = f1[i-1] /\ y = Base /\ b = bytes[i]
    BY <1>1, <1>12
  <2>2. x * y + b \in Nat
    OBVIOUS
  <2>3. f1[i] = x * y + b
    BY <1>10, <2>1
  <2>4. i \in 0..n
    BY <1>1
  <2> QED
    BY <2>2, <2>3, <2>4
<1>13. \A i \in 0..n : i \in W
  <2> HIDE DEF W
  <2> QED
    BY <1>1, <1>11, <1>12, UpTo
<1> QED
  BY <1>8, <1>9, <1>10, <1>13 DEF NumberRun

\* A number read is a natural number.
LEMMA NumberIsNat ==
    ASSUME NEW bytes \in Seq(Bytes)
    PROVE  Number(bytes) \in Nat
<1>1. PICK f : NumberRun(f, bytes) /\ Number(bytes) = f[Len(bytes)]
  BY NumberRuns
<1>2. Len(bytes) \in 0..Len(bytes)
  OBVIOUS
<1> QED
  BY <1>1, <1>2 DEF NumberRun

\* Reading w bytes of n gives n, less what did not fit.
LEMMA NumberRead ==
    ASSUME NEW n \in Int, NEW w \in Widths
    PROVE  Number(BigEndian(n, w)) = n - (n \div Base^w) * Base^w
<1>1. PICK s : s = BigEndian(n, w)
  OBVIOUS
<1>2. s \in Seq(Bytes) /\ Len(s) = w
  BY <1>1, BigEndianBytes
<1>3. PICK f : NumberRun(f, s) /\ Number(s) = f[w]
  BY <1>2, NumberRuns
<1>4. /\ w \in Nat \ {0} /\ Base \in Nat \ {0, 1} /\ Base^0 = 1
      /\ \A k \in 0..w : Base^k \in Nat \ {0}
      /\ \A k \in 1..w : Base^k = Base^(k - 1) * Base
  BY Powers
<1>5. PICK c \in Int : c = n \div Base^w
  <2>1. PICK p \in Nat \ {0} : p = Base^w
    BY <1>4
  <2> QED
    BY <2>1, DivMod
<1> DEFINE W == {i \in 0..w : f[i] = (n \div Base^(w - i)) - c * Base^i}
<1>6. 0 \in W
  <2>1. f[0] = 0 /\ w - 0 = w /\ 0 \in 0..w
    BY <1>2, <1>3, <1>4 DEF NumberRun
  <2>2. 0 = c - c * 1
    OBVIOUS
  <2> QED
    BY <1>4, <1>5, <2>1, <2>2
<1>7. ASSUME NEW i \in 1..w, i - 1 \in W PROVE i \in W
  <2>1. w - i \in 0..w /\ w - (i - 1) \in 1..w /\ (w - (i - 1)) - 1 = w - i /\ i \in 0..w
        /\ i - 1 \in 0..w
    BY <1>4
  <2>2. PICK p, p1, e, e1 \in Nat \ {0} :
          p = Base^(w - i) /\ p1 = Base^(w - (i - 1)) /\ e = Base^i /\ e1 = Base^(i - 1)
    BY <1>4, <2>1
  <2>3. p1 = p * Base
    BY <1>4, <2>1, <2>2
  <2>4. e = e1 * Base
    BY <1>4, <2>2
  <2>5. PICK b \in Nat \ {0} : b = Base
    BY <1>4
  <2>6. PICK q \in Int : q = n \div p
    BY DivMod
  <2>7. PICK q1 \in Int : q1 = n \div p1
    BY DivMod
  <2>8. q1 = q \div b
    BY <2>3, <2>5, <2>6, <2>7, DivTwice, ZenonT(60)
  <2>9. PICK d \in Int : d = q % b
    <3>1. q % b \in 0..(b - 1)
      BY DivMod
    <3> QED
      BY <3>1
  <2>10. q = b * q1 + d
    BY <2>8, <2>9, DivMod
  <2>11. s[i] = d
    BY <1>1, <2>2, <2>5, <2>6, <2>9 DEF BigEndian
  <2>12. f[i-1] = q1 - c * e1
    BY <1>7, <2>2, <2>7
  <2>13. f[i] = f[i-1] * b + d
    BY <1>2, <1>3, <2>5, <2>11 DEF NumberRun
  <2>14. (q1 - c * e1) * b = b * q1 - c * (e1 * b)
    <3>1. PICK x \in Int : x = c * e1
      OBVIOUS
    <3>2. (q1 - x) * b = b * q1 - x * b
      OBVIOUS
    <3>3. x * b = c * (e1 * b)
      BY <3>1, Distributes
    <3> QED
      BY <3>1, <3>2, <3>3
  <2>15. PICK z \in Int : z = c * e
    OBVIOUS
  <2>16. c * (e1 * b) = z
    BY <2>4, <2>5, <2>15
  <2>17. f[i] = q - z
    <3>1. PICK y \in Int : y = b * q1
      OBVIOUS
    <3>2. f[i] = (y - z) + d
      BY <2>12, <2>13, <2>14, <2>16, <3>1
    <3>3. q = y + d
      BY <2>10, <3>1
    <3> QED
      BY <3>2, <3>3
  <2> QED
    BY <2>1, <2>2, <2>6, <2>15, <2>17
<1>8. w \in W
  <2> HIDE DEF W
  <2>1. \A i \in 0..w : i \in W
    BY <1>4, <1>6, <1>7, UpTo
  <2> QED
    BY <1>4, <2>1
<1>9. f[w] = (n \div Base^(w - w)) - c * Base^w
  BY <1>8
<1>10. n \div Base^(w - w) = n
  <2>1. w - w = 0
    BY <1>4
  <2>2. n \div 1 = n
    OBVIOUS
  <2> QED
    BY <1>4, <2>1, <2>2
<1> QED
  BY <1>1, <1>3, <1>5, <1>9, <1>10

\* A number that fits is read back.
LEMMA FitsIsRead ==
    ASSUME NEW w \in Widths, NEW n \in Nat, n < Base^w
    PROVE  Number(BigEndian(n, w)) = n
<1>1. PICK p \in Nat \ {0} : p = Base^w
  BY Powers
<1>2. n \div p = 0
  BY <1>1
<1>3. Number(BigEndian(n, w)) = n - 0 * p
  BY <1>1, <1>2, NumberRead
<1> QED
  BY <1>3

\* A negative one is read as its two's complement.
LEMMA NegativeIsRead ==
    ASSUME NEW w \in Widths, NEW n \in Int, n < 0, 0 <= n + Base^w
    PROVE  Number(BigEndian(n, w)) = n + Base^w
<1>1. PICK p \in Nat \ {0} : p = Base^w
  BY Powers
<1>2. n \div p = -1
  <2>1. PICK r \in 0..(p - 1) : r = n + p
    BY <1>1
  <2>2. n = p * (-1) + r
    BY <2>1
  <2> QED
    BY <2>2, OneQuotient
<1>3. Number(BigEndian(n, w)) = n - (-1) * p
  BY <1>1, <1>2, NumberRead
<1>4. n - (-1) * p = n + p
  OBVIOUS
<1> QED
  BY <1>1, <1>3, <1>4

\* The numbers of a transaction or a block are read back, expiry and timestamp
\* as signed ones.
LEMMA FieldIsRead ==
    ASSUME NEW n
    PROVE  /\ Unsigned(n) => n \in Int /\ Number(BigEndian(n, NumberSize)) = n
           /\ IsSigned(n) => n \in Int /\ Signed(Number(BigEndian(n, NumberSize))) = n
           /\ Short(n) => /\ n \in Int /\ Number(BigEndian(n, NumberSize)) = n
                          /\ Number(BigEndian(n, NumberSize)) % Base^CountSize = n
<1>0. NumberSize \in Widths /\ CountSize \in Widths
  BY DEF Widths
<1>1. Unsigned(n) => n \in Int /\ Number(BigEndian(n, NumberSize)) = n
  BY <1>0, FitsIsRead DEF Unsigned
<1>2. PICK p \in Nat \ {0} : p = Base^NumberSize
  BY <1>0, Powers
<1>3. ASSUME IsSigned(n) PROVE n \in Int /\ Signed(Number(BigEndian(n, NumberSize))) = n
  <2>1. n \in Int /\ 2 * n < p /\ 0 <= 2 * n + p
    BY <1>2, <1>3 DEF IsSigned
  <2>2. CASE n < 0
    <3>1. 0 <= n + p
      BY <2>1, <2>2
    <3>2. Number(BigEndian(n, NumberSize)) = n + p
      BY <1>0, <1>2, <2>1, <2>2, <3>1, NegativeIsRead
    <3>3. 2 * (n + p) >= p /\ (n + p) - p = n
      BY <2>1
    <3> QED
      BY <1>2, <2>1, <3>2, <3>3 DEF Signed
  <2>3. CASE ~(n < 0)
    <3>1. n \in Nat /\ n < p /\ ~(2 * n >= p)
      BY <2>1, <2>3
    <3>2. Number(BigEndian(n, NumberSize)) = n
      BY <1>0, <1>2, <3>1, FitsIsRead
    <3> QED
      BY <1>2, <3>1, <3>2 DEF Signed
  <2> QED
    BY <2>2, <2>3
<1>4. ASSUME Short(n)
      PROVE  /\ n \in Int /\ Number(BigEndian(n, NumberSize)) = n
             /\ Number(BigEndian(n, NumberSize)) % Base^CountSize = n
  <2>1. PICK q \in Nat \ {0} : q = Base^CountSize
    BY <1>0, Powers
  <2>2. n \in Nat /\ n < q /\ q <= p
    BY <1>2, <1>4, <2>1, WireAssumption DEF Short
  <2>3. n < p
    BY <2>2
  <2>4. Number(BigEndian(n, NumberSize)) = n
    BY <1>0, <1>2, <2>2, <2>3, FitsIsRead
  <2>5. n % q = n
    BY <2>2
  <2> QED
    BY <2>1, <2>2, <2>4, <2>5
<1> QED
  BY <1>1, <1>3, <1>4
-----------------------------------------------------------------------------
(* The encoding: parts of a buffer. *)

\* The rounds of writing parts to a buffer.
BufferRun(f, parts) ==
    /\ f = [i \in 0..Len(parts) |-> f[i]] /\ f[0] = <<>>
    /\ \A i \in 1..Len(parts) : f[i] = f[i-1] \o parts[i]
    /\ \A i \in 0..Len(parts) : f[i] \in Seq(Bytes)

\* A buffer holds what they come to.
LEMMA BufferRuns ==
    ASSUME NEW parts \in Seq(Seq(Bytes))
    PROVE  \E f : BufferRun(f, parts) /\ Concat(parts) = f[Len(parts)]
<1> DEFINE n == Len(parts)
           S == Seq(Bytes)
           g == [i \in 1..n |-> [s \in S |-> s \o parts[i]]]
           F(f) == [i \in 0..n |-> IF i = 0 THEN <<>> ELSE f[i-1] \o parts[i]]
           f1 == CHOOSE f : f = F(f)
<1>1. n \in Nat /\ \A i \in 1..n : parts[i] \in S
  OBVIOUS
<1>2. ASSUME NEW i \in 1..n PROVE g[i] \in [S -> S]
  <2>1. \A s \in S : s \o parts[i] \in S
    BY <1>1, ConcatProperties
  <2>2. [s \in S |-> s \o parts[i]] \in [S -> S]
    <3> HIDE DEF S
    <3> QED
      BY <2>1
  <2> QED
    BY <2>2
<1>3. g \in [1..n -> [S -> S]]
  BY <1>2
<1>4. <<>> \in S
  OBVIOUS
<1>5. PICK f : Rounds(f, n, <<>>, g) /\ \A i \in 0..n : f[i] \in S
  <2> HIDE DEF n, g, S
  <2> QED
    BY <1>1, <1>3, <1>4, RoundsExist
<1>6. f = F(f)
  <2>1. f = [i \in 0..n |-> f[i]] /\ f[0] = <<>> /\ \A i \in 1..n : f[i] = g[i][f[i-1]]
    BY <1>5 DEF Rounds
  <2>2. ASSUME NEW i \in 0..n
        PROVE  f[i] = IF i = 0 THEN <<>> ELSE f[i-1] \o parts[i]
    <3>1. CASE i = 0
      BY <2>1, <3>1
    <3>2. CASE i # 0
      <4>1. i \in 1..n /\ i - 1 \in 0..n
        BY <1>1, <3>2
      <4>2. f[i-1] \in S /\ f[i] = g[i][f[i-1]]
        BY <1>5, <2>1, <4>1
      <4> HIDE DEF S
      <4>3. f[i] = f[i-1] \o parts[i]
        BY <4>1, <4>2
      <4> QED
        BY <3>2, <4>3
    <3> QED
      BY <3>1, <3>2
  <2> QED
    BY <2>1, <2>2
<1>7. f1 = F(f1)
  <2> HIDE DEF F
  <2> QED
    BY <1>6
<1>8. Concat(parts) = f1[n]
  BY DEF Concat
<1> HIDE DEF f1
<1>9. f1 = [i \in 0..n |-> f1[i]] /\ f1[0] = <<>>
  BY <1>7, <1>1
<1>10. ASSUME NEW i \in 1..n PROVE f1[i] = f1[i-1] \o parts[i]
  <2>1. i \in 0..n /\ i # 0
    BY <1>1
  <2> QED
    BY <1>7, <2>1
<1> DEFINE W == {i \in 0..n : f1[i] \in S}
<1>11. 0 \in W
  <2>1. 0 \in 0..n
    BY <1>1
  <2>2. f1[0] \in S
    BY <1>4, <1>9
  <2> HIDE DEF S
  <2> QED
    BY <2>1, <2>2
<1>12. ASSUME NEW i \in 1..n, i - 1 \in W PROVE i \in W
  <2>1. PICK x \in S, y \in S : x = f1[i-1] /\ y = parts[i]
    BY <1>1, <1>12
  <2>2. x \o y \in S
    BY ConcatProperties
  <2>3. f1[i] = x \o y
    BY <1>10, <2>1
  <2>4. i \in 0..n
    BY <1>1
  <2> QED
    BY <2>2, <2>3, <2>4
<1>13. \A i \in 0..n : i \in W
  <2> HIDE DEF W
  <2> QED
    BY <1>1, <1>11, <1>12, UpTo
<1> QED
  BY <1>8, <1>9, <1>10, <1>13 DEF BufferRun

\* The i-th of parts is in buf between o[i-1] and o[i].
Places(buf, parts, o) ==
    /\ buf \in Seq(Bytes)
    /\ \A i \in 0..Len(parts) : o[i] \in Nat /\ o[i] <= Len(buf)
    /\ o[0] = 0 /\ o[Len(parts)] = Len(buf)
    /\ \A i \in 1..Len(parts) :
         /\ o[i] = o[i-1] + Len(parts[i])
         /\ \A j \in 1..Len(parts[i]) : buf[o[i-1] + j] = parts[i][j]

\* Parts keep their places in what is written.
LEMMA PartsHavePlaces ==
    ASSUME NEW parts \in Seq(Seq(Bytes))
    PROVE  \E o : Places(Concat(parts), parts, o)
<1>1. PICK f : BufferRun(f, parts) /\ Concat(parts) = f[Len(parts)]
  BY BufferRuns
<1> DEFINE n == Len(parts)
           o == [i \in 0..n |-> Len(f[i])]
           Starts(i, k) == Len(f[i]) <= Len(f[k]) /\ \A j \in 1..Len(f[i]) : f[k][j] = f[i][j]
           W == {k \in 0..n : \A i \in 0..k : Starts(i, k)}
<1>2. n \in Nat /\ \A i \in 1..n : parts[i] \in Seq(Bytes)
  OBVIOUS
<1>3. \A i \in 0..n : f[i] \in Seq(Bytes) /\ Len(f[i]) \in Nat
  BY <1>1 DEF BufferRun
<1>4. ASSUME NEW i \in 1..n
      PROVE /\ i - 1 \in 0..n /\ i \in 0..n
            /\ Len(f[i]) = Len(f[i-1]) + Len(parts[i])
            /\ \A j \in 1..Len(f[i-1]) : f[i][j] = f[i-1][j]
            /\ \A j \in 1..Len(parts[i]) : f[i][Len(f[i-1]) + j] = parts[i][j]
  <2>1. i - 1 \in 0..n /\ i \in 0..n
    BY <1>2
  <2>2. PICK x \in Seq(Bytes), y \in Seq(Bytes) : x = f[i-1] /\ y = parts[i]
    BY <1>2, <1>3, <2>1
  <2>3. PICK z : z = x \o y
    OBVIOUS
  <2>4. f[i] = z
    BY <1>1, <2>2, <2>3 DEF BufferRun
  <2>5. Len(z) = Len(x) + Len(y)
        /\ \A j \in 1..(Len(x) + Len(y)) : z[j] = IF j <= Len(x) THEN x[j] ELSE y[j - Len(x)]
    BY <2>3, ConcatProperties
  <2>6. Len(x) \in Nat /\ Len(y) \in Nat
    OBVIOUS
  <2>7. ASSUME NEW j \in 1..Len(x) PROVE z[j] = x[j]
    <3>1. j \in 1..(Len(x) + Len(y)) /\ j <= Len(x)
      BY <2>6
    <3> QED
      BY <2>5, <3>1
  <2>8. ASSUME NEW j \in 1..Len(y) PROVE z[Len(x) + j] = y[j]
    <3>1. Len(x) + j \in 1..(Len(x) + Len(y)) /\ ~(Len(x) + j <= Len(x)) /\ (Len(x) + j) - Len(x) = j
      BY <2>6
    <3> QED
      BY <2>5, <3>1
  <2> QED
    BY <2>1, <2>2, <2>4, <2>5, <2>7, <2>8
<1>5. 0 \in W
  <2>1. 0 \in 0..n /\ Len(f[0]) \in Nat
    BY <1>2, <1>3
  <2>2. Starts(0, 0)
    BY <2>1
  <2>3. \A i \in 0..0 : i = 0
    OBVIOUS
  <2> HIDE DEF Starts
  <2> QED
    BY <2>1, <2>2, <2>3
<1>6. ASSUME NEW k \in 1..n, k - 1 \in W PROVE k \in W
  <2>1. k \in 0..n /\ k - 1 \in 0..n
    BY <1>2
  <2>2. ASSUME NEW i \in 0..k PROVE Starts(i, k)
    <3>1. CASE i = k
      BY <1>3, <2>1, <3>1
    <3>2. CASE i # k
      <4>1. i \in 0..(k-1) /\ i \in 0..n
        BY <2>1, <3>2
      <4>2. Starts(i, k - 1)
        BY <1>6, <4>1
      <4>3. Len(f[i]) \in Nat /\ Len(f[k-1]) \in Nat /\ Len(f[k]) \in Nat /\ Len(parts[k]) \in Nat
        BY <1>2, <1>3, <2>1, <4>1, SMTT(40)
      <4>4. Len(f[i]) <= Len(f[k])
        <5>1. PICK a, b, c, d \in Nat :
                a = Len(f[i]) /\ b = Len(f[k-1]) /\ c = Len(f[k]) /\ d = Len(parts[k])
          BY <4>3
        <5>2. a <= b /\ c = b + d
          BY <1>4, <4>2, <5>1
        <5>3. a <= c
          BY <5>2
        <5> QED
          BY <5>1, <5>3
      <4>5. ASSUME NEW j \in 1..Len(f[i]) PROVE f[k][j] = f[i][j]
        <5>1. j \in 1..Len(f[k-1])
          BY <4>2, <4>3
        <5> QED
          BY <1>4, <4>2, <5>1
      <4> QED
        BY <4>4, <4>5
    <3> QED
      BY <3>1, <3>2
  <2> HIDE DEF Starts
  <2> QED
    BY <2>1, <2>2
<1>7. n \in W
  <2> HIDE DEF W
  <2>1. \A k \in 0..n : k \in W
    BY <1>2, <1>5, <1>6, UpTo
  <2> QED
    BY <1>2, <2>1
<1>8. \A i \in 0..n : Starts(i, n)
  <2> HIDE DEF Starts
  <2> QED
    BY <1>7
<1>9. PICK buf : buf = Concat(parts)
  OBVIOUS
<1>10. buf = f[n] /\ buf \in Seq(Bytes) /\ Len(f[0]) = 0
  <2>1. n \in 0..n /\ f[0] = <<>>
    BY <1>1, <1>2 DEF BufferRun
  <2> QED
    BY <1>1, <1>3, <1>9, <2>1
<1>11. \A i \in 0..n : o[i] \in Nat /\ o[i] <= Len(buf)
  BY <1>3, <1>8, <1>10
<1>12. o[0] = 0 /\ o[n] = Len(buf)
  BY <1>2, <1>10
<1>13. ASSUME NEW i \in 1..n
       PROVE  /\ o[i] = o[i-1] + Len(parts[i])
              /\ \A j \in 1..Len(parts[i]) : buf[o[i-1] + j] = parts[i][j]
  <2>1. o[i] = Len(f[i]) /\ o[i-1] = Len(f[i-1])
    BY <1>4
  <2>2. ASSUME NEW j \in 1..Len(parts[i]) PROVE buf[Len(f[i-1]) + j] = parts[i][j]
    <3>0. i \in 0..n /\ i - 1 \in 0..n
      BY <1>2
    <3>1. PICK a, b \in Nat : a = Len(f[i-1]) /\ b = Len(parts[i]) /\ Len(f[i]) = a + b
      <4>1. Len(f[i-1]) \in Nat
        BY <1>3, <3>0
      <4>2. Len(parts[i]) \in Nat
        BY <1>2
      <4>3. Len(f[i]) = Len(f[i-1]) + Len(parts[i])
        BY <1>4
      <4> QED
        BY <4>1, <4>2, <4>3
    <3>2. Len(f[i-1]) + j \in 1..Len(f[i])
      <4>1. j \in 1..b
        BY <3>1
      <4>2. a + j \in 1..(a + b)
        BY <4>1
      <4> QED
        BY <3>1, <4>2
    <3>3. Starts(i, n)
      BY <1>4, <1>8
    <3>4. buf[Len(f[i-1]) + j] = f[i][Len(f[i-1]) + j]
      BY <1>10, <3>2, <3>3
    <3> QED
      BY <1>4, <3>4
  <2> HIDE DEF o
  <2> QED
    BY <1>4, <2>1, <2>2
<1>14. Places(buf, parts, o)
  <2> HIDE DEF o
  <2> QED
    BY <1>10, <1>11, <1>12, <1>13 DEF Places
<1> QED
  BY <1>9, <1>14

\* p is s after its length in w bytes.
HasPrefix(p, s, w) ==
    /\ p \in Seq(Bytes) /\ Len(p) = w + Len(s)
    /\ \A j \in 1..w : p[j] = BigEndian(Len(s), w)[j]
    /\ \A j \in 1..Len(s) : p[w + j] = s[j]

\* A string with its length.
LEMMA PrefixedHas ==
    ASSUME NEW w \in Widths, NEW s \in Seq(Bytes)
    PROVE  HasPrefix(Prefixed(s, w), s, w)
<1>1. PICK n \in Nat : n = Len(s)
  OBVIOUS
<1>2. PICK x : x = BigEndian(n, w)
  OBVIOUS
<1>3. x \in Seq(Bytes) /\ Len(x) = w
  BY <1>2, BigEndianBytes
<1>4. PICK p : p = x \o s
  OBVIOUS
<1>5. p \in Seq(Bytes) /\ Len(p) = w + n
      /\ \A j \in 1..(w + n) : p[j] = IF j <= w THEN x[j] ELSE s[j - w]
  BY <1>1, <1>3, <1>4, ConcatProperties
<1>6. w \in Nat
  BY Powers
<1>7. ASSUME NEW j \in 1..w PROVE p[j] = x[j]
  <2>1. j \in 1..(w + n) /\ j <= w
    BY <1>6
  <2> QED
    BY <1>5, <2>1
<1>8. ASSUME NEW j \in 1..n PROVE p[w + j] = s[j]
  <2>1. w + j \in 1..(w + n) /\ ~(w + j <= w) /\ (w + j) - w = j
    BY <1>6
  <2> QED
    BY <1>5, <2>1
<1> QED
  BY <1>1, <1>2, <1>4, <1>5, <1>7, <1>8 DEF HasPrefix, Prefixed

\* The parts of an encoding: the strings, then the numbers.
LEMMA FieldsAre ==
    ASSUME NEW ss \in Seq(Seq(Bytes)), NEW ns \in Seq(Int)
    PROVE  /\ Fields(ss, ns) \in Seq(Seq(Bytes)) /\ Len(Fields(ss, ns)) = Len(ss) + Len(ns)
           /\ \A i \in 1..Len(ss) : Fields(ss, ns)[i] = Put(ss[i])
           /\ \A i \in 1..Len(ns) : Fields(ss, ns)[Len(ss) + i] = BigEndian(ns[i], NumberSize)
<1>0. NumberSize \in Widths /\ StringSize \in Widths
  BY DEF Widths
<1>1. PICK a, b \in Nat : a = Len(ss) /\ b = Len(ns)
  OBVIOUS
<1>2. PICK x : x = [i \in 1..a |-> Put(ss[i])]
  OBVIOUS
<1>3. PICK y : y = [i \in 1..b |-> BigEndian(ns[i], NumberSize)]
  OBVIOUS
<1>4. x \in Seq(Seq(Bytes)) /\ Len(x) = a
  <2>1. ASSUME NEW i \in 1..a PROVE Put(ss[i]) \in Seq(Bytes)
    <3>1. PICK s \in Seq(Bytes) : s = ss[i]
      BY <1>1
    <3>2. HasPrefix(Prefixed(s, StringSize), s, StringSize)
      BY <1>0, PrefixedHas
    <3> QED
      BY <3>1, <3>2 DEF HasPrefix, Put
  <2>2. x \in [1..a -> Seq(Bytes)]
    BY <1>2, <2>1
  <2> QED
    BY <2>2
<1>5. y \in Seq(Seq(Bytes)) /\ Len(y) = b
  <2>1. ASSUME NEW i \in 1..b PROVE BigEndian(ns[i], NumberSize) \in Seq(Bytes)
    <3>1. PICK n \in Int : n = ns[i]
      BY <1>1
    <3> QED
      BY <1>0, <3>1, BigEndianBytes
  <2>2. y \in [1..b -> Seq(Bytes)]
    BY <1>3, <2>1
  <2> QED
    BY <2>2
<1>6. PICK z : z = x \o y
  OBVIOUS
<1>7. z \in Seq(Seq(Bytes)) /\ Len(z) = a + b
      /\ \A i \in 1..(a + b) : z[i] = IF i <= a THEN x[i] ELSE y[i - a]
  BY <1>4, <1>5, <1>6, ConcatProperties, ZenonT(60)
<1>8. ASSUME NEW i \in 1..a PROVE z[i] = Put(ss[i])
  <2>1. i \in 1..(a + b) /\ i <= a
    OBVIOUS
  <2>2. z[i] = x[i]
    BY <1>7, <2>1
  <2> QED
    BY <1>2, <2>2
<1>9. ASSUME NEW i \in 1..b PROVE z[a + i] = BigEndian(ns[i], NumberSize)
  <2>1. a + i \in 1..(a + b) /\ ~(a + i <= a) /\ (a + i) - a = i
    OBVIOUS
  <2>2. z[a + i] = y[i]
    BY <1>7, <2>1
  <2> QED
    BY <1>3, <2>2
<1>10. z = Fields(ss, ns)
  BY <1>1, <1>2, <1>3, <1>6 DEF Fields
<1> QED
  BY <1>1, <1>7, <1>8, <1>9, <1>10
-----------------------------------------------------------------------------
(* The encoding: the reader. *)

\* A reader that has not failed, one that has, and the readers there are.
Reading(x, y) == [ok |-> TRUE, rest |-> x, read |-> y]
Failed(x, y) == [ok |-> FALSE, rest |-> x, read |-> y]
ReadValues == Seq(Bytes) \cup Nat
Readers == [ok : BOOLEAN, rest : Seq(Bytes), read : Seq(ReadValues)]

\* What Take makes of a reader.
LEMMA TakesEnough ==
    ASSUME NEW x, NEW y, NEW n, NEW v, n <= Len(x)
    PROVE  Take(Reading(x, y), n, v) =
             Reading(SubSeq(x, n + 1, Len(x)), Append(y, v))
BY DEF Take, Reading, Failed

LEMMA TakesTooMuch ==
    ASSUME NEW x, NEW y, NEW n, NEW v, ~(n <= Len(x))
    PROVE  Take(Reading(x, y), n, v) = Failed(x, y)
BY DEF Take, Reading, Failed

LEMMA TakesNothing ==
    ASSUME NEW x, NEW y, NEW n, NEW v
    PROVE  Take(Failed(x, y), n, v) = Failed(x, y)
BY DEF Take, Reading, Failed

\* What get and binary.Read make of it.
LEMMA GetsTooShort ==
    ASSUME NEW x, NEW y, Len(x) < StringSize
    PROVE  Get(Reading(x, y)) = Failed(x, y)
BY DEF Get, Reading, Failed

LEMMA GetsString ==
    ASSUME NEW x, NEW y, NEW n, NEW v, ~(Len(x) < StringSize),
           n = StringSize + Number(SubSeq(x, 1, StringSize)),
           v = SubSeq(x, StringSize + 1, n)
    PROVE  Get(Reading(x, y)) = Take(Reading(x, y), n, v)
<1>1. PICK r : r = Reading(x, y)
  OBVIOUS
<1>2. r.rest = x
  BY <1>1 DEF Reading, Failed
<1>3. Get(r) = Take(r, n, v)
  BY <1>2 DEF Get
<1> QED
  BY <1>1, <1>3

LEMMA GetsNumber ==
    ASSUME NEW x, NEW y, NEW v, v = Number(SubSeq(x, 1, NumberSize))
    PROVE  GetNumber(Reading(x, y)) = Take(Reading(x, y), NumberSize, v)
<1>1. PICK r : r = Reading(x, y)
  OBVIOUS
<1>2. r.rest = x
  BY <1>1 DEF Reading, Failed
<1>3. GetNumber(r) = Take(r, NumberSize, v)
  BY <1>2 DEF GetNumber
<1> QED
  BY <1>1, <1>3

\* A failed reader stays as it is.
LEMMA GetsNothing ==
    ASSUME NEW x, NEW y
    PROVE  /\ Get(Failed(x, y)) = Failed(x, y)
           /\ GetNumber(Failed(x, y)) = Failed(x, y)
<1>1. PICK r : r = Failed(x, y)
  OBVIOUS
<1>2. r.rest = x
  BY <1>1 DEF Reading, Failed
<1>3. Get(r) = r
  <2>1. CASE Len(x) < StringSize
    <3>1. Get(Failed(x, y)) = Failed(x, y)
      BY <2>1 DEF Get, Reading, Failed
    <3> QED
      BY <1>1, <3>1
  <2>2. CASE ~(Len(x) < StringSize)
    <3>1. PICK n, v : /\ n = StringSize + Number(SubSeq(x, 1, StringSize))
                      /\ v = SubSeq(x, StringSize + 1, n)
      OBVIOUS
    <3>2. Get(r) = Take(r, n, v)
      BY <1>2, <2>2, <3>1 DEF Get
    <3> QED
      BY <1>1, <3>2, TakesNothing
  <2> QED
    BY <2>1, <2>2
<1>4. GetNumber(r) = r
  <2>1. PICK v : v = Number(SubSeq(x, 1, NumberSize))
    OBVIOUS
  <2>2. GetNumber(r) = Take(r, NumberSize, v)
    BY <1>2, <2>1 DEF GetNumber
  <2> QED
    BY <1>1, <2>2, TakesNothing
<1> QED
  BY <1>1, <1>3, <1>4

\* A reader has one of the two forms.
LEMMA ReaderForms ==
    ASSUME NEW r \in Readers
    PROVE  \E x \in Seq(Bytes), y \in Seq(ReadValues) :
             r = Reading(x, y) \/ r = Failed(x, y)
<1>1. PICK x \in Seq(Bytes), y \in Seq(ReadValues), b \in BOOLEAN : r = [ok |-> b, rest |-> x, read |-> y]
  BY DEF Readers, Reading, Failed
<1>2. b = TRUE \/ b = FALSE
  OBVIOUS
<1> QED
  BY <1>1, <1>2 DEF Reading, Failed

\* Reading from a reader gives a reader.
LEMMA ReadersStay ==
    ASSUME NEW r \in Readers
    PROVE  Get(r) \in Readers /\ GetNumber(r) \in Readers
<1>0. StringSize \in Nat /\ NumberSize \in Nat
  BY WireAssumption DEF Widths
<1>1. PICK x \in Seq(Bytes), y \in Seq(ReadValues) :
        r = Reading(x, y) \/ r = Failed(x, y)
  BY ReaderForms
<1>2. Failed(x, y) \in Readers
  BY DEF Reading, Failed, Readers
<1>3. ASSUME NEW n \in Nat, NEW v, n <= Len(x) => v \in ReadValues
      PROVE Take(Reading(x, y), n, v) \in Readers
  <2>1. CASE n <= Len(x)
    <3>1. PICK z : z = SubSeq(x, n + 1, Len(x))
      OBVIOUS
    <3>2. z \in Seq(Bytes)
      BY <3>1
    <3>3. PICK u : u = Append(y, v)
      OBVIOUS
    <3>4. u \in Seq(ReadValues)
      BY <1>3, <2>1, <3>3, Appended
    <3>5. Take(Reading(x, y), n, v) = Reading(z, u)
      <4>1. Take(Reading(x, y), n, v) =
              Reading(SubSeq(x, n + 1, Len(x)), Append(y, v))
        BY <2>1, TakesEnough
      <4> QED
        BY <3>1, <3>3, <4>1, Zenon
    <3>6. Reading(z, u) \in Readers
      BY <3>2, <3>4 DEF Reading, Failed, Readers
    <3> QED
      BY <3>5, <3>6
  <2>2. CASE ~(n <= Len(x))
    BY <1>2, <2>2, TakesTooMuch
  <2> QED
    BY <2>1, <2>2
<1>4. GetNumber(Reading(x, y)) \in Readers
  <2>1. PICK s : s = SubSeq(x, 1, NumberSize)
    OBVIOUS
  <2>2. PICK v : v = Number(s)
    OBVIOUS
  <2>3. ASSUME NumberSize <= Len(x) PROVE v \in ReadValues
    <3>1. s \in Seq(Bytes)
      BY <1>0, <2>1, <2>3
    <3> QED
      BY <2>2, <3>1, NumberIsNat DEF ReadValues
  <2>4. GetNumber(Reading(x, y)) = Take(Reading(x, y), NumberSize, v)
    BY <2>1, <2>2, GetsNumber
  <2>5. Take(Reading(x, y), NumberSize, v) \in Readers
    BY <1>0, <1>3, <2>3
  <2> QED
    BY <2>4, <2>5
<1>5. Get(Reading(x, y)) \in Readers
  <2>1. CASE Len(x) < StringSize
    BY <1>2, <2>1, GetsTooShort
  <2>2. CASE ~(Len(x) < StringSize)
    <3>1. PICK s : s = SubSeq(x, 1, StringSize)
      OBVIOUS
    <3>2. s \in Seq(Bytes)
      BY <1>0, <2>2, <3>1
    <3>3. PICK n \in Nat : n = StringSize + Number(s)
      BY <1>0, <3>2, NumberIsNat
    <3>4. PICK v : v = SubSeq(x, StringSize + 1, n)
      OBVIOUS
    <3>5. Get(Reading(x, y)) = Take(Reading(x, y), n, v)
      BY <2>2, <3>1, <3>3, <3>4, GetsString
    <3>6. ASSUME n <= Len(x) PROVE v \in ReadValues
      <4>1. v \in Seq(Bytes)
        BY <1>0, <3>4, <3>6
      <4> QED
        BY <4>1 DEF ReadValues
    <3>7. Take(Reading(x, y), n, v) \in Readers
      BY <1>3, <3>6
    <3> QED
      BY <3>5, <3>7
  <2> QED
    BY <2>1, <2>2
<1> QED
  BY <1>1, <1>2, <1>4, <1>5, GetsNothing

\* The rounds of DecodeTx.
DecodeRun(f, data) ==
    /\ f = [i \in 0..11 |-> f[i]] /\ f[0] = Reading(data, <<>>)
    /\ \A i \in 1..6 : f[i] = Get(f[i-1])
    /\ \A i \in 7..11 : f[i] = GetNumber(f[i-1])

\* What a decoder that has read vals returns.
Decoded(vals) ==
    [strings |-> SubSeq(vals, 1, 6),
     numbers |-> <<SubSeq(vals, 7, 11)[1], SubSeq(vals, 7, 11)[2], SubSeq(vals, 7, 11)[3],
                   Signed(SubSeq(vals, 7, 11)[4]), SubSeq(vals, 7, 11)[5] % Base^CountSize>>]

\* DecodeTx goes through them and returns the last.
LEMMA DecodeRuns ==
    ASSUME NEW data \in Seq(Bytes)
    PROVE  \E f : /\ DecodeRun(f, data)
                  /\ f[11].ok /\ CheckBytes(data) => DecodeTx(data) = {Decoded(f[11].read)}
                  /\ ~f[11].ok => DecodeTx(data) = {}
<1> DEFINE S == Readers
           g == [i \in 1..11 |-> [r \in S |-> IF i <= 6 THEN Get(r) ELSE GetNumber(r)]]
           F(f) == [i \in 0..11 |-> IF i = 0 THEN Reader(data)
                                    ELSE IF i <= 6 THEN Get(f[i-1]) ELSE GetNumber(f[i-1])]
           f1 == CHOOSE f : f = F(f)
<1>1. Reader(data) = Reading(data, <<>>) /\ Reader(data) \in S
  BY DEF Reader, Reading, Failed, Readers
<1>2. ASSUME NEW i \in 1..11 PROVE g[i] \in [S -> S]
  <2>1. \A r \in S : (IF i <= 6 THEN Get(r) ELSE GetNumber(r)) \in S
    BY ReadersStay
  <2>2. [r \in S |-> IF i <= 6 THEN Get(r) ELSE GetNumber(r)] \in [S -> S]
    <3> HIDE DEF S
    <3> QED
      BY <2>1
  <2> QED
    BY <2>2
<1>3. g \in [1..11 -> [S -> S]]
  BY <1>2
<1>5. PICK f : Rounds(f, 11, Reader(data), g) /\ \A i \in 0..11 : f[i] \in S
  <2> HIDE DEF g, S
  <2> QED
    BY <1>1, <1>3, RoundsExist
<1>6. f = F(f)
  <2>1. f = [i \in 0..11 |-> f[i]] /\ f[0] = Reader(data) /\ \A i \in 1..11 : f[i] = g[i][f[i-1]]
    BY <1>5 DEF Rounds
  <2>2. ASSUME NEW i \in 0..11
        PROVE  f[i] = IF i = 0 THEN Reader(data)
                      ELSE IF i <= 6 THEN Get(f[i-1]) ELSE GetNumber(f[i-1])
    <3>1. CASE i = 0
      BY <2>1, <3>1
    <3>2. CASE i # 0
      <4>1. i \in 1..11 /\ i - 1 \in 0..11
        BY <3>2
      <4>2. f[i-1] \in S /\ f[i] = g[i][f[i-1]]
        BY <1>5, <2>1, <4>1
      <4> HIDE DEF S
      <4>3. f[i] = IF i <= 6 THEN Get(f[i-1]) ELSE GetNumber(f[i-1])
        BY <4>1, <4>2
      <4> QED
        BY <3>2, <4>3
    <3> QED
      BY <3>1, <3>2
  <2> QED
    BY <2>1, <2>2
<1>7. f1 = F(f1)
  <2> HIDE DEF F
  <2> QED
    BY <1>6
<1>8. DecodeTx(data) = IF CheckBytes(data) /\ f1[11].ok THEN {Decoded(f1[11].read)} ELSE {}
  BY DEF DecodeTx, Decoded
<1> HIDE DEF f1
<1>9. f1 = [i \in 0..11 |-> f1[i]] /\ f1[0] = Reader(data)
  BY <1>7
<1>10. ASSUME NEW i \in 1..6 PROVE f1[i] = Get(f1[i-1])
  <2>1. i \in 0..11 /\ i # 0 /\ i <= 6
    OBVIOUS
  <2> QED
    BY <1>7, <2>1
<1>11. ASSUME NEW i \in 7..11 PROVE f1[i] = GetNumber(f1[i-1])
  <2>1. i \in 0..11 /\ i # 0 /\ ~(i <= 6)
    OBVIOUS
  <2> QED
    BY <1>7, <2>1
<1>12. DecodeRun(f1, data)
  BY <1>1, <1>9, <1>10, <1>11 DEF DecodeRun
<1>13. /\ f1[11].ok /\ CheckBytes(data) => DecodeTx(data) = {Decoded(f1[11].read)}
       /\ ~f1[11].ok => DecodeTx(data) = {}
  BY <1>8
<1> QED
  BY <1>12, <1>13

\* A part of a sequence.
LEMMA Cut ==
    ASSUME NEW S, NEW b \in Seq(S), NEW a \in Nat, NEW m \in Nat, a <= m, m <= Len(b)
    PROVE  /\ SubSeq(b, a + 1, m) \in Seq(S) /\ Len(SubSeq(b, a + 1, m)) = m - a
           /\ \A j \in 1..(m - a) : SubSeq(b, a + 1, m)[j] = b[a + j]
<1>1. PICK x : x = SubSeq(b, a + 1, m)
  OBVIOUS
<1>2. x = [j \in 1..(m - a) |-> b[a + j]]
  <2>1. x = [j \in 1..(m - (a + 1) + 1) |-> b[j + (a + 1) - 1]]
    BY <1>1
  <2>2. m - (a + 1) + 1 = m - a /\ \A j \in 1..(m - a) : j + (a + 1) - 1 = a + j
    OBVIOUS
  <2> QED
    BY <2>1, <2>2
<1>3. ASSUME NEW j \in 1..(m - a) PROVE b[a + j] \in S
  <2>1. a + j \in 1..Len(b)
    OBVIOUS
  <2> QED
    BY <2>1
<1>4. m - a \in Nat
  OBVIOUS
<1>5. x \in Seq(S) /\ Len(x) = m - a
  <2>1. x \in [1..(m - a) -> S]
    BY <1>2, <1>3
  <2> QED
    BY <1>4, <2>1
<1> QED
  BY <1>1, <1>2, <1>5

\* An element of a sequence, and a sequence given by its elements.
LEMMA ElementOf ==
    ASSUME NEW S, NEW n, NEW x \in Seq(S), Len(x) = n, NEW i \in 1..n
    PROVE  x[i] \in S
OBVIOUS

LEMMA IsSeq ==
    ASSUME NEW S, NEW n \in Nat, NEW x, x = [i \in 1..n |-> x[i]], \A i \in 1..n : x[i] \in S
    PROVE  x \in Seq(S) /\ Len(x) = n
<1>1. x \in [1..n -> S]
  OBVIOUS
<1> QED
  BY <1>1

\* Two sequences with the same elements are the same.
LEMMA SameSeq ==
    ASSUME NEW S, NEW x \in Seq(S), NEW y \in Seq(S), NEW n \in Nat,
           Len(x) = n, Len(y) = n, \A j \in 1..n : x[j] = y[j]
    PROVE  x = y
OBVIOUS

\* What is left of a part.
LEMMA CutAgain ==
    ASSUME NEW S, NEW b \in Seq(S), NEW a \in Nat, NEW m \in Nat, NEW n \in Nat, NEW k \in Nat,
           a + n <= k, k <= m, m <= Len(b)
    PROVE  SubSeq(SubSeq(b, a + 1, m), n + 1, k - a) = SubSeq(b, (a + n) + 1, k)
<1>1. PICK x : x = SubSeq(b, a + 1, m)
  OBVIOUS
<1>2. x \in Seq(S) /\ Len(x) = m - a /\ \A j \in 1..(m - a) : x[j] = b[a + j]
  BY <1>1, Cut
<1>3. PICK l \in Nat : l = k - a
  OBVIOUS
<1>4. n <= l /\ l <= Len(x)
  BY <1>2, <1>3
<1>5. PICK z : z = SubSeq(x, n + 1, l)
  OBVIOUS
<1>6. z \in Seq(S) /\ Len(z) = l - n /\ \A j \in 1..(l - n) : z[j] = x[n + j]
  BY <1>2, <1>4, <1>5, Cut
<1>7. PICK c \in Nat : c = a + n
  OBVIOUS
<1>8. PICK u : u = SubSeq(b, c + 1, k)
  OBVIOUS
<1>9. u \in Seq(S) /\ Len(u) = k - c /\ \A j \in 1..(k - c) : u[j] = b[c + j]
  <2>1. c <= k /\ k <= Len(b)
    BY <1>7
  <2> QED
    BY <1>8, <2>1, Cut
<1>10. k - c = l - n /\ l - n \in Nat
  BY <1>3, <1>7
<1>11. ASSUME NEW j \in 1..(l - n) PROVE z[j] = u[j]
  <2>1. n + j \in 1..(m - a) /\ a + (n + j) = c + j /\ j \in 1..(k - c)
    BY <1>3, <1>7, <1>10
  <2> QED
    BY <1>2, <1>6, <1>9, <2>1
<1>12. PICK d \in Nat : d = l - n
  BY <1>10
<1>13. z = u
  <2>1. Len(z) = d /\ Len(u) = d /\ \A j \in 1..d : z[j] = u[j]
    BY <1>6, <1>9, <1>10, <1>11, <1>12
  <2> QED
    BY <1>6, <1>9, <2>1, SameSeq, ZenonT(60)
<1> QED
  BY <1>1, <1>3, <1>5, <1>7, <1>8, <1>13

\* p is in buf between a and e, and of buf there are m bytes, more than a.
PartAt(buf, m, a, p, e) ==
    /\ buf \in Seq(Bytes) /\ m \in Nat /\ m <= Len(buf) /\ a \in Nat /\ a <= m
    /\ p \in Seq(Bytes) /\ e \in Nat /\ e = a + Len(p) /\ e <= Len(buf)
    /\ \A j \in 1..Len(p) : buf[a + j] = p[j]

\* r is the reader after v, which is in buf between a and e, was to be read.
AfterRead(r, buf, m, a, e, y, v) ==
    /\ e <= m => r = Reading(SubSeq(buf, e + 1, m), Append(y, v))
    /\ m < e => r = Failed(SubSeq(buf, a + 1, m), y)

\* get reads the string that was put at place a of buf, if all of it is there.
LEMMA StringStep ==
    ASSUME NEW buf \in Seq(Bytes), NEW m \in Nat, NEW a \in Nat, NEW p \in Seq(Bytes),
           NEW e \in Nat, PartAt(buf, m, a, p, e),
           NEW s \in Seq(Bytes), NEW y, Puttable(s), HasPrefix(p, s, StringSize)
    PROVE  AfterRead(Get(Reading(SubSeq(buf, a + 1, m), y)), buf, m, a, e, y, s)
<1>a. /\ buf \in Seq(Bytes) /\ m \in Nat /\ m <= Len(buf) /\ a \in Nat /\ a <= m
      /\ p \in Seq(Bytes) /\ e \in Nat /\ e = a + Len(p) /\ e <= Len(buf)
      /\ \A j \in 1..Len(p) : buf[a + j] = p[j]
  BY DEF PartAt
<1> USE <1>a
<1>0. StringSize \in Widths /\ StringSize \in Nat \ {0}
  BY WireAssumption DEF Widths
<1>1. PICK x : x = SubSeq(buf, a + 1, m)
  OBVIOUS
<1>2. x \in Seq(Bytes) /\ Len(x) = m - a /\ \A j \in 1..(m - a) : x[j] = buf[a + j]
  BY <1>1, Cut
<1>3. PICK w \in Nat \ {0}, k \in Nat : w = StringSize /\ k = Len(s)
  BY <1>0
<1>4. /\ p \in Seq(Bytes) /\ Len(p) = w + k
      /\ \A j \in 1..w : p[j] = BigEndian(k, w)[j]
      /\ \A j \in 1..k : p[w + j] = s[j]
  BY <1>3 DEF HasPrefix
<1>5. e = a + (w + k)
  BY <1>4
<1> DEFINE Then == /\ e <= m => Get(Reading(x, y)) = Reading(SubSeq(buf, e + 1, m), Append(y, s))
                   /\ m < e => Get(Reading(x, y)) = Failed(x, y)
<1>6. CASE m - a < w
  <2>1. Get(Reading(x, y)) = Failed(x, y)
    BY <1>2, <1>3, <1>6, GetsTooShort
  <2>2. ~(e <= m)
    BY <1>5, <1>6
  <2>3. Then
    BY <2>1, <2>2
  <2> QED
    BY <1>1, <2>3 DEF AfterRead
<1>7. CASE ~(m - a < w)
  <2>1. PICK h : h = SubSeq(x, 0 + 1, w)
    OBVIOUS
  <2>2. h \in Seq(Bytes) /\ Len(h) = w - 0 /\ \A j \in 1..(w - 0) : h[j] = x[0 + j]
    <3>1. 0 <= w /\ w <= Len(x)
      BY <1>2, <1>7
    <3> QED
      BY <1>2, <2>1, <3>1, Cut, SMTT(40)
  <2>3. PICK q : q = BigEndian(k, w)
    OBVIOUS
  <2>4. q \in Seq(Bytes) /\ Len(q) = w
    BY <1>0, <1>3, <2>3, BigEndianBytes
  <2>5. ASSUME NEW j \in 1..w PROVE h[j] = q[j]
    <3>1. j \in 1..(w - 0) /\ 0 + j = j /\ j \in 1..(m - a) /\ j \in 1..Len(p)
      BY <1>4, <1>7
    <3>2. h[j] = x[j] /\ x[j] = buf[a + j] /\ buf[a + j] = p[j] /\ p[j] = q[j]
      BY <1>2, <1>4, <2>2, <2>3, <3>1
    <3> QED
      BY <3>2
  <2>6. h = q
    <3>1. w - 0 = w
      OBVIOUS
    <3> QED
      BY <2>2, <2>4, <2>5, <3>1, SameSeq
  <2>7. Number(h) = k
    <3>1. k < Base^StringSize
      BY <1>3 DEF Puttable
    <3> QED
      BY <1>0, <1>3, <2>3, <2>6, <3>1, FitsIsRead
  <2>8. PICK n \in Nat : n = w + k
    OBVIOUS
  <2>9. PICK v : v = SubSeq(x, w + 1, n)
    OBVIOUS
  <2>10. Get(Reading(x, y)) = Take(Reading(x, y), n, v)
    <3>1. h = SubSeq(x, 1, w)
      BY <2>1
    <3>2. n = StringSize + Number(SubSeq(x, 1, StringSize)) /\ v = SubSeq(x, StringSize + 1, n)
      BY <1>3, <2>7, <2>8, <2>9, <3>1
    <3>3. ~(Len(x) < StringSize)
      BY <1>2, <1>3, <1>7
    <3> QED
      BY <3>2, <3>3, GetsString
  <2>11. ASSUME e <= m PROVE Get(Reading(x, y)) = Reading(SubSeq(buf, e + 1, m), Append(y, s))
    <3>1. n <= Len(x) /\ w <= n /\ a + n = e
      <4>1. a + n = e
        BY <1>5, <2>8
      <4>2. n <= m - a /\ w <= n
        BY <2>8, <2>11, <4>1
      <4> QED
        BY <1>2, <4>1, <4>2
    <3>2. v \in Seq(Bytes) /\ Len(v) = n - w /\ \A j \in 1..(n - w) : v[j] = x[w + j]
      BY <1>2, <2>9, <3>1, Cut, SMTT(40)
    <3>3. n - w = k
      BY <2>8
    <3>4. ASSUME NEW j \in 1..k PROVE v[j] = s[j]
      <4>1. w + j \in 1..(m - a) /\ w + j \in 1..Len(p) /\ j \in 1..(n - w)
        BY <1>2, <1>4, <2>8, <3>1
      <4>2. v[j] = x[w + j] /\ x[w + j] = buf[a + (w + j)] /\ buf[a + (w + j)] = p[w + j]
            /\ p[w + j] = s[j]
        BY <1>2, <1>4, <3>2, <4>1
      <4> QED
        BY <4>2
    <3>5. v = s
      <4>1. Len(v) = k /\ Len(s) = k
        BY <1>3, <3>2, <3>3
      <4> QED
        BY <3>2, <3>4, <4>1, SameSeq, SMTT(40)
    <3>6. SubSeq(x, n + 1, Len(x)) = SubSeq(buf, e + 1, m)
      <4>1. a + n <= m /\ m <= m
        BY <2>11, <3>1
      <4>2. SubSeq(SubSeq(buf, a + 1, m), n + 1, m - a) = SubSeq(buf, (a + n) + 1, m)
        BY <4>1, CutAgain
      <4> QED
        BY <1>1, <1>2, <3>1, <4>2
    <3>7. Take(Reading(x, y), n, v) = Reading(SubSeq(x, n + 1, Len(x)), Append(y, v))
      BY <3>1, TakesEnough
    <3> QED
      BY <2>10, <3>5, <3>6, <3>7
  <2>12. ASSUME m < e PROVE Get(Reading(x, y)) = Failed(x, y)
    <3>1. ~(n <= Len(x))
      BY <1>2, <1>5, <2>8, <2>12, SMTT(40)
    <3>2. Take(Reading(x, y), n, v) = Failed(x, y)
      BY <3>1, TakesTooMuch
    <3> QED
      BY <2>10, <3>2
  <2> QED
    BY <1>1, <2>11, <2>12 DEF AfterRead
<1> QED
  BY <1>6, <1>7

\* binary.Read reads the number that was written at place a of buf.
LEMMA NumberStep ==
    ASSUME NEW buf \in Seq(Bytes), NEW m \in Nat, NEW a \in Nat, NEW q \in Seq(Bytes),
           NEW e \in Nat, PartAt(buf, m, a, q, e),
           NEW y, Len(q) = NumberSize
    PROVE  AfterRead(GetNumber(Reading(SubSeq(buf, a + 1, m), y)), buf, m, a, e, y, Number(q))
<1>a. /\ buf \in Seq(Bytes) /\ m \in Nat /\ m <= Len(buf) /\ a \in Nat /\ a <= m
      /\ q \in Seq(Bytes) /\ e \in Nat /\ e = a + Len(q) /\ e <= Len(buf)
      /\ \A j \in 1..Len(q) : buf[a + j] = q[j]
  BY DEF PartAt
<1> USE <1>a
<1>1. PICK x : x = SubSeq(buf, a + 1, m)
  OBVIOUS
<1>2. x \in Seq(Bytes) /\ Len(x) = m - a /\ \A j \in 1..(m - a) : x[j] = buf[a + j]
  BY <1>1, Cut
<1>3. PICK w \in Nat : w = NumberSize
  OBVIOUS
<1>4. PICK v : v = Number(SubSeq(x, 1, NumberSize))
  OBVIOUS
<1>5. GetNumber(Reading(x, y)) = Take(Reading(x, y), NumberSize, v)
  BY <1>4, GetsNumber
<1>6. ASSUME e <= m
      PROVE GetNumber(Reading(x, y)) = Reading(SubSeq(buf, e + 1, m), Append(y, Number(q)))
  <2>0. w <= Len(x) /\ a + w = e
    BY <1>2, <1>3, <1>6
  <2>1. PICK h : h = SubSeq(x, 0 + 1, w)
    OBVIOUS
  <2>2. h \in Seq(Bytes) /\ Len(h) = w - 0 /\ \A j \in 1..(w - 0) : h[j] = x[0 + j]
    BY <1>2, <2>0, <2>1, Cut, SMTT(40)
  <2>3. ASSUME NEW j \in 1..w PROVE h[j] = q[j]
    <3>1. j \in 1..(w - 0) /\ 0 + j = j /\ j \in 1..(m - a) /\ j \in 1..Len(q)
      BY <1>2, <1>3, <2>0
    <3>2. h[j] = x[j] /\ x[j] = buf[a + j] /\ buf[a + j] = q[j]
      BY <1>2, <2>2, <3>1
    <3> QED
      BY <3>2
  <2>4. h = q
    <3>1. w - 0 = w
      OBVIOUS
    <3> QED
      BY <1>3, <2>2, <2>3, <3>1, SameSeq, ZenonT(60)
  <2>5. v = Number(q)
    <3>1. h = SubSeq(x, 1, NumberSize)
      BY <1>3, <2>1
    <3> QED
      BY <1>4, <2>4, <3>1
  <2>6. SubSeq(x, w + 1, Len(x)) = SubSeq(buf, e + 1, m)
    <3>1. a + w <= m
      BY <1>6, <2>0
    <3>2. SubSeq(SubSeq(buf, a + 1, m), w + 1, m - a) = SubSeq(buf, (a + w) + 1, m)
      BY <3>1, CutAgain
    <3> QED
      BY <1>1, <1>2, <2>0, <3>2
  <2>7. Take(Reading(x, y), w, v) = Reading(SubSeq(x, w + 1, Len(x)), Append(y, v))
    BY <2>0, TakesEnough
  <2> QED
    BY <1>3, <1>5, <2>5, <2>6, <2>7
<1>7. ASSUME m < e PROVE GetNumber(Reading(x, y)) = Failed(x, y)
  <2>1. ~(w <= Len(x))
    BY <1>2, <1>3, <1>7
  <2>2. Take(Reading(x, y), w, v) = Failed(x, y)
    BY <2>1, TakesTooMuch
  <2> QED
    BY <1>3, <1>5, <2>2
<1> QED
  BY <1>1, <1>6, <1>7 DEF AfterRead

\* What DecodeTx reads of t.
TxValues(t) ==
    [i \in 1..11 |-> IF i <= 6 THEN t.strings[i]
                     ELSE Number(BigEndian(t.numbers[i - 6], NumberSize))]

\* It makes t of them.
LEMMA ValuesDecode ==
    ASSUME NEW t, IsTx(t)
    PROVE  TxValues(t) \in Seq(ReadValues) /\ Len(TxValues(t)) = 11 /\ Decoded(TxValues(t)) = t
<1>0. NumberSize \in Widths
  BY DEF Widths
<1>1. PICK ss, ns : ss = t.strings /\ ns = t.numbers /\ t = [strings |-> ss, numbers |-> ns]
  BY DEF IsTx
<1>2. /\ ss \in Seq(Seq(Bytes)) /\ Len(ss) = 6 /\ ns \in Seq(Int) /\ Len(ns) = 5
      /\ \A i \in 1..3 : Unsigned(ns[i])
      /\ IsSigned(ns[4]) /\ Short(ns[5])
  BY <1>1 DEF IsTx
<1>3. PICK vals : vals = TxValues(t)
  OBVIOUS
<1>4. ASSUME NEW i \in 1..6 PROVE vals[i] = ss[i] /\ ss[i] \in Seq(Bytes)
  <2>1. i \in 1..11 /\ i <= 6
    OBVIOUS
  <2>2. vals[i] = ss[i]
    BY <1>1, <1>3, <2>1 DEF TxValues
  <2>3. ss[i] \in Seq(Bytes)
    BY <1>2, ElementOf, Zenon
  <2> QED
    BY <2>2, <2>3
<1>5. ASSUME NEW i \in 1..5
      PROVE  vals[6 + i] = Number(BigEndian(ns[i], NumberSize)) /\ vals[6 + i] \in Nat
  <2>1. 6 + i \in 1..11 /\ ~(6 + i <= 6) /\ (6 + i) - 6 = i
    OBVIOUS
  <2>2. vals[6 + i] = Number(BigEndian(ns[i], NumberSize))
    BY <1>1, <1>3, <2>1 DEF TxValues
  <2>3. PICK n \in Int : n = ns[i]
    <3>1. ns[i] \in Int
      BY <1>2, ElementOf, Zenon
    <3> QED
      BY <3>1
  <2>4. BigEndian(n, NumberSize) \in Seq(Bytes)
    BY <1>0, BigEndianBytes
  <2> QED
    BY <2>2, <2>3, <2>4, NumberIsNat
<1>6. vals \in Seq(ReadValues) /\ Len(vals) = 11
  <2>1. ASSUME NEW i \in 1..11 PROVE vals[i] \in ReadValues
    <3>1. CASE i <= 6
      BY <1>4, <3>1, SMTT(40) DEF ReadValues
    <3>2. CASE ~(i <= 6)
      <4>1. PICK k \in 1..5 : i = 6 + k
        <5>1. i - 6 \in 1..5 /\ i = 6 + (i - 6)
          BY <3>2
        <5> QED
          BY <5>1
      <4> QED
        BY <1>5, <4>1 DEF ReadValues
    <3> QED
      BY <3>1, <3>2
  <2>2. vals = [i \in 1..11 |-> vals[i]]
    BY <1>3 DEF TxValues
  <2>3. 11 \in Nat
    OBVIOUS
  <2> QED
    <3>1. \A i \in 1..11 : vals[i] \in ReadValues
      BY <2>1
    <3> QED
      BY <2>2, <2>3, <3>1, IsSeq
<1>7. SubSeq(vals, 1, 6) = ss
  <2>1. PICK x : x = SubSeq(vals, 0 + 1, 6)
    OBVIOUS
  <2>2. x \in Seq(ReadValues) /\ Len(x) = 6 - 0 /\ \A j \in 1..(6 - 0) : x[j] = vals[0 + j]
    <3>1. 0 \in Nat /\ 6 \in Nat /\ 0 <= 6 /\ 6 <= Len(vals)
      BY <1>6
    <3> QED
      BY <1>6, <2>1, <3>1, Cut, ZenonT(60)
  <2>3. Len(x) = 6 /\ \A j \in 1..6 : x[j] = ss[j]
    <3>1. Len(x) = 6
      BY <2>2
    <3>2. ASSUME NEW j \in 1..6 PROVE x[j] = ss[j]
      <4>1. j \in 1..(6 - 0) /\ 0 + j = j
        OBVIOUS
      <4> QED
        BY <1>4, <2>2, <4>1
    <3> QED
      BY <3>1, <3>2
  <2>4. ss \in Seq(ReadValues)
    <3>1. ss = [i \in 1..6 |-> ss[i]]
      BY <1>2
    <3>2. \A i \in 1..6 : ss[i] \in ReadValues
      BY <1>4 DEF ReadValues
    <3>3. 6 \in Nat
      OBVIOUS
    <3> QED
      BY <3>1, <3>2, <3>3, IsSeq, Zenon
  <2>5. x = ss
    <3>1. 6 \in Nat
      OBVIOUS
    <3> QED
      BY <1>2, <2>2, <2>3, <2>4, <3>1, SameSeq, Zenon
  <2> QED
    BY <2>1, <2>5
<1>8. PICK z : z = SubSeq(vals, 6 + 1, 11)
  OBVIOUS
<1>9. z \in Seq(ReadValues) /\ Len(z) = 11 - 6 /\ \A j \in 1..(11 - 6) : z[j] = vals[6 + j]
  <2>1. 6 \in Nat /\ 11 \in Nat /\ 6 <= 11 /\ 11 <= Len(vals)
    BY <1>6
  <2> QED
    BY <1>6, <1>8, <2>1, Cut, ZenonT(60)
<1>10. ASSUME NEW j \in 1..5 PROVE z[j] = Number(BigEndian(ns[j], NumberSize))
  <2>1. j \in 1..(11 - 6)
    OBVIOUS
  <2> QED
    BY <1>5, <1>9, <2>1
<1>11. ASSUME NEW j \in 1..3 PROVE z[j] = ns[j]
  <2>1. j \in 1..5 /\ Unsigned(ns[j])
    BY <1>2
  <2> QED
    BY <1>10, <2>1, FieldIsRead
<1>12. Signed(z[4]) = ns[4]
  BY <1>2, <1>10, FieldIsRead
<1>13. z[5] % Base^CountSize = ns[5]
  BY <1>2, <1>10, FieldIsRead
<1>14. <<z[1], z[2], z[3], Signed(z[4]), z[5] % Base^CountSize>> = ns
  <2>1. z[1] = ns[1] /\ z[2] = ns[2] /\ z[3] = ns[3]
    BY <1>11
  <2>2. ns = <<ns[1], ns[2], ns[3], ns[4], ns[5]>>
    BY <1>2
  <2> QED
    BY <1>12, <1>13, <2>1, <2>2
<1>15. z = SubSeq(vals, 7, 11)
  BY <1>8
<1> QED
  BY <1>1, <1>3, <1>6, <1>7, <1>14, <1>15 DEF Decoded

\* The parts of a transaction's encoding and their places.
LEMMA TxParts ==
    ASSUME NEW t, IsTx(t)
    PROVE  /\ Fields(t.strings, t.numbers) \in Seq(Seq(Bytes))
           /\ Len(Fields(t.strings, t.numbers)) = 11
           /\ \A i \in 1..6 : Fields(t.strings, t.numbers)[i] = Put(t.strings[i])
           /\ \A i \in 1..5 :
                Fields(t.strings, t.numbers)[6 + i] = BigEndian(t.numbers[i], NumberSize)
<1>1. PICK ss \in Seq(Seq(Bytes)), ns \in Seq(Int) : ss = t.strings /\ ns = t.numbers
  BY DEF IsTx
<1>2. Len(ss) = 6 /\ Len(ns) = 5
  BY <1>1 DEF IsTx
<1>3. /\ Fields(ss, ns) \in Seq(Seq(Bytes)) /\ Len(Fields(ss, ns)) = Len(ss) + Len(ns)
      /\ \A i \in 1..Len(ss) : Fields(ss, ns)[i] = Put(ss[i])
      /\ \A i \in 1..Len(ns) : Fields(ss, ns)[Len(ss) + i] = BigEndian(ns[i], NumberSize)
  BY FieldsAre
<1>4. 6 + 5 = 11
  OBVIOUS
<1> QED
  BY <1>1, <1>2, <1>3, <1>4

\* A transaction is decoded to itself, and a part of its bytes to nothing.
LEMMA TxDecodes ==
    ASSUME NEW t, IsTx(t), \A i \in 1..6 : Puttable(t.strings[i]), CheckBytes(EncodeTx(t)),
           NEW m \in Nat, m <= Len(EncodeTx(t))
    PROVE  /\ EncodeTx(t) \in Seq(Bytes)
           /\ m = Len(EncodeTx(t)) => DecodeTx(SubSeq(EncodeTx(t), 1, m)) = {t}
           /\ m < Len(EncodeTx(t)) => DecodeTx(SubSeq(EncodeTx(t), 1, m)) = {}
<1>0. StringSize \in Widths /\ NumberSize \in Widths
  BY DEF Widths
<1>1. PICK parts : parts = Fields(t.strings, t.numbers)
  OBVIOUS
<1>2. /\ parts \in Seq(Seq(Bytes)) /\ Len(parts) = 11
      /\ \A i \in 1..6 : parts[i] = Put(t.strings[i])
      /\ \A i \in 1..5 : parts[6 + i] = BigEndian(t.numbers[i], NumberSize)
  BY <1>1, TxParts
<1>3. PICK buf : buf = EncodeTx(t)
  OBVIOUS
<1>4. PICK o : Places(buf, parts, o)
  BY <1>1, <1>2, <1>3, PartsHavePlaces DEF EncodeTx
<1>5. /\ buf \in Seq(Bytes) /\ o[0] = 0 /\ o[11] = Len(buf)
      /\ \A i \in 0..11 : o[i] \in Nat /\ o[i] <= Len(buf)
      /\ \A i \in 1..11 : /\ o[i] = o[i-1] + Len(parts[i])
                          /\ \A j \in 1..Len(parts[i]) : buf[o[i-1] + j] = parts[i][j]
  BY <1>2, <1>4 DEF Places
<1>a. buf \in Seq(Bytes)
  BY <1>5
<1>6. PICK data : data = SubSeq(buf, 0 + 1, m)
  OBVIOUS
<1>7. data \in Seq(Bytes) /\ Len(data) = m - 0 /\ m <= Len(buf)
  <2>1. 0 \in Nat /\ 0 <= m /\ m <= Len(buf)
    BY <1>3
  <2> QED
    BY <1>5, <1>6, <2>1, Cut, ZenonT(60)
<1>8. PICK f : /\ DecodeRun(f, data)
               /\ f[11].ok /\ CheckBytes(data) => DecodeTx(data) = {Decoded(f[11].read)}
               /\ ~f[11].ok => DecodeTx(data) = {}
  BY <1>7, DecodeRuns
<1>9. PICK vals \in Seq(ReadValues) : vals = TxValues(t) /\ Len(vals) = 11 /\ Decoded(vals) = t
  BY ValuesDecode
<1> DEFINE Good(i) == o[i] <= m /\ f[i] = Reading(SubSeq(buf, o[i] + 1, m), SubSeq(vals, 1, i))
           Bad(i) == m < o[i] /\ \E x, y : f[i] = Failed(x, y)
           W == {i \in 0..11 : Good(i) \/ Bad(i)}
<1>10. 0 \in W
  <2>1. f[0] = Reading(data, <<>>)
    BY <1>8 DEF DecodeRun
  <2>2. SubSeq(vals, 1, 0) = <<>>
    BY <1>9
  <2>3. o[0] <= m /\ SubSeq(buf, o[0] + 1, m) = data
    BY <1>5, <1>6
  <2>4. 0 \in 0..11 /\ Good(0)
    <3>1. 0 \in 0..11
      OBVIOUS
    <3>2. Good(0)
      BY <2>1, <2>2, <2>3, Zenon
    <3> QED
      BY <3>1, <3>2
  <2> HIDE DEF Good, Bad
  <2> QED
    BY <2>4
<1>11. ASSUME NEW i \in 1..11, i - 1 \in W PROVE i \in W
  <2>1. i \in 0..11 /\ i - 1 \in 0..11
    OBVIOUS
  <2>2. PICK a, e \in Nat : a = o[i-1] /\ e = o[i] /\ a <= Len(buf) /\ e <= Len(buf)
    BY <1>5, <2>1
  <2>3. PICK p \in Seq(Bytes) : p = parts[i]
    <3>1. parts[i] \in Seq(Bytes)
      BY <1>2, ElementOf, Zenon
    <3> QED
      BY <3>1
  <2>4. e = a + Len(p) /\ \A j \in 1..Len(p) : buf[a + j] = p[j]
    BY <1>5, <2>2, <2>3
  <2>5. Good(i - 1) \/ Bad(i - 1)
    BY <1>11
  <2>6. PICK y : y = SubSeq(vals, 1, i - 1)
    OBVIOUS
  <2>7. Append(y, vals[i]) = SubSeq(vals, 1, i)
    <3>1. i \in 1..Len(vals) /\ 1 \in 1..(Len(vals) + 1)
      BY <1>9
    <3> QED
      BY <2>6, <3>1, OneFurther
  <2>8. CASE Good(i - 1)
    <3>1. a <= m /\ f[i-1] = Reading(SubSeq(buf, a + 1, m), y)
      BY <2>2, <2>6, <2>8
    <3>2. PartAt(buf, m, a, p, e)
      BY <1>5, <1>7, <2>2, <2>4, <3>1 DEF PartAt
    <3>3. AfterRead(f[i], buf, m, a, e, y, vals[i])
      <4>1. CASE i <= 6
        <5>1. i \in 1..6
          BY <4>1
        <5>2. f[i] = Get(f[i-1])
          BY <1>8, <5>1 DEF DecodeRun
        <5>3. PICK s \in Seq(Bytes) : s = t.strings[i]
          <6>1. t.strings \in Seq(Seq(Bytes)) /\ Len(t.strings) = 6
            BY DEF IsTx
          <6>2. t.strings[i] \in Seq(Bytes)
            BY <5>1, <6>1, ElementOf, Zenon
          <6> QED
            BY <6>2
        <5>4. Puttable(s) /\ vals[i] = s
          <6>1. i \in 1..11 /\ i <= 6
            BY <5>1
          <6> QED
            BY <1>9, <5>1, <5>3, <6>1 DEF TxValues
        <5>5. HasPrefix(p, s, StringSize)
          <6>1. p = Prefixed(s, StringSize)
            BY <1>2, <2>3, <5>1, <5>3 DEF Put
          <6> QED
            BY <1>0, <6>1, PrefixedHas
        <5>6. AfterRead(Get(Reading(SubSeq(buf, a + 1, m), y)), buf, m, a, e, y, s)
          BY <1>a, <3>2, <5>4, <5>5, StringStep, Zenon
        <5> QED
          BY <3>1, <5>2, <5>4, <5>6
      <4>2. CASE ~(i <= 6)
        <5>1. i \in 7..11
          BY <4>2
        <5>2. f[i] = GetNumber(f[i-1])
          BY <1>8, <5>1 DEF DecodeRun
        <5>3. PICK k \in 1..5 : i = 6 + k
          <6>1. i - 6 \in 1..5 /\ i = 6 + (i - 6)
            BY <5>1
          <6> QED
            BY <6>1
        <5>4. PICK n \in Int : n = t.numbers[k]
          <6>1. t.numbers \in Seq(Int) /\ Len(t.numbers) = 5
            BY DEF IsTx
          <6>2. t.numbers[k] \in Int
            BY <6>1, ElementOf, Zenon
          <6> QED
            BY <6>2
        <5>5. p = BigEndian(n, NumberSize)
          BY <1>2, <2>3, <5>3, <5>4
        <5>6. Len(p) = NumberSize
          BY <1>0, <5>5, BigEndianBytes
        <5>7. vals[i] = Number(p)
          <6>1. i - 6 = k /\ i \in 1..11
            BY <5>3
          <6> QED
            BY <1>9, <4>2, <5>4, <5>5, <6>1 DEF TxValues
        <5>8. AfterRead(GetNumber(Reading(SubSeq(buf, a + 1, m), y)), buf, m, a, e, y, Number(p))
          BY <1>a, <3>2, <5>6, NumberStep, Zenon
        <5> QED
          BY <3>1, <5>2, <5>7, <5>8
      <4> QED
        BY <4>1, <4>2
    <3>4. CASE e <= m
      <4>1. Good(i)
        BY <2>2, <2>7, <3>3, <3>4 DEF AfterRead
      <4> HIDE DEF Good, Bad
      <4> QED
        BY <2>1, <4>1
    <3>5. CASE m < e
      <4>1. Bad(i)
        BY <2>2, <3>3, <3>5 DEF AfterRead
      <4> HIDE DEF Good, Bad
      <4> QED
        BY <2>1, <4>1
    <3> QED
      BY <3>4, <3>5
  <2>9. CASE Bad(i - 1)
    <3>1. PICK x, u : f[i-1] = Failed(x, u)
      BY <2>9
    <3>2. f[i] = Failed(x, u)
      <4>1. CASE i <= 6
        <5>1. f[i] = Get(f[i-1])
          BY <1>8, <4>1, SMTT(40) DEF DecodeRun
        <5> QED
          BY <3>1, <5>1, GetsNothing
      <4>2. CASE ~(i <= 6)
        <5>1. i \in 7..11
          BY <4>2
        <5>2. f[i] = GetNumber(f[i-1])
          BY <1>8, <5>1 DEF DecodeRun
        <5> QED
          BY <3>1, <5>2, GetsNothing
      <4> QED
        BY <4>1, <4>2
    <3>3. m < a
      BY <2>2, <2>9
    <3>4. Len(p) \in Nat
      OBVIOUS
    <3>5. m < o[i]
      BY <2>2, <2>4, <3>3, <3>4, SMTT(40)
    <3>6. Bad(i)
      BY <3>2, <3>5
    <3> HIDE DEF Good, Bad
    <3> QED
      BY <2>1, <3>6
  <2> QED
    BY <2>5, <2>8, <2>9
<1>12. Good(11) \/ Bad(11)
  <2>1. 11 \in W
    <3> HIDE DEF W
    <3>1. \A i \in 0..11 : i \in W
      BY <1>10, <1>11, UpTo
    <3> QED
      BY <3>1
  <2> QED
    BY <2>1
<1>13. ASSUME m = Len(buf) PROVE DecodeTx(data) = {t}
  <2>1. ~Bad(11)
    BY <1>5, <1>13
  <2>2. f[11] = Reading(SubSeq(buf, o[11] + 1, m), SubSeq(vals, 1, 11))
    BY <1>12, <2>1
  <2>3. SubSeq(vals, 1, 11) = vals
    BY <1>9
  <2>4. f[11].ok /\ f[11].read = vals
    BY <2>2, <2>3 DEF Reading
  <2>5. CheckBytes(data)
    BY <1>3, <1>7, <1>13 DEF CheckBytes
  <2> QED
    BY <1>8, <1>9, <2>4, <2>5
<1>14. ASSUME m < Len(buf) PROVE DecodeTx(data) = {}
  <2>1. ~Good(11)
    BY <1>5, <1>14
  <2>2. PICK x, y : f[11] = Failed(x, y)
    BY <1>12, <2>1
  <2>3. ~f[11].ok
    BY <2>2 DEF Failed
  <2> QED
    BY <1>8, <2>3
<1> QED
  BY <1>3, <1>5, <1>6, <1>13, <1>14
-----------------------------------------------------------------------------
(* The encoding: different items have different bytes. *)

\* What Encode and Encodable say of a transaction and of a block.
LEMMA EncodeItem ==
    ASSUME NEW x
    PROVE  IsTx(x) => Encode(x) = EncodeTx(x) /\ "txs" \notin DOMAIN x
<1> SUFFICES ASSUME IsTx(x) PROVE Encode(x) = EncodeTx(x) /\ "txs" \notin DOMAIN x
  OBVIOUS
<1>1. PICK ss, ns : x = [strings |-> ss, numbers |-> ns]
  BY DEF IsTx
<1>2. "txs" \notin DOMAIN x
  BY <1>1
<1> QED
  BY <1>2 DEF Encode

LEMMA EncodeItems ==
    ASSUME NEW x
    PROVE  IsBlock(x) => Encode(x) = EncodeBlock(x) /\ "txs" \in DOMAIN x
<1> SUFFICES ASSUME IsBlock(x) PROVE Encode(x) = EncodeBlock(x) /\ "txs" \in DOMAIN x
  OBVIOUS
<1>1. PICK ss, ns, ts : x = [strings |-> ss, numbers |-> ns, txs |-> ts]
  BY DEF IsBlock
<1>2. "txs" \in DOMAIN x
  BY <1>1
<1> QED
  BY <1>2 DEF Encode

LEMMA EncodableTx ==
    ASSUME NEW t, IsTx(t), Encodable(t)
    PROVE  /\ \A i \in 1..6 : Puttable(t.strings[i])
           /\ CheckBytes(EncodeTx(t)) /\ EncodeTx(t) \in Seq(Bytes)
           /\ SubSeq(EncodeTx(t), 1, Len(EncodeTx(t))) = EncodeTx(t)
<1>1. Encode(t) = EncodeTx(t) /\ "txs" \notin DOMAIN t
  BY EncodeItem
<1>2. (\A i \in 1..Len(t.strings) : Puttable(t.strings[i])) /\ CheckBytes(EncodeTx(t))
  BY <1>1 DEF Encodable
<1>3. Len(t.strings) = 6
  BY DEF IsTx
<1>4. \A i \in 1..6 : Puttable(t.strings[i])
  BY <1>2, <1>3
<1>5. PICK parts \in Seq(Seq(Bytes)) : parts = Fields(t.strings, t.numbers)
  BY TxParts
<1>6. PICK o : Places(Concat(parts), parts, o)
  BY PartsHavePlaces
<1>7. EncodeTx(t) \in Seq(Bytes)
  BY <1>5, <1>6 DEF EncodeTx, Places
<1>8. PICK e \in Seq(Bytes) : e = EncodeTx(t)
  BY <1>7
<1>9. SubSeq(e, 1, Len(e)) = e
  OBVIOUS
<1> QED
  BY <1>2, <1>4, <1>8, <1>9

LEMMA EncodableBlock ==
    ASSUME NEW b, IsBlock(b), Encodable(b)
    PROVE  /\ \A i \in 1..5 : Puttable(b.strings[i])
           /\ CheckBytes(EncodeBlock(b))
           /\ \A i \in 1..Len(b.txs) : IsTx(b.txs[i]) /\ Encodable(b.txs[i])
<1>1. Encode(b) = EncodeBlock(b) /\ "txs" \in DOMAIN b
  BY EncodeItems
<1> DEFINE parts == {b} \cup {b.txs[i] : i \in 1..Len(b.txs)}
           Part(p) == (\A i \in 1..Len(p.strings) : Puttable(p.strings[i])) /\ CheckBytes(Encode(p))
<1>2. \A p \in parts : Part(p)
  BY <1>1 DEF Encodable
<1>3. b \in parts /\ \A i \in 1..Len(b.txs) : b.txs[i] \in parts
  OBVIOUS
<1>4. (\A i \in 1..5 : Puttable(b.strings[i])) /\ CheckBytes(EncodeBlock(b))
  <2>1. Part(b)
    BY <1>2, <1>3
  <2>2. Len(b.strings) = 5
    BY DEF IsBlock
  <2> QED
    BY <1>1, <2>1, <2>2
<1>5. ASSUME NEW i \in 1..Len(b.txs) PROVE IsTx(b.txs[i]) /\ Encodable(b.txs[i])
  <2>1. PICK t : t = b.txs[i]
    OBVIOUS
  <2>2. IsTx(t)
    BY <2>1 DEF IsBlock
  <2>3. "txs" \notin DOMAIN t
    BY <2>2, EncodeItem
  <2>4. Part(t)
    BY <1>2, <1>3, <2>1
  <2>5. Encodable(t)
    BY <2>3, <2>4 DEF Encodable
  <2> QED
    BY <2>1, <2>2, <2>5
<1> QED
  BY <1>4, <1>5

\* Different transactions are written differently.
LEMMA TxsDiffer ==
    ASSUME NEW t, NEW u, IsTx(t), IsTx(u), Encodable(t), Encodable(u), EncodeTx(t) = EncodeTx(u)
    PROVE  t = u
<1>1. ASSUME NEW v, IsTx(v), Encodable(v) PROVE DecodeTx(EncodeTx(v)) = {v}
  <2>1. /\ \A i \in 1..6 : Puttable(v.strings[i])
        /\ CheckBytes(EncodeTx(v)) /\ EncodeTx(v) \in Seq(Bytes)
        /\ SubSeq(EncodeTx(v), 1, Len(EncodeTx(v))) = EncodeTx(v)
    BY <1>1, EncodableTx
  <2>2. PICK m \in Nat : m = Len(EncodeTx(v)) /\ m <= Len(EncodeTx(v))
    <3>1. PICK e \in Seq(Bytes) : e = EncodeTx(v)
      BY <2>1
    <3>2. Len(e) \in Nat /\ Len(e) <= Len(e)
      OBVIOUS
    <3> QED
      BY <3>1, <3>2
  <2>3. m = Len(EncodeTx(v)) => DecodeTx(SubSeq(EncodeTx(v), 1, m)) = {v}
    BY <1>1, <2>1, <2>2, TxDecodes
  <2> QED
    BY <2>1, <2>2, <2>3
<1>2. {t} = {u}
  BY <1>1
<1> QED
  BY <1>2

\* Where one of two parts ends is known from their bytes.
Delimited(x, y) ==
    \/ Len(x) = Len(y)
    \/ \E w \in Widths : \E s, u \in Seq(Bytes) :
         /\ HasPrefix(x, s, w) /\ HasPrefix(y, u, w)
         /\ Len(s) < Base^w /\ Len(u) < Base^w

InPlace(buf, a, x) == \A j \in 1..Len(x) : buf[a + j] = x[j]

\* The same part is then at the same place.
LEMMA SamePart ==
    ASSUME NEW x \in Seq(Bytes), NEW y \in Seq(Bytes), NEW buf, NEW a \in Nat, Delimited(x, y),
           InPlace(buf, a, x), InPlace(buf, a, y)
    PROVE  x = y
<1>0. /\ \A j \in 1..Len(x) : buf[a + j] = x[j]
      /\ \A j \in 1..Len(y) : buf[a + j] = y[j]
  BY DEF InPlace
<1> USE <1>0
<1>1. ASSUME Len(x) = Len(y) PROVE x = y
  <2>1. PICK n \in Nat : n = Len(x) /\ n = Len(y)
    BY <1>1
  <2>2. \A j \in 1..n : x[j] = y[j]
    BY <2>1
  <2> QED
    BY <2>1, <2>2, SameSeq
<1>2. ASSUME NEW w \in Widths, NEW s \in Seq(Bytes), NEW u \in Seq(Bytes),
             HasPrefix(x, s, w), HasPrefix(y, u, w), Len(s) < Base^w, Len(u) < Base^w
      PROVE  Len(x) = Len(y)
  <2>1. PICK k, l \in Nat : k = Len(s) /\ l = Len(u)
    OBVIOUS
  <2>2. w \in Nat
    BY Powers
  <2>3. /\ Len(x) = w + k /\ \A j \in 1..w : x[j] = BigEndian(k, w)[j]
        /\ Len(y) = w + l /\ \A j \in 1..w : y[j] = BigEndian(l, w)[j]
    BY <1>2, <2>1 DEF HasPrefix
  <2>4. PICK p, q : p = BigEndian(k, w) /\ q = BigEndian(l, w)
    OBVIOUS
  <2>5. p \in Seq(Bytes) /\ Len(p) = w /\ q \in Seq(Bytes) /\ Len(q) = w
    BY <2>1, <2>4, BigEndianBytes
  <2>6. ASSUME NEW j \in 1..w PROVE p[j] = q[j]
    <3>1. j \in 1..Len(x) /\ j \in 1..Len(y)
      BY <2>1, <2>2, <2>3
    <3>2. x[j] = buf[a + j] /\ y[j] = buf[a + j]
      BY <3>1
    <3> QED
      BY <2>3, <2>4, <3>2
  <2>7. p = q
    BY <2>2, <2>5, <2>6, SameSeq
  <2>8. Number(p) = k /\ Number(q) = l
    BY <1>2, <2>1, <2>4, FitsIsRead
  <2> QED
    BY <2>3, <2>7, <2>8
<1> QED
  BY <1>1, <1>2 DEF Delimited

\* Two lists of parts that come to the same bytes have the same first parts.
LEMMA SameParts ==
    ASSUME NEW p \in Seq(Seq(Bytes)), NEW q \in Seq(Seq(Bytes)), Concat(p) = Concat(q),
           NEW n \in Nat, n <= Len(p), n <= Len(q), \A i \in 1..n : Delimited(p[i], q[i])
    PROVE  \A i \in 1..n : p[i] = q[i]
<1>1. PICK buf : buf = Concat(p)
  OBVIOUS
<1>2. PICK o : Places(buf, p, o)
  BY <1>1, PartsHavePlaces
<1>3. PICK r : Places(buf, q, r)
  BY <1>1, PartsHavePlaces
<1>4. ASSUME NEW i \in 1..n
      PROVE  /\ i \in 1..Len(p) /\ i \in 1..Len(q) /\ i - 1 \in 0..Len(p)
             /\ p[i] \in Seq(Bytes) /\ q[i] \in Seq(Bytes) /\ o[i-1] \in Nat
             /\ o[i] = o[i-1] + Len(p[i]) /\ \A j \in 1..Len(p[i]) : buf[o[i-1] + j] = p[i][j]
             /\ r[i] = r[i-1] + Len(q[i]) /\ \A j \in 1..Len(q[i]) : buf[r[i-1] + j] = q[i][j]
  <2>1. i \in 1..Len(p) /\ i \in 1..Len(q) /\ i - 1 \in 0..Len(p)
    OBVIOUS
  <2>2. p[i] \in Seq(Bytes) /\ q[i] \in Seq(Bytes)
    BY <2>1, ElementOf
  <2>3. o[i-1] \in Nat
    BY <1>2, <2>1 DEF Places
  <2>4. o[i] = o[i-1] + Len(p[i]) /\ \A j \in 1..Len(p[i]) : buf[o[i-1] + j] = p[i][j]
    BY <1>2, <2>1 DEF Places
  <2>5. r[i] = r[i-1] + Len(q[i]) /\ \A j \in 1..Len(q[i]) : buf[r[i-1] + j] = q[i][j]
    BY <1>3, <2>1 DEF Places
  <2> QED
    BY <2>1, <2>2, <2>3, <2>4, <2>5
<1>5. ASSUME NEW i \in 1..n, o[i-1] = r[i-1] PROVE p[i] = q[i] /\ o[i] = r[i]
  <2>1. PICK x \in Seq(Bytes), y \in Seq(Bytes), a \in Nat : x = p[i] /\ y = q[i] /\ a = o[i-1]
    BY <1>4
  <2>2. Delimited(x, y)
    BY <2>1
  <2>3. InPlace(buf, a, x) /\ InPlace(buf, a, y)
    BY <1>4, <1>5, <2>1, ZenonT(60) DEF InPlace
  <2>4. x = y
    BY <2>2, <2>3, SamePart
  <2> QED
    BY <1>4, <1>5, <2>1, <2>4, ZenonT(60)
<1> DEFINE W == {i \in 0..n : o[i] = r[i]}
<1>6. 0 \in W
  BY <1>2, <1>3 DEF Places
<1>7. ASSUME NEW i \in 1..n, i - 1 \in W PROVE i \in W
  <2>1. o[i] = r[i] /\ i \in 0..n
    BY <1>5, <1>7
  <2> QED
    BY <2>1
<1>8. \A i \in 0..n : i \in W
  <2> HIDE DEF W
  <2> QED
    BY <1>6, <1>7, UpTo
<1>9. ASSUME NEW i \in 1..n PROVE p[i] = q[i]
  <2>1. i - 1 \in 0..n
    OBVIOUS
  <2>2. o[i-1] = r[i-1]
    BY <1>8, <2>1
  <2> QED
    BY <1>5, <2>2
<1> QED
  BY <1>9

\* The parts of a block's encoding.
BlockParts(b) ==
    Fields(b.strings, Append(b.numbers, Len(b.txs)))
    \o [i \in 1..Len(b.txs) |-> Prefixed(EncodeTx(b.txs[i]), CountSize)]

\* They are its strings, its numbers, how many transactions it has, and these.
HasBlockParts(parts, b, k) ==
    /\ parts \in Seq(Seq(Bytes)) /\ Len(parts) = 10 + k
    /\ \A i \in 1..5 : parts[i] = Put(b.strings[i])
    /\ \A i \in 1..4 : parts[5 + i] = BigEndian(b.numbers[i], NumberSize)
    /\ parts[10] = BigEndian(k, NumberSize)
    /\ \A i \in 1..k : parts[10 + i] = Prefixed(EncodeTx(b.txs[i]), CountSize)

LEMMA BlockPartsAre ==
    ASSUME NEW b, IsBlock(b), Encodable(b), NEW k \in Nat, k = Len(b.txs)
    PROVE  HasBlockParts(BlockParts(b), b, k)
<1>0. CountSize \in Widths
  BY DEF Widths
<1>1. PICK ss \in Seq(Seq(Bytes)), ns \in Seq(Int) : ss = b.strings /\ ns = b.numbers
  BY DEF IsBlock
<1>2. Len(ss) = 5 /\ Len(ns) = 4
  BY <1>1 DEF IsBlock
<1>3. PICK us : us = Append(ns, k)
  OBVIOUS
<1>4. us \in Seq(Int) /\ Len(us) = 5 /\ us[5] = k /\ \A i \in 1..4 : us[i] = ns[i]
  <2>1. k \in Int
    OBVIOUS
  <2>2. /\ us \in Seq(Int) /\ Len(us) = Len(ns) + 1
        /\ us[Len(ns) + 1] = k /\ \A i \in 1..Len(ns) : us[i] = ns[i]
    BY <1>3, <2>1, Appended
  <2>3. Len(ns) + 1 = 5
    BY <1>2
  <2> QED
    BY <1>2, <2>2, <2>3
<1>5. PICK x : x = Fields(ss, us)
  OBVIOUS
<1>6. /\ x \in Seq(Seq(Bytes)) /\ Len(x) = 10
      /\ \A i \in 1..5 : x[i] = Put(ss[i])
      /\ \A i \in 1..5 : x[5 + i] = BigEndian(us[i], NumberSize)
  <2>1. /\ x \in Seq(Seq(Bytes)) /\ Len(x) = Len(ss) + Len(us)
        /\ \A i \in 1..Len(ss) : x[i] = Put(ss[i])
        /\ \A i \in 1..Len(us) : x[Len(ss) + i] = BigEndian(us[i], NumberSize)
    BY <1>4, <1>5, FieldsAre
  <2>2. 5 + 5 = 10
    OBVIOUS
  <2> QED
    BY <1>2, <1>4, <2>1, <2>2
<1>7. PICK y : y = [i \in 1..k |-> Prefixed(EncodeTx(b.txs[i]), CountSize)]
  OBVIOUS
<1>8. y \in Seq(Seq(Bytes)) /\ Len(y) = k
  <2>1. ASSUME NEW i \in 1..k PROVE y[i] \in Seq(Bytes)
    <3>1. PICK t : t = b.txs[i]
      OBVIOUS
    <3>2. IsTx(t) /\ Encodable(t)
      BY <3>1, EncodableBlock
    <3>3. PICK e \in Seq(Bytes) : e = EncodeTx(t)
      BY <3>2, EncodableTx
    <3>4. HasPrefix(Prefixed(e, CountSize), e, CountSize)
      BY <1>0, PrefixedHas
    <3> QED
      BY <1>7, <3>1, <3>3, <3>4 DEF HasPrefix
  <2>2. y = [i \in 1..k |-> y[i]]
    BY <1>7
  <2>3. \A i \in 1..k : y[i] \in Seq(Bytes)
    BY <2>1
  <2> QED
    BY <2>2, <2>3, IsSeq
<1>9. PICK z : z = x \o y
  OBVIOUS
<1>10. z \in Seq(Seq(Bytes)) /\ Len(z) = 10 + k
       /\ \A i \in 1..(10 + k) : z[i] = IF i <= 10 THEN x[i] ELSE y[i - 10]
  <2>1. z \in Seq(Seq(Bytes)) /\ Len(z) = Len(x) + Len(y)
       /\ \A i \in 1..(Len(x) + Len(y)) : z[i] = IF i <= Len(x) THEN x[i] ELSE y[i - Len(x)]
    BY <1>6, <1>8, <1>9, ConcatProperties, ZenonT(60)
  <2> QED
    BY <1>6, <1>8, <2>1
<1>11. ASSUME NEW i \in 1..10 PROVE z[i] = x[i]
  <2>1. i \in 1..(10 + k) /\ i <= 10
    OBVIOUS
  <2> QED
    BY <1>10, <2>1
<1>12. ASSUME NEW i \in 1..k PROVE z[10 + i] = Prefixed(EncodeTx(b.txs[i]), CountSize)
  <2>1. 10 + i \in 1..(10 + k) /\ ~(10 + i <= 10) /\ (10 + i) - 10 = i
    OBVIOUS
  <2>2. z[10 + i] = y[i]
    BY <1>10, <2>1
  <2> QED
    BY <1>7, <2>2
<1>13. ASSUME NEW i \in 1..5 PROVE z[i] = Put(b.strings[i])
  <2>1. i \in 1..10
    OBVIOUS
  <2> QED
    BY <1>1, <1>6, <1>11, <2>1
<1>14. ASSUME NEW i \in 1..4 PROVE z[5 + i] = BigEndian(b.numbers[i], NumberSize)
  <2>1. 5 + i \in 1..10 /\ i \in 1..5
    OBVIOUS
  <2>2. z[5 + i] = BigEndian(us[i], NumberSize)
    BY <1>6, <1>11, <2>1
  <2> QED
    BY <1>1, <1>4, <2>2
<1>15. z[10] = BigEndian(k, NumberSize)
  <2>1. 5 + 5 = 10 /\ 10 \in 1..10 /\ 5 \in 1..5
    OBVIOUS
  <2>2. x[10] = BigEndian(us[5], NumberSize)
    BY <1>6, <2>1
  <2>3. z[10] = x[10]
    BY <1>11, <2>1
  <2> QED
    BY <1>4, <2>2, <2>3
<1>16. z = BlockParts(b)
  BY <1>1, <1>3, <1>5, <1>7, <1>9 DEF BlockParts
<1>17. z \in Seq(Seq(Bytes)) /\ Len(z) = 10 + k
  BY <1>10
<1> QED
  BY <1>12, <1>13, <1>14, <1>15, <1>16, <1>17 DEF HasBlockParts

\* A string or an encoding is known from it with its length.
LEMMA PrefixedDiffer ==
    ASSUME NEW w \in Widths, NEW s \in Seq(Bytes), NEW u \in Seq(Bytes),
           Prefixed(s, w) = Prefixed(u, w)
    PROVE  s = u
<1>1. PICK p : p = Prefixed(s, w)
  OBVIOUS
<1>2. HasPrefix(p, s, w) /\ HasPrefix(p, u, w)
  BY <1>1, PrefixedHas
<1>3. PICK k, l \in Nat : k = Len(s) /\ l = Len(u)
  OBVIOUS
<1>4. w \in Nat
  BY Powers
<1>5. w + k = w + l
  BY <1>2, <1>3 DEF HasPrefix
<1>6. k = l
  BY <1>4, <1>5
<1>7. \A j \in 1..k : s[j] = u[j]
  BY <1>2, <1>3, <1>6 DEF HasPrefix
<1> QED
  <2>1. Len(s) = k /\ Len(u) = k
    BY <1>3, <1>6
  <2> QED
    BY <1>7, <2>1, SameSeq

\* A number is known from its bytes.
LEMMA NumbersDiffer ==
    ASSUME NEW n, NEW m, BigEndian(n, NumberSize) = BigEndian(m, NumberSize),
           (Unsigned(n) /\ Unsigned(m)) \/ (IsSigned(n) /\ IsSigned(m))
    PROVE  n = m
<1>1. CASE Unsigned(n) /\ Unsigned(m)
  BY <1>1, FieldIsRead
<1>2. CASE IsSigned(n) /\ IsSigned(m)
  BY <1>2, FieldIsRead
<1> QED
  BY <1>1, <1>2

\* The first parts of two blocks are delimited alike, and all of them are when
\* the blocks have as many transactions.
LEMMA BlockPartsDelimited ==
    ASSUME NEW b, NEW c, IsBlock(b), IsBlock(c), Encodable(b), Encodable(c),
           NEW k \in Nat, NEW l \in Nat, k = Len(b.txs), l = Len(c.txs),
           NEW p, NEW q, HasBlockParts(p, b, k), HasBlockParts(q, c, l)
    PROVE  /\ \A i \in 1..10 : Delimited(p[i], q[i])
           /\ k = l => \A i \in 1..(10 + k) : Delimited(p[i], q[i])
<1>0. StringSize \in Widths /\ NumberSize \in Widths /\ CountSize \in Widths
  BY DEF Widths
<1>1. ASSUME NEW i \in 1..5 PROVE Delimited(p[i], q[i])
  <2>1. p[i] = Put(b.strings[i]) /\ q[i] = Put(c.strings[i])
    BY DEF HasBlockParts
  <2>2. /\ b.strings \in Seq(Seq(Bytes)) /\ Len(b.strings) = 5
        /\ c.strings \in Seq(Seq(Bytes)) /\ Len(c.strings) = 5
    BY DEF IsBlock
  <2>3. b.strings[i] \in Seq(Bytes) /\ c.strings[i] \in Seq(Bytes)
    <3>1. b.strings[i] \in Seq(Bytes)
      BY <2>2, ElementOf, Zenon
    <3>2. c.strings[i] \in Seq(Bytes)
      BY <2>2, ElementOf, Zenon
    <3> QED
      BY <3>1, <3>2
  <2>4. PICK s \in Seq(Bytes), u \in Seq(Bytes) : s = b.strings[i] /\ u = c.strings[i]
    BY <2>3
  <2>5. Len(s) < Base^StringSize /\ Len(u) < Base^StringSize
    <3>1. Puttable(s) /\ Puttable(u)
      BY <2>4, EncodableBlock
    <3> QED
      BY <3>1 DEF Puttable
  <2>6. HasPrefix(p[i], s, StringSize) /\ HasPrefix(q[i], u, StringSize)
    BY <1>0, <2>1, <2>4, PrefixedHas DEF Put
  <2> QED
    BY <1>0, <2>5, <2>6, Zenon DEF Delimited
<1>2. ASSUME NEW i \in 1..5 PROVE Delimited(p[5 + i], q[5 + i])
  <2>1. CASE i = 5
    <3>1. p[5 + i] = BigEndian(k, NumberSize) /\ q[5 + i] = BigEndian(l, NumberSize)
      <4>1. 5 + i = 10
        BY <2>1
      <4> QED
        BY <4>1 DEF HasBlockParts
    <3>2. Len(p[5 + i]) = NumberSize /\ Len(q[5 + i]) = NumberSize
      BY <1>0, <3>1, BigEndianBytes
    <3> QED
      BY <3>2 DEF Delimited
  <2>2. CASE i # 5
    <3>1. i \in 1..4
      BY <2>2
    <3>2. p[5 + i] = BigEndian(b.numbers[i], NumberSize) /\ q[5 + i] = BigEndian(c.numbers[i], NumberSize)
      BY <3>1 DEF HasBlockParts
    <3>3. /\ b.numbers \in Seq(Int) /\ Len(b.numbers) = 4
          /\ c.numbers \in Seq(Int) /\ Len(c.numbers) = 4
      BY DEF IsBlock
    <3>4. b.numbers[i] \in Int
      BY <3>1, <3>3, ElementOf, Zenon
    <3>5. c.numbers[i] \in Int
      BY <3>1, <3>3, ElementOf, Zenon
    <3>6. PICK n, m \in Int : n = b.numbers[i] /\ m = c.numbers[i]
      BY <3>4, <3>5
    <3>7. Len(p[5 + i]) = NumberSize /\ Len(q[5 + i]) = NumberSize
      BY <1>0, <3>2, <3>6, BigEndianBytes
    <3> QED
      BY <3>7 DEF Delimited
  <2> QED
    BY <2>1, <2>2
<1>3. ASSUME NEW i \in 1..10 PROVE Delimited(p[i], q[i])
  <2>1. CASE i <= 5
    BY <1>1, <2>1
  <2>2. CASE ~(i <= 5)
    <3>1. PICK j \in 1..5 : i = 5 + j
      <4>1. i - 5 \in 1..5 /\ i = 5 + (i - 5)
        BY <2>2
      <4> QED
        BY <4>1
    <3> QED
      BY <1>2, <3>1
  <2> QED
    BY <2>1, <2>2
<1>4. ASSUME k = l, NEW i \in 1..k PROVE Delimited(p[10 + i], q[10 + i])
  <2>1. PICK t, v : t = b.txs[i] /\ v = c.txs[i]
    OBVIOUS
  <2>2. IsTx(t) /\ Encodable(t) /\ IsTx(v) /\ Encodable(v)
    BY <1>4, <2>1, EncodableBlock
  <2>3. PICK s \in Seq(Bytes), u \in Seq(Bytes) :
          s = EncodeTx(t) /\ u = EncodeTx(v) /\ CheckBytes(s) /\ CheckBytes(u)
    BY <2>2, EncodableTx
  <2>4. p[10 + i] = Prefixed(s, CountSize) /\ q[10 + i] = Prefixed(u, CountSize)
    BY <1>4, <2>1, <2>3 DEF HasBlockParts
  <2>5. Len(s) < Base^CountSize /\ Len(u) < Base^CountSize
    <3>1. PICK x \in Nat \ {0} : x = Base^CountSize
      BY <1>0, Powers
    <3>2. MaxBytes \in Nat /\ MaxBytes < x
      BY <3>1, WireAssumption
    <3>3. PICK g, h \in Nat : g = Len(s) /\ h = Len(u)
      OBVIOUS
    <3>4. g <= MaxBytes /\ h <= MaxBytes
      BY <2>3, <3>3 DEF CheckBytes
    <3>5. g < x /\ h < x
      BY <3>2, <3>4
    <3> QED
      BY <3>1, <3>3, <3>5
  <2>6. HasPrefix(p[10 + i], s, CountSize) /\ HasPrefix(q[10 + i], u, CountSize)
    BY <1>0, <2>4, PrefixedHas
  <2> QED
    BY <1>0, <2>5, <2>6, Zenon DEF Delimited
<1>5. ASSUME k = l, NEW i \in 1..(10 + k) PROVE Delimited(p[i], q[i])
  <2>1. CASE i <= 10
    BY <1>3, <2>1, SMTT(40)
  <2>2. CASE ~(i <= 10)
    <3>1. PICK j \in 1..k : i = 10 + j
      <4>1. i - 10 \in 1..k /\ i = 10 + (i - 10)
        BY <2>2
      <4> QED
        BY <4>1
    <3> QED
      BY <1>4, <1>5, <3>1
  <2> QED
    BY <2>1, <2>2
<1> QED
  BY <1>3, <1>5

\* Different blocks are written differently.
LEMMA BlocksDiffer ==
    ASSUME NEW b, NEW c, IsBlock(b), IsBlock(c), Encodable(b), Encodable(c),
           EncodeBlock(b) = EncodeBlock(c)
    PROVE  b = c
<1>0. StringSize \in Widths /\ NumberSize \in Widths /\ CountSize \in Widths
  BY DEF Widths
<1>1. PICK k, l \in Nat : k = Len(b.txs) /\ l = Len(c.txs) /\ Unsigned(k) /\ Unsigned(l)
  BY DEF IsBlock, Unsigned
<1>2. PICK p, q : p = BlockParts(b) /\ q = BlockParts(c)
  OBVIOUS
<1>3. HasBlockParts(p, b, k) /\ HasBlockParts(q, c, l)
  BY <1>1, <1>2, BlockPartsAre
<1>4. /\ p \in Seq(Seq(Bytes)) /\ Len(p) = 10 + k
      /\ q \in Seq(Seq(Bytes)) /\ Len(q) = 10 + l
  BY <1>3 DEF HasBlockParts
<1>5. Concat(p) = Concat(q)
  BY <1>2 DEF EncodeBlock, BlockParts
<1>6. /\ \A i \in 1..10 : Delimited(p[i], q[i])
      /\ k = l => \A i \in 1..(10 + k) : Delimited(p[i], q[i])
  BY <1>1, <1>3, BlockPartsDelimited
<1>7. k = l
  <2>1. 10 \in Nat /\ 10 <= Len(p) /\ 10 <= Len(q) /\ 10 \in 1..10
    BY <1>4
  <2>2. \A i \in 1..10 : p[i] = q[i]
    BY <1>4, <1>5, <1>6, <2>1, SameParts
  <2>3. p[10] = q[10]
    BY <2>1, <2>2
  <2>4. BigEndian(k, NumberSize) = BigEndian(l, NumberSize)
    BY <1>3, <2>3 DEF HasBlockParts
  <2> QED
    BY <1>1, <2>4, NumbersDiffer
<1>8. \A i \in 1..(10 + k) : p[i] = q[i]
  <2>1. PICK n \in Nat : n = 10 + k /\ n <= Len(p) /\ n <= Len(q)
    BY <1>4, <1>7
  <2>2. \A i \in 1..n : Delimited(p[i], q[i])
    BY <1>6, <1>7, <2>1
  <2>3. \A i \in 1..n : p[i] = q[i]
    BY <1>4, <1>5, <2>1, <2>2, SameParts
  <2> QED
    BY <2>1, <2>3
<1>9. b.strings = c.strings
  <2>1. /\ b.strings \in Seq(Seq(Bytes)) /\ Len(b.strings) = 5
        /\ c.strings \in Seq(Seq(Bytes)) /\ Len(c.strings) = 5
    BY DEF IsBlock
  <2>2. ASSUME NEW i \in 1..5 PROVE b.strings[i] = c.strings[i]
    <3>1. b.strings[i] \in Seq(Bytes)
      BY <2>1, ElementOf, Zenon
    <3>2. c.strings[i] \in Seq(Bytes)
      BY <2>1, ElementOf, Zenon
    <3>3. PICK s \in Seq(Bytes), u \in Seq(Bytes) : s = b.strings[i] /\ u = c.strings[i]
      BY <3>1, <3>2
    <3>4. i \in 1..(10 + k)
      OBVIOUS
    <3>5. Put(s) = Put(u)
      <4>1. p[i] = Put(s) /\ q[i] = Put(u)
        BY <1>3, <3>3 DEF HasBlockParts
      <4> QED
        BY <1>8, <3>4, <4>1
    <3>6. s = u
      BY <1>0, <3>5, PrefixedDiffer DEF Put
    <3> QED
      BY <3>3, <3>6
  <2>3. PICK x \in Seq(Seq(Bytes)), y \in Seq(Seq(Bytes)), n \in Nat : x = b.strings /\ y = c.strings /\ n = 5
    BY <2>1
  <2>4. Len(x) = n /\ Len(y) = n /\ \A i \in 1..n : x[i] = y[i]
    BY <2>1, <2>2, <2>3
  <2>5. x = y
    BY <2>4, SameSeq
  <2> QED
    BY <2>3, <2>5
<1>10. b.numbers = c.numbers
  <2>1. /\ b.numbers \in Seq(Int) /\ Len(b.numbers) = 4
        /\ c.numbers \in Seq(Int) /\ Len(c.numbers) = 4
    BY DEF IsBlock
  <2>2. ASSUME NEW i \in 1..4 PROVE b.numbers[i] = c.numbers[i]
    <3>1. PICK n, m : n = b.numbers[i] /\ m = c.numbers[i]
      OBVIOUS
    <3>2. 5 + i \in 1..(10 + k)
      OBVIOUS
    <3>3. BigEndian(n, NumberSize) = BigEndian(m, NumberSize)
      <4>1. p[5 + i] = BigEndian(n, NumberSize) /\ q[5 + i] = BigEndian(m, NumberSize)
        BY <1>3, <3>1 DEF HasBlockParts
      <4> QED
        BY <1>8, <3>2, <4>1
    <3>4. (Unsigned(n) /\ Unsigned(m)) \/ (IsSigned(n) /\ IsSigned(m))
      <4>1. CASE i = 3
        BY <3>1, <4>1 DEF IsBlock
      <4>2. CASE i # 3
        <5>1. i \in {1, 2, 4}
          BY <4>2
        <5> QED
          BY <3>1, <5>1 DEF IsBlock
      <4> QED
        BY <4>1, <4>2
    <3>5. n = m
      BY <3>3, <3>4, NumbersDiffer
    <3> QED
      BY <3>1, <3>5
  <2>3. PICK x \in Seq(Int), y \in Seq(Int), n \in Nat : x = b.numbers /\ y = c.numbers /\ n = 4
    BY <2>1
  <2>4. Len(x) = n /\ Len(y) = n /\ \A i \in 1..n : x[i] = y[i]
    BY <2>1, <2>2, <2>3
  <2>5. x = y
    BY <2>4, SameSeq
  <2> QED
    BY <2>3, <2>5
<1>11. b.txs = c.txs
  <2>1. ASSUME NEW i \in 1..k PROVE b.txs[i] = c.txs[i]
    <3>1. PICK t, v : t = b.txs[i] /\ v = c.txs[i]
      OBVIOUS
    <3>2. IsTx(t) /\ Encodable(t) /\ IsTx(v) /\ Encodable(v)
      BY <1>1, <1>7, <3>1, EncodableBlock
    <3>3. PICK s \in Seq(Bytes), u \in Seq(Bytes) : s = EncodeTx(t) /\ u = EncodeTx(v)
      BY <3>2, EncodableTx
    <3>4. p[10 + i] = Prefixed(s, CountSize) /\ q[10 + i] = Prefixed(u, CountSize)
      BY <1>3, <1>7, <3>1, <3>3 DEF HasBlockParts
    <3>5. 10 + i \in 1..(10 + k)
      OBVIOUS
    <3>6. Prefixed(s, CountSize) = Prefixed(u, CountSize)
      BY <1>8, <3>4, <3>5
    <3>7. s = u
      BY <1>0, <3>6, PrefixedDiffer
    <3>8. t = v
      BY <3>2, <3>3, <3>7, TxsDiffer
    <3> QED
      BY <3>1, <3>8
  <2>2. b.txs = [i \in 1..k |-> b.txs[i]] /\ c.txs = [i \in 1..k |-> c.txs[i]]
    BY <1>1, <1>7 DEF IsBlock
  <2>3. [i \in 1..k |-> b.txs[i]] = [i \in 1..k |-> c.txs[i]]
    BY <2>1
  <2> QED
    BY <2>2, <2>3
<1>12. /\ b = [strings |-> b.strings, numbers |-> b.numbers, txs |-> b.txs]
       /\ c = [strings |-> c.strings, numbers |-> c.numbers, txs |-> c.txs]
  BY DEF IsBlock
<1> QED
  BY <1>9, <1>10, <1>11, <1>12
-----------------------------------------------------------------------------
(* The frames. *)

\* What is written has bytes, few enough for a frame.
LEMMA ItemBytes ==
    ASSUME NEW x \in WireTxs \cup WireBlocks, Encodable(x)
    PROVE  Encode(x) \in Seq(Bytes) /\ Len(Encode(x)) <= MaxBytes
<1>1. IsTx(x) \/ IsBlock(x)
  BY ItemAssumption
<1>2. CASE IsTx(x)
  <2>1. Encode(x) = EncodeTx(x)
    BY <1>2, EncodeItem
  <2>2. CheckBytes(EncodeTx(x)) /\ EncodeTx(x) \in Seq(Bytes)
    BY <1>2, EncodableTx
  <2> QED
    BY <2>1, <2>2 DEF CheckBytes
<1>3. CASE IsBlock(x)
  <2>1. Encode(x) = EncodeBlock(x)
    BY <1>3, EncodeItems
  <2>2. CheckBytes(EncodeBlock(x))
    BY <1>3, EncodableBlock
  <2>3. PICK k \in Nat : k = Len(x.txs)
    BY <1>3 DEF IsBlock, Unsigned
  <2>4. HasBlockParts(BlockParts(x), x, k)
    BY <1>3, <2>3, BlockPartsAre
  <2>5. PICK p \in Seq(Seq(Bytes)) : p = BlockParts(x)
    BY <2>4 DEF HasBlockParts
  <2>6. PICK o : Places(Concat(p), p, o)
    BY PartsHavePlaces
  <2>7. EncodeBlock(x) \in Seq(Bytes)
    BY <2>5, <2>6 DEF EncodeBlock, BlockParts, Places
  <2> QED
    BY <2>1, <2>2, <2>7 DEF CheckBytes
<1> QED
  BY <1>1, <1>2, <1>3

\* A transaction has at least a byte.
LEMMA TxHasBytes ==
    ASSUME NEW t, IsTx(t)
    PROVE  0 < Len(EncodeTx(t))
<1>0. NumberSize \in Widths /\ NumberSize \in Nat \ {0}
  BY WireAssumption DEF Widths
<1>1. PICK parts : parts = Fields(t.strings, t.numbers)
  OBVIOUS
<1>2. /\ parts \in Seq(Seq(Bytes)) /\ Len(parts) = 11
      /\ \A i \in 1..5 : parts[6 + i] = BigEndian(t.numbers[i], NumberSize)
  BY <1>1, TxParts
<1>3. PICK o : Places(EncodeTx(t), parts, o)
  BY <1>1, <1>2, PartsHavePlaces DEF EncodeTx
<1>4. o[10] \in Nat /\ o[11] = o[10] + Len(parts[11]) /\ o[11] = Len(EncodeTx(t))
  <2>1. 11 \in 1..11 /\ 11 - 1 = 10 /\ 10 \in 0..11
    OBVIOUS
  <2> QED
    BY <1>2, <1>3, <2>1 DEF Places
<1>5. Len(parts[11]) = NumberSize
  <2>1. t.numbers \in Seq(Int) /\ Len(t.numbers) = 5
    BY DEF IsTx
  <2>2. t.numbers[5] \in Int
    BY <2>1
  <2>3. PICK n \in Int : n = t.numbers[5]
    BY <2>2
  <2>4. 6 + 5 = 11 /\ 5 \in 1..5
    OBVIOUS
  <2>5. parts[11] = BigEndian(n, NumberSize)
    BY <1>2, <2>3, <2>4
  <2> QED
    BY <1>0, <2>5, BigEndianBytes
<1> QED
  BY <1>0, <1>4, <1>5

\* The bytes of frame are the first of data.
FirstOf(data, frame) ==
    Len(frame) <= Len(data) /\ \A j \in 1..Len(frame) : data[j] = frame[j]

\* What unframe makes of the first n bytes of a stream that starts with e's frame,
\* and what is after the length in them.
LEMMA Unframed ==
    ASSUME NEW s \in Seq(Bytes), NEW e \in Seq(Bytes), Len(e) <= MaxBytes,
           FirstOf(s, Frame(e)), NEW n \in Nat, n <= Len(s)
    PROVE  /\ n = FrameSize + Len(e) => Unframe(SubSeq(s, 1, n)) = {e}
           /\ n # FrameSize + Len(e) => Unframe(SubSeq(s, 1, n)) = {}
           /\ (FrameSize <= n /\ n <= FrameSize + Len(e)) =>
                SubSeq(SubSeq(s, 1, n), FrameSize + 1, n) = SubSeq(e, 1, n - FrameSize)
<1>0. FrameSize \in Widths /\ FrameSize \in Nat \ {0}
  BY WireAssumption DEF Widths
<1>1. PICK w \in Nat \ {0}, k \in Nat : w = FrameSize /\ k = Len(e)
  BY <1>0
<1>2. PICK f : f = Frame(e)
  OBVIOUS
<1>3. HasPrefix(f, e, w)
  BY <1>0, <1>1, <1>2, PrefixedHas DEF Frame
<1>4. /\ Len(f) = w + k /\ \A j \in 1..w : f[j] = BigEndian(k, w)[j]
      /\ \A j \in 1..k : f[w + j] = e[j]
  BY <1>1, <1>3 DEF HasPrefix
<1>5. w + k <= Len(s) /\ \A j \in 1..(w + k) : s[j] = f[j]
  BY <1>2, <1>4 DEF FirstOf
<1>6. PICK data : data = SubSeq(s, 0 + 1, n)
  OBVIOUS
<1>7. data \in Seq(Bytes) /\ Len(data) = n /\ \A j \in 1..n : data[j] = s[j]
  <2>1. 0 \in Nat /\ 0 <= n
    OBVIOUS
  <2>2. data \in Seq(Bytes) /\ Len(data) = n - 0 /\ \A j \in 1..(n - 0) : data[j] = s[0 + j]
    BY <1>6, <2>1, Cut
  <2>3. n - 0 = n /\ \A j \in 1..n : 0 + j = j
    OBVIOUS
  <2> QED
    BY <2>2, <2>3
<1>8. data = SubSeq(s, 1, n)
  BY <1>6
<1>9. ASSUME w <= n PROVE Number(SubSeq(data, 1, w)) = k
  <2>1. PICK h : h = SubSeq(data, 0 + 1, w)
    OBVIOUS
  <2>2. h \in Seq(Bytes) /\ Len(h) = w - 0 /\ \A j \in 1..(w - 0) : h[j] = data[0 + j]
    <3>1. 0 \in Nat /\ 0 <= w /\ w <= Len(data) /\ w \in Nat
      BY <1>7, <1>9
    <3> QED
      BY <1>7, <2>1, <3>1, Cut
  <2>3. PICK q : q = BigEndian(k, w)
    OBVIOUS
  <2>4. q \in Seq(Bytes) /\ Len(q) = w
    BY <1>0, <1>1, <2>3, BigEndianBytes
  <2>5. ASSUME NEW j \in 1..w PROVE h[j] = q[j]
    <3>1. j \in 1..(w - 0) /\ 0 + j = j /\ j \in 1..n /\ j \in 1..(w + k)
      BY <1>9
    <3>2. h[j] = data[j] /\ data[j] = s[j] /\ s[j] = f[j] /\ f[j] = q[j]
      BY <1>4, <1>5, <1>7, <2>2, <2>3, <3>1
    <3> QED
      BY <3>2
  <2>6. h = q
    <3>1. Len(h) = w
      BY <2>2
    <3> QED
      BY <2>2, <2>4, <2>5, <3>1, SameSeq
  <2>7. k < Base^FrameSize
    <3>1. PICK x \in Nat \ {0} : x = Base^FrameSize
      BY <1>0, Powers
    <3>2. MaxBytes \in Nat /\ MaxBytes < x
      BY <3>1, WireAssumption
    <3>3. k <= MaxBytes
      BY <1>1
    <3>4. k < x
      BY <3>2, <3>3
    <3> QED
      BY <3>1, <3>4
  <2>8. Number(q) = k
    BY <1>0, <1>1, <2>3, <2>7, FitsIsRead
  <2>9. h = SubSeq(data, 1, w)
    BY <2>1
  <2> QED
    BY <2>6, <2>8, <2>9
<1>10. PICK payload : payload = SubSeq(data, w + 1, n)
  OBVIOUS
<1>11. ASSUME w <= n
       PROVE payload \in Seq(Bytes) /\ Len(payload) = n - w /\ \A j \in 1..(n - w) : payload[j] = data[w + j]
  <2>1. w \in Nat /\ n <= Len(data)
    BY <1>7
  <2> QED
    BY <1>7, <1>10, <1>11, <2>1, Cut
<1>12. ASSUME w <= n, n <= w + k PROVE payload = SubSeq(e, 1, n - w)
  <2>1. PICK m \in Nat : m = n - w
    BY <1>12
  <2>2. PICK z : z = SubSeq(e, 0 + 1, m)
    OBVIOUS
  <2>3. z \in Seq(Bytes) /\ Len(z) = m - 0 /\ \A j \in 1..(m - 0) : z[j] = e[0 + j]
    <3>1. 0 \in Nat /\ 0 <= m /\ m <= Len(e)
      BY <1>1, <1>12, <2>1
    <3> QED
      BY <2>2, <3>1, Cut
  <2>4. ASSUME NEW j \in 1..m PROVE payload[j] = z[j]
    <3>1. j \in 1..(m - 0) /\ 0 + j = j /\ j \in 1..(n - w) /\ w + j \in 1..n /\ w + j \in 1..(w + k)
          /\ j \in 1..k
      BY <1>12, <2>1
    <3>2. /\ payload[j] = data[w + j] /\ data[w + j] = s[w + j] /\ s[w + j] = f[w + j]
          /\ f[w + j] = e[j] /\ e[j] = z[j]
      BY <1>4, <1>5, <1>7, <1>11, <1>12, <2>3, <3>1
    <3> QED
      BY <3>2
  <2>5. Len(payload) = m /\ Len(z) = m /\ payload \in Seq(Bytes)
    BY <1>11, <1>12, <2>1, <2>3
  <2>6. payload = z
    BY <2>3, <2>4, <2>5, SameSeq
  <2> QED
    BY <2>1, <2>2, <2>6
<1>13. ASSUME n = w + k PROVE Unframe(data) = {e}
  <2>1. w <= n /\ n <= w + k /\ n - w = k
    BY <1>13
  <2>2. payload = e
    <3>1. payload = SubSeq(e, 1, k)
      BY <1>12, <2>1
    <3>2. SubSeq(e, 1, k) = e
      BY <1>1
    <3> QED
      BY <3>1, <3>2
  <2>3. /\ Len(data) >= FrameSize
        /\ Number(SubSeq(data, 1, FrameSize)) = Len(payload)
        /\ CheckBytes(payload)
    BY <1>1, <1>7, <1>9, <2>1, <2>2 DEF CheckBytes
  <2>4. payload = SubSeq(data, FrameSize + 1, Len(data))
    BY <1>1, <1>7, <1>10
  <2> QED
    BY <2>2, <2>3, <2>4 DEF Unframe
<1>14. ASSUME n # w + k PROVE Unframe(data) = {}
  <2>1. CASE w <= n
    <3>1. Number(SubSeq(data, 1, FrameSize)) # Len(payload)
      <4>1. k # n - w
        BY <1>14
      <4> QED
        BY <1>1, <1>9, <1>11, <2>1, <4>1
    <3>2. payload = SubSeq(data, FrameSize + 1, Len(data))
      BY <1>1, <1>7, <1>10
    <3> QED
      BY <3>1, <3>2 DEF Unframe
  <2>2. CASE ~(w <= n)
    <3>1. ~(Len(data) >= FrameSize)
      BY <1>1, <1>7, <2>2
    <3> QED
      BY <3>1 DEF Unframe
  <2> QED
    BY <2>1, <2>2
<1> QED
  BY <1>1, <1>8, <1>10, <1>12, <1>13, <1>14

\* What was written could be encoded, the stream starts with the frame of the
\* first, and no more has arrived than was written.
WireInv ==
    /\ written \in Seq(WireTxs \cup WireBlocks)
    /\ \A i \in 1..Len(written) : Encodable(written[i])
    /\ stream \in Seq(Bytes) /\ arrived \in Nat /\ arrived <= Len(stream)
    /\ written = <<>> => stream = <<>>
    /\ written # <<>> => FirstOf(stream, Frame(Encode(written[1])))

\* It holds at first and is kept by every step.
LEMMA WireInvInit == WireInit => WireInv
BY DEF WireInit, WireInv

LEMMA WireInvWrite ==
    ASSUME WireInv, NEW x \in WireTxs \cup WireBlocks, WriteFrame(x)
    PROVE  WireInv'
<1> DEFINE T == WireTxs \cup WireBlocks
<1>0. FrameSize \in Widths
  BY DEF Widths
<1>1. /\ written \in Seq(T) /\ \A i \in 1..Len(written) : Encodable(written[i])
      /\ stream \in Seq(Bytes) /\ arrived \in Nat /\ arrived <= Len(stream)
  BY DEF WireInv
<1>2. /\ Encodable(x) /\ written' = Append(written, x)
      /\ stream' = stream \o Frame(Encode(x)) /\ arrived' = arrived
  BY DEF WriteFrame
<1>3. PICK e \in Seq(Bytes) : e = Encode(x)
  BY <1>2, ItemBytes
<1>4. PICK f : f = Frame(e)
  OBVIOUS
<1>5. f \in Seq(Bytes)
  BY <1>0, <1>4, PrefixedHas DEF Frame, HasPrefix
<1>6. PICK k, a, b \in Nat : k = Len(written) /\ a = Len(stream) /\ b = Len(f)
  BY <1>1, <1>5
<1>7. /\ written' \in Seq(T) /\ Len(written') = k + 1 /\ written'[k + 1] = x
      /\ \A i \in 1..k : written'[i] = written[i]
  <2>1. x \in T
    OBVIOUS
  <2> HIDE DEF T
  <2> QED
    BY <1>1, <1>2, <1>6, <2>1, Appended
<1>8. stream' \in Seq(Bytes) /\ Len(stream') = a + b
      /\ \A j \in 1..(a + b) : stream'[j] = IF j <= a THEN stream[j] ELSE f[j - a]
  <2>1. stream' = stream \o f
    BY <1>2, <1>3, <1>4
  <2> QED
    BY <1>1, <1>5, <1>6, <2>1, ConcatProperties
<1>9. ASSUME NEW i \in 1..Len(written') PROVE Encodable(written'[i])
  <2>1. i \in 1..(k + 1)
    BY <1>7
  <2>2. CASE i = k + 1
    BY <1>2, <1>7, <2>2
  <2>3. CASE i # k + 1
    <3>1. i \in 1..k
      BY <2>1, <2>3
    <3> QED
      BY <1>1, <1>6, <1>7, <3>1
  <2> QED
    BY <2>2, <2>3
<1>10. arrived' \in Nat /\ arrived' <= Len(stream')
  BY <1>1, <1>2, <1>6, <1>8
<1>11. written' # <<>>
  <2>1. Len(written') # 0
    BY <1>6, <1>7
  <2> QED
    BY <2>1
<1>12. FirstOf(stream', Frame(Encode(written'[1])))
  <2>1. CASE written = <<>>
    <3>1. k = 0 /\ stream = <<>>
      BY <1>6, <2>1 DEF WireInv
    <3>2. a = 0 /\ written'[1] = x
      BY <1>6, <1>7, <3>1
    <3>3. Len(stream') = b /\ \A j \in 1..b : stream'[j] = f[j]
      BY <1>8, <3>2
    <3>4. FirstOf(stream', f)
      BY <1>6, <3>3 DEF FirstOf
    <3> QED
      BY <1>3, <1>4, <3>2, <3>4
  <2>2. CASE written # <<>>
    <3>1. PICK g : g = Frame(Encode(written[1]))
      OBVIOUS
    <3>2. FirstOf(stream, g)
      BY <2>2, <3>1 DEF WireInv
    <3>3. k # 0
      BY <1>1, <1>6, <2>2
    <3>4. written'[1] = written[1] /\ 1 \in 1..Len(written)
      BY <1>6, <1>7, <3>3
    <3>5. PICK y \in T : y = written[1]
      BY <1>1, <3>4
    <3>6. Encodable(y)
      BY <1>1, <3>4, <3>5
    <3>7. PICK d \in Seq(Bytes) : d = Encode(y)
      BY <3>5, <3>6, ItemBytes
    <3>8. g \in Seq(Bytes)
      BY <1>0, <3>1, <3>5, <3>7, PrefixedHas DEF Frame, HasPrefix
    <3>9. PICK c \in Nat : c = Len(g)
      BY <3>8
    <3>10. c <= a /\ \A j \in 1..c : stream[j] = g[j]
      BY <1>6, <3>2, <3>9 DEF FirstOf
    <3>11. ASSUME NEW j \in 1..c PROVE stream'[j] = g[j]
      <4>1. j \in 1..(a + b) /\ j <= a
        BY <3>10
      <4> QED
        BY <1>8, <3>10, <4>1
    <3>12. c <= a + b
      BY <3>10
    <3>13. FirstOf(stream', g)
      BY <1>8, <3>9, <3>11, <3>12 DEF FirstOf
    <3> QED
      BY <3>1, <3>4, <3>13
  <2> QED
    BY <2>1, <2>2
<1> QED
  BY <1>7, <1>8, <1>9, <1>10, <1>11, <1>12 DEF WireInv

LEMMA WireInvNext == WireInv /\ [WireNext]_WireVars => WireInv'
<1> SUFFICES ASSUME WireInv, [WireNext]_WireVars PROVE WireInv'
  OBVIOUS
<1>1. ASSUME NEW x \in WireTxs \cup WireBlocks, WriteFrame(x) PROVE WireInv'
  BY <1>1, WireInvWrite
<1>2. ASSUME Arrive PROVE WireInv'
  <2>1. arrived < Len(stream) /\ arrived' = arrived + 1 /\ written' = written /\ stream' = stream
    BY <1>2 DEF Arrive
  <2>2. arrived \in Nat /\ Len(stream) \in Nat
    BY DEF WireInv
  <2>3. arrived' \in Nat /\ arrived' <= Len(stream)
    BY <2>1, <2>2
  <2> QED
    BY <2>1, <2>3 DEF WireInv
<1>3. ASSUME UNCHANGED WireVars PROVE WireInv'
  BY <1>3 DEF WireInv, WireVars
<1> QED
  BY <1>1, <1>2, <1>3 DEF WireNext

\* The first frame: unframe takes it, all of it and nothing else, and a
\* transaction in it is decoded, a part of one is not.
FrameFaithful ==
    LET data == SubSeq(stream, 1, arrived)
    IN IF written # <<>> /\ arrived = FrameSize + Len(Encode(written[1]))
       THEN /\ Unframe(data) = {Encode(written[1])}
            /\ written[1] \in WireTxs =>
                  DecodeTx(Encode(written[1])) = {written[1]}
       ELSE /\ Unframe(data) = {}
            /\ (/\ written # <<>> /\ written[1] \in WireTxs
                /\ arrived < FrameSize + Len(Encode(written[1]))) =>
                  DecodeTx(SubSeq(data, FrameSize + 1, arrived)) = {}

LEMMA FramesSafe == WireInv => FrameFaithful
<1> SUFFICES ASSUME WireInv PROVE FrameFaithful
  OBVIOUS
<1>0. FrameSize \in Nat \ {0}
  BY WireAssumption DEF Widths
<1>1. stream \in Seq(Bytes) /\ arrived \in Nat /\ arrived <= Len(stream)
  BY DEF WireInv
<1>2. PICK data : data = SubSeq(stream, 1, arrived)
  OBVIOUS
<1>3. CASE written = <<>>
  <2>1. stream = <<>>
    BY <1>3 DEF WireInv
  <2>2. arrived = 0
    BY <1>1, <2>1
  <2>3. data = <<>>
    BY <1>2, <2>1, <2>2
  <2>4. ~(Len(data) >= FrameSize)
    BY <1>0, <2>3
  <2>5. Unframe(data) = {}
    BY <2>4 DEF Unframe
  <2> QED
    BY <1>2, <1>3, <2>5 DEF FrameFaithful
<1>4. CASE written # <<>>
  <2>1. PICK x \in WireTxs \cup WireBlocks : x = written[1] /\ Encodable(x)
    <3>1. written \in Seq(WireTxs \cup WireBlocks) /\ \A i \in 1..Len(written) : Encodable(written[i])
      BY DEF WireInv
    <3>2. 1 \in 1..Len(written)
      BY <1>4, <3>1
    <3> QED
      BY <3>1, <3>2
  <2>2. PICK e \in Seq(Bytes) : e = Encode(x) /\ Len(e) <= MaxBytes
    BY <2>1, ItemBytes
  <2>3. FirstOf(stream, Frame(e))
    BY <1>4, <2>1, <2>2 DEF WireInv
  <2>4. PICK w, k, n \in Nat : w = FrameSize /\ k = Len(e) /\ n = arrived
    BY <1>0, <1>1, SMTT(40)
  <2>5. /\ n = w + k => Unframe(data) = {e}
        /\ n # w + k => Unframe(data) = {}
        /\ (w <= n /\ n <= w + k) => SubSeq(data, w + 1, n) = SubSeq(e, 1, n - w)
    <3>1. /\ n = FrameSize + Len(e) => Unframe(SubSeq(stream, 1, n)) = {e}
          /\ n # FrameSize + Len(e) => Unframe(SubSeq(stream, 1, n)) = {}
          /\ (FrameSize <= n /\ n <= FrameSize + Len(e)) =>
               SubSeq(SubSeq(stream, 1, n), FrameSize + 1, n) = SubSeq(e, 1, n - FrameSize)
      BY <1>1, <2>2, <2>3, <2>4, Unframed
    <3> QED
      BY <1>2, <2>4, <3>1
  <2>6. ASSUME x \in WireTxs
        PROVE  /\ DecodeTx(e) = {x}
               /\ n < w + k => DecodeTx(SubSeq(data, w + 1, n)) = {}
    <3>1. IsTx(x)
      BY <2>6, ItemAssumption
    <3>2. e = EncodeTx(x)
      BY <2>2, <3>1, EncodeItem
    <3>3. /\ \A i \in 1..6 : Puttable(x.strings[i])
          /\ CheckBytes(EncodeTx(x)) /\ SubSeq(e, 1, k) = e
      BY <2>1, <2>4, <3>1, <3>2, EncodableTx
    <3>4. ASSUME NEW m \in Nat, m <= k
          PROVE  /\ m = k => DecodeTx(SubSeq(e, 1, m)) = {x}
                 /\ m < k => DecodeTx(SubSeq(e, 1, m)) = {}
      <4>1. m <= Len(EncodeTx(x))
        BY <2>4, <3>2, <3>4
      <4>2. /\ m = Len(EncodeTx(x)) => DecodeTx(SubSeq(EncodeTx(x), 1, m)) = {x}
            /\ m < Len(EncodeTx(x)) => DecodeTx(SubSeq(EncodeTx(x), 1, m)) = {}
        BY <3>1, <3>3, <4>1, TxDecodes
      <4> QED
        BY <2>4, <3>2, <4>2
    <3>5. DecodeTx(e) = {x}
      <4>1. k <= k
        OBVIOUS
      <4>2. DecodeTx(SubSeq(e, 1, k)) = {x}
        BY <3>4, <4>1
      <4> QED
        BY <3>3, <4>2
    <3>6. ASSUME n < w + k PROVE DecodeTx(SubSeq(data, w + 1, n)) = {}
      <4>1. CASE w <= n
        <5>1. PICK m \in Nat : m = n - w
          BY <4>1
        <5>2. m < k /\ m <= k /\ n <= w + k
          BY <3>6, <5>1
        <5>3. SubSeq(data, w + 1, n) = SubSeq(e, 1, m)
          BY <2>5, <4>1, <5>1, <5>2
        <5>4. DecodeTx(SubSeq(e, 1, m)) = {}
          BY <3>4, <5>2
        <5> QED
          BY <5>3, <5>4
      <4>2. CASE ~(w <= n)
        <5>1. 0 < k
          BY <2>4, <3>1, <3>2, TxHasBytes
        <5>2. 0 \in Nat /\ 0 <= k
          OBVIOUS
        <5>3. DecodeTx(SubSeq(e, 1, 0)) = {}
          BY <3>4, <5>1, <5>2
        <5>4. SubSeq(e, 1, 0) = <<>>
          OBVIOUS
        <5>5. SubSeq(data, w + 1, n) = <<>>
          <6>1. data \in Seq(Bytes)
            BY <1>1, <1>2
          <6>2. n < w + 1
            BY <4>2
          <6> QED
            BY <6>1, <6>2
        <5> QED
          BY <5>3, <5>4, <5>5
      <4> QED
        BY <4>1, <4>2
    <3> QED
      BY <3>5, <3>6
  <2>7. FrameSize + Len(Encode(written[1])) = w + k
    BY <2>1, <2>2, <2>4
  <2>8. CASE n = w + k
    <3>1. Unframe(data) = {e}
      BY <2>5, <2>8
    <3> QED
      BY <1>2, <1>4, <2>1, <2>2, <2>4, <2>6, <2>7, <2>8, <3>1 DEF FrameFaithful
  <2>9. CASE n # w + k
    <3>1. Unframe(data) = {}
      BY <2>5, <2>9
    <3> QED
      BY <1>2, <1>4, <2>1, <2>2, <2>4, <2>6, <2>7, <2>9, <3>1 DEF FrameFaithful
  <2> QED
    BY <2>8, <2>9
<1> QED
  BY <1>3, <1>4

\* Different transactions, or blocks, are written as different bytes.
BytesDiffer ==
    \A i, j \in 1..Len(written) :
        /\ Encode(written[i]) = Encode(written[j])
        /\ written[i] \in WireTxs <=> written[j] \in WireTxs
        => written[i] = written[j]

LEMMA BytesSafe == WireInv => BytesDiffer
<1> SUFFICES ASSUME WireInv, NEW i \in 1..Len(written), NEW j \in 1..Len(written),
                    Encode(written[i]) = Encode(written[j]),
                    written[i] \in WireTxs <=> written[j] \in WireTxs
             PROVE  written[i] = written[j]
  BY DEF BytesDiffer
<1>1. PICK x, y \in WireTxs \cup WireBlocks : x = written[i] /\ y = written[j]
  BY DEF WireInv
<1>2. Encodable(x) /\ Encodable(y) /\ Encode(x) = Encode(y) /\ (x \in WireTxs <=> y \in WireTxs)
  BY <1>1 DEF WireInv
<1>3. CASE x \in WireTxs
  <2>1. IsTx(x) /\ IsTx(y)
    BY <1>2, <1>3, ItemAssumption
  <2>2. EncodeTx(x) = EncodeTx(y)
    BY <1>2, <2>1, EncodeItem
  <2> QED
    BY <1>1, <1>2, <2>1, <2>2, TxsDiffer
<1>4. CASE x \notin WireTxs
  <2>1. IsBlock(x) /\ IsBlock(y)
    BY <1>2, <1>4, ItemAssumption
  <2>2. EncodeBlock(x) = EncodeBlock(y)
    BY <1>2, <2>1, EncodeItems
  <2> QED
    BY <1>1, <1>2, <2>1, <2>2, BlocksDiffer
<1> QED
  BY <1>3, <1>4

\* unframe accepts one whole frame and nothing else, a transaction is decoded to
\* itself and a part of it to none, and no two transactions, and no two blocks,
\* are written as the same bytes (canonical.go:16-99, limits.go:89-113).
THEOREM WireSafe == WireSpec => []WireFaithful
<1>1. WireInv => WireFaithful
  BY FramesSafe, BytesSafe DEF WireFaithful, FrameFaithful, BytesDiffer
<1> QED
  BY <1>1, WireInvInit, WireInvNext, PTL DEF WireSpec
=============================================================================
