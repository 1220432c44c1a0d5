-------------------------- MODULE SyncWorkerProofs --------------------------
(***************************************************************************)
(* One walk at a time, a truthful last result, the download quota and      *)
(* complete counts, for any number of callers, any requests and any widths.*)
(***************************************************************************)
EXTENDS SyncWorker, FiniteSetTheorems, TLAPS

\* What OneWalk, LastIsTruthful and QuotaHolds need to be inductive: a result
\* about to be stored is final, and the result a walk starts from is empty.
WalkLocals ==
    \A c \in Callers :
        /\ call[c].pc \in {"finish", "release"} =>
             call[c].res.Status \in {"failed", "complete"}
        /\ call[c].pc = "check" => last = Result("running", 0, 0)

SyncInv == SyncTypeOK /\ OneWalk /\ LastIsTruthful /\ QuotaHolds /\ WalkLocals
-----------------------------------------------------------------------------
\* A number of the width is itself; every other one is taken there by a multiple
\* of 2^CountBits.
LEMMA SignedFacts ==
    /\ \A n \in Counters : Signed(n) = n
    /\ \A n \in Int : /\ Signed(n) \in Counters
                      /\ \E q \in Int : Signed(n) = n - q * (2 * 2^(CountBits - 1))
<1> DEFINE N == 2^(CountBits - 1)
<1>1. N \in Nat \ {0} BY SyncAssumption
<1>2. Counters = -N .. N - 1 BY DEF Counters
<1>3. \A n : Signed(n) = ((n + N) % (2 * N)) - N BY DEF Signed
<1> HIDE DEF N
<1>4. ASSUME NEW n \in Counters PROVE Signed(n) = n
  <2>1. n + N \in 0..(2 * N - 1) BY <1>1, <1>2
  <2>2. (n + N) % (2 * N) = n + N BY <1>1, <2>1
  <2>3. n \in Int BY <1>1, <1>2
  <2>4. Signed(n) = (n + N) - N BY <1>3, <2>2
  <2> QED BY <1>1, <2>3, <2>4
<1>5. ASSUME NEW n \in Int
      PROVE Signed(n) \in Counters /\ \E q \in Int : Signed(n) = n - q * (2 * N)
  <2> DEFINE M == 2 * N
             q == (n + N) \div M
  <2>1. M \in Nat \ {0} /\ n + N \in Int BY <1>1
  <2>2. Signed(n) = ((n + N) % M) - N BY <1>3
  <2>3. (n + N) % M \in 0..(M - 1) BY <2>1
  <2>4. Signed(n) \in Counters BY <1>1, <1>2, <2>2, <2>3
  <2>5. q \in Int /\ n + N = M * q + ((n + N) % M)
    <3>1. PICK x \in Int : x = n + N BY <2>1
    <3> HIDE DEF M
    <3>2. x \div M \in Int /\ x = M * (x \div M) + (x % M) BY <2>1
    <3> QED BY <3>1, <3>2
  <2>6. Signed(n) = n - q * M
    <3>1. (n + N) % M \in Int BY <2>3
    <3> HIDE DEF M, q
    <3> QED BY <1>1, <2>1, <2>2, <2>5, <3>1
  <2> QED BY <2>4, <2>5, <2>6
<1> QED BY <1>4, <1>5 DEF N

\* A counter's ++ stays in its width, and adds one where there is room.
LEMMA CountUpFacts ==
    /\ 0 \in Counters /\ Counters \subseteq Int
    /\ \A n \in Counters :
         CountUp(n) \in Counters /\ (n + 1 \in Counters => CountUp(n) = n + 1)
<1> DEFINE N == 2^(CountBits - 1)
<1>1. N \in Nat \ {0} BY SyncAssumption
<1>2. Counters = -N .. N - 1 BY DEF Counters
<1> HIDE DEF N
<1>3. 0 \in Counters /\ Counters \subseteq Int BY <1>1, <1>2
<1> QED BY <1>3, SignedFacts DEF CountUp

\* A height's ++ is a height.
LEMMA NextHeightFacts == \A h \in 0..MaxHeight : NextHeight(h) \in 0..MaxHeight
<1> DEFINE N == 2^HeightBits
<1>1. N \in Nat \ {0} BY SyncAssumption
<1>2. MaxHeight = N - 1 BY DEF MaxHeight
<1>3. \A h : NextHeight(h) = (h + 1) % N BY DEF NextHeight
<1> HIDE DEF N
<1> QED BY <1>1, <1>2, <1>3

\* The results a walk starts and fails with.
LEMMA ResultFacts ==
    /\ Result("running", 0, 0) \in Results /\ Result("failed", 0, 0) \in Results
    /\ NoResult \in Results
    /\ Result("running", 0, 0).Downloaded = 0 /\ Result("failed", 0, 0).Downloaded = 0
    /\ Result("running", 0, 0).Status = "running"
    /\ Result("failed", 0, 0).Status = "failed"
    /\ NoResult.Status = ""
BY CountUpFacts DEF Result, NoResult, Results

\* Counting a height changes one counter, by its ++.
LEMMA CountedFacts ==
    ASSUME NEW res \in Results, NEW h
    PROVE  /\ Counted(res, h) \in Results
           /\ \/ Counted(res, h).Downloaded = res.Downloaded
              \/ res.Downloaded + 1 \in Counters =>
                   Counted(res, h).Downloaded = res.Downloaded + 1
BY CountUpFacts DEF Counted, Results

\* Ending a walk changes only the status.
LEMMA StatusFacts ==
    ASSUME NEW res \in Results, NEW s \in {"failed", "complete"}
    PROVE  /\ [res EXCEPT !.Status = s] \in Results
           /\ [res EXCEPT !.Status = s].Status = s
           /\ [res EXCEPT !.Status = s].Downloaded = res.Downloaded
BY DEF Results
-----------------------------------------------------------------------------
\* What QuotaHolds says of a walk's result, and of a result that failed.
QuotaOf(rq, res) ==
    Enforceable(rq) =>
        res.Downloaded >= 0 /\ (res.Downloaded - 1) * BlockBytes <= rq.MaxBytes

FailedOf(rq, res, done) ==
    ~done /\ res.Status = "failed" /\ rq.From <= rq.To =>
        Enforceable(rq) /\ res.Downloaded * BlockBytes > rq.MaxBytes

\* The types a quota is made of, and the greatest number.
LEMMA QuotaTypes ==
    ASSUME NEW rq \in SyncRequests, NEW res \in Results
    PROVE  /\ rq.MaxBytes \in Counters /\ rq.MaxBytes \in Int
           /\ BlockBytes \in Nat \ {0}
           /\ res.Downloaded \in Counters /\ res.Downloaded \in Int
BY CountUpFacts, SyncAssumption DEF Results

\* Multiplying by a block's bytes keeps the order.
LEMMA Times ==
    ASSUME NEW a \in Int, NEW b \in Int, a <= b
    PROVE  a * BlockBytes <= b * BlockBytes
<1>1. BlockBytes \in Nat \ {0} BY SyncAssumption
<1> QED BY <1>1

\* The bytes of a result that keeps an enforceable quota do not wrap around.
LEMMA QuotaBytes ==
    ASSUME NEW rq \in SyncRequests, NEW res \in Results,
           Enforceable(rq), QuotaOf(rq, res)
    PROVE  Signed(res.Downloaded * BlockBytes) = res.Downloaded * BlockBytes
<1> DEFINE d == res.Downloaded
           m == rq.MaxBytes
           N == 2^(CountBits - 1)
<1>1. m \in Int /\ d \in Int /\ BlockBytes \in Nat \ {0} BY QuotaTypes
<1>2. N \in Nat \ {0} /\ Counters = -N .. N - 1 BY SyncAssumption DEF Counters
<1>3. d >= 0 /\ (d - 1) * BlockBytes <= m /\ m + BlockBytes \in Counters
    BY DEF QuotaOf, Enforceable
<1> HIDE DEF d, m, N
<1>4. d * BlockBytes \in Nat BY <1>1, <1>3
<1>5. d * BlockBytes = (d - 1) * BlockBytes + BlockBytes BY <1>1
<1>6. d * BlockBytes \in Counters
  <2>1. (d - 1) * BlockBytes \in Int BY <1>1
  <2> QED BY <1>1, <1>2, <1>3, <1>4, <1>5, <2>1
<1> QED BY <1>6, SignedFacts DEF d

\* A result within the quota has room for one more block, and its counter for
\* one more.
LEMMA QuotaStep ==
    ASSUME NEW rq \in SyncRequests, NEW res \in Results, NEW h,
           QuotaOf(rq, res), ~OverQuota(rq, res)
    PROVE  QuotaOf(rq, Counted(res, h))
<1> DEFINE d == res.Downloaded
           e == Counted(res, h).Downloaded
           m == rq.MaxBytes
           N == 2^(CountBits - 1)
<1>1. m \in Int /\ d \in Int /\ BlockBytes \in Nat \ {0} BY QuotaTypes
<1>2. N \in Nat \ {0} /\ Counters = -N .. N - 1 BY SyncAssumption DEF Counters
<1>3. SUFFICES ASSUME Enforceable(rq)
               PROVE  e >= 0 /\ (e - 1) * BlockBytes <= m
    BY DEF QuotaOf
<1>4. d >= 0 /\ (d - 1) * BlockBytes <= m /\ m + BlockBytes \in Counters /\ m > 0
    BY <1>3 DEF QuotaOf, Enforceable
<1>5. d * BlockBytes <= m
  <2>1. Signed(d * BlockBytes) = d * BlockBytes BY <1>3, QuotaBytes
  <2>2. d * BlockBytes \in Int BY <1>1
  <2> QED BY <1>1, <1>4, <2>1, <2>2 DEF OverQuota
<1>6. e = d \/ (d + 1 \in Counters => e = d + 1) BY CountedFacts
<1> HIDE DEF d, e, m, N
<1>7. CASE e = d BY <1>4, <1>7
<1>8. CASE d + 1 \in Counters => e = d + 1
  <2>1. d * BlockBytes >= d /\ d * BlockBytes \in Int BY <1>1, <1>4
  <2>2. d + 1 \in Counters BY <1>1, <1>2, <1>4, <1>5, <2>1
  <2>3. e = d + 1 BY <1>8, <2>2
  <2>4. e - 1 = d /\ e >= 0 BY <1>1, <1>4, <2>3
  <2> QED BY <1>5, <2>4
<1> QED BY <1>6, <1>7, <1>8

\* A result with nothing downloaded is within every quota.
LEMMA QuotaStart ==
    ASSUME NEW rq \in SyncRequests, NEW res, res.Downloaded = 0
    PROVE  QuotaOf(rq, res)
<1>1. rq.MaxBytes \in Int /\ BlockBytes \in Nat \ {0}
    BY CountUpFacts, SyncAssumption
<1>2. (0 - 1) * BlockBytes <= 0 BY <1>1
<1> QED BY <1>1, <1>2 DEF QuotaOf, Enforceable

\* No number of bytes is within a block of the greatest number: they are
\* multiples of a block, and so is half of 2^CountBits.
LEMMA BytesBelow ==
    ASSUME NEW d \in Int
    PROVE  Signed(d * BlockBytes) + BlockBytes <= 2^(CountBits - 1)
<1> DEFINE N == 2^(CountBits - 1)
           B == BlockBytes
           s == Signed(d * B)
<1>1. N \in Nat \ {0} /\ B \in Nat \ {0} BY SyncAssumption
<1>2. PICK m \in 1..N : m * B = N BY SyncAssumption
<1>3. d * B \in Int BY <1>1
<1>4. s \in Counters /\ \E q \in Int : s = d * B - q * (2 * N)
    BY <1>3, SignedFacts
<1>5. PICK q \in Int : s = d * B - q * (2 * N) BY <1>4
<1>6. Counters = -N .. N - 1 BY DEF Counters
<1>a. m \in Int BY <1>1
<1> HIDE DEF N, B, s
<1> DEFINE k == d - q * (2 * m)
<1>7. k \in Int BY <1>a
<1>8. s = k * B
  <2>1. q * (2 * N) = (q * (2 * m)) * B BY <1>1, <1>2, <1>a
  <2>2. PICK t \in Int : t = q * (2 * m) BY <1>a
  <2>3. s = d * B - t * B BY <1>5, <2>1, <2>2
  <2>4. k = d - t BY <2>2
  <2>5. (d - t) * B = d * B - t * B BY <1>1, <2>2
  <2> QED BY <2>3, <2>4, <2>5
<1> HIDE DEF k
<1>9. k < m
  <2> SUFFICES ASSUME m <= k PROVE FALSE BY <1>7, <1>a
  <2>1. m * B <= k * B BY <1>7, <1>a, Times DEF B
  <2> QED BY <1>1, <1>2, <1>4, <1>6, <1>8, <2>1
<1>10. (k + 1) * B <= m * B
  <2>1. k + 1 <= m BY <1>7, <1>9, <1>a
  <2> QED BY <1>7, <1>a, <2>1, Times DEF B
<1>11. (k + 1) * B = k * B + B BY <1>1, <1>7
<1>12. s + B <= N BY <1>2, <1>8, <1>10, <1>11
<1> QED BY <1>12 DEF N, B, s

\* Only an enforceable quota is found exceeded, and then it is.
LEMMA OverIsOver ==
    ASSUME NEW rq \in SyncRequests, NEW res \in Results,
           QuotaOf(rq, res), OverQuota(rq, res)
    PROVE  Enforceable(rq) /\ res.Downloaded * BlockBytes > rq.MaxBytes
<1> DEFINE d == res.Downloaded
           m == rq.MaxBytes
           N == 2^(CountBits - 1)
           s == Signed(d * BlockBytes)
<1>1. m \in Int /\ d \in Int /\ BlockBytes \in Nat \ {0} BY QuotaTypes
<1>2. N \in Nat \ {0} /\ Counters = -N .. N - 1 BY SyncAssumption DEF Counters
<1>3. m > 0 /\ s > m BY DEF OverQuota
<1>4. s + BlockBytes <= N BY <1>1, BytesBelow
<1>5. s \in Int
  <2>1. d * BlockBytes \in Int BY <1>1
  <2> QED BY <2>1, CountUpFacts, SignedFacts
<1>6. Enforceable(rq)
  <2> HIDE DEF s, N, d
  <2>1. m + BlockBytes \in Counters BY <1>1, <1>2, <1>3, <1>4, <1>5
  <2> QED BY <1>3, <2>1 DEF Enforceable
<1> QED BY <1>3, <1>6, QuotaBytes

\* QuotaHolds, in terms of QuotaOf and FailedOf.
LEMMA QuotaHoldsIs ==
    QuotaHolds <=>
        \A c \in Callers :
            /\ call[c].pc \in {"walk", "finish", "release"} =>
                 QuotaOf(call[c].rq, call[c].res)
            /\ call[c].pc \in {"finish", "release"} =>
                 FailedOf(call[c].rq, call[c].res, c \in cancelled)
BY DEF QuotaHolds, QuotaOf, FailedOf

\* QuotaHolds of the next state, from every caller's locals there.
LEMMA QuotaHoldsNext ==
    ASSUME \A c \in Callers :
              /\ call'[c].pc \in {"walk", "finish", "release"} =>
                   QuotaOf(call'[c].rq, call'[c].res)
              /\ call'[c].pc \in {"finish", "release"} =>
                   FailedOf(call'[c].rq, call'[c].res, c \in cancelled')
    PROVE  QuotaHolds'
BY DEF QuotaHolds, QuotaOf, FailedOf, Enforceable
-----------------------------------------------------------------------------
\* What a caller's locals are made of (worker.go:43-79).
LEMMA CallsIntro ==
    /\ [pc |-> "start"] \in Calls /\ [pc |-> "returned"] \in Calls
    /\ \A rq \in SyncRequests, had \in Nat :
         [pc |-> "check", rq |-> rq, had |-> had] \in Calls
    /\ \A rq \in SyncRequests, had \in Nat, res \in Results :
         [pc |-> "finish", rq |-> rq, had |-> had, res |-> res] \in Calls
    /\ \A rq \in SyncRequests, had \in Nat, res \in Results, h \in 0..MaxHeight :
         [pc |-> "walk", rq |-> rq, had |-> had, res |-> res, h |-> h] \in Calls
BY DEF Calls

\* Which of them a caller has follows from its next step.
LEMMA CallsElim ==
    ASSUME NEW l \in Calls
    PROVE  /\ l.pc \in {"start", "returned", "check", "walk", "finish", "release"}
           /\ l.pc = "check" => l.rq \in SyncRequests /\ l.had \in Nat
           /\ l.pc = "walk" =>
                l \in [pc : {"walk"}, rq : SyncRequests, had : Nat, res : Results,
                       h : 0..MaxHeight]
           /\ l.pc \in {"finish", "release"} =>
                l \in [pc : {"finish", "release"}, rq : SyncRequests, had : Nat,
                       res : Results]
BY DEF Calls

\* A round of the loop changes the result and the height of a walk.
LEMMA WalkOn ==
    ASSUME NEW l \in Calls, l.pc = "walk", NEW res \in Results,
           NEW h \in 0..MaxHeight
    PROVE  LET m == [l EXCEPT !.res = res, !.h = h]
           IN /\ m \in Calls /\ m.pc = "walk" /\ m.rq = l.rq
              /\ m.res = res
<1> DEFINE W == [pc : {"walk"}, rq : SyncRequests, had : Nat, res : Results,
                 h : 0..MaxHeight]
<1>1. l \in W BY CallsElim
<1>2. [l EXCEPT !.res = res, !.h = h] \in W BY <1>1
<1>3. W \subseteq Calls BY DEF Calls
<1> QED BY <1>1, <1>2, <1>3

\* finish leaves the rest of the locals as they are.
LEMMA FinishOn ==
    ASSUME NEW l \in Calls, l.pc = "finish"
    PROVE  LET m == [l EXCEPT !.pc = "release"]
           IN m \in Calls /\ m.pc = "release" /\ m.rq = l.rq /\ m.res = l.res
<1> DEFINE F == [pc : {"finish", "release"}, rq : SyncRequests, had : Nat,
                 res : Results]
<1>1. l \in F BY CallsElim
<1>2. [l EXCEPT !.pc = "release"] \in F BY <1>1
<1>3. F \subseteq Calls BY DEF Calls
<1> QED BY <1>1, <1>2, <1>3
-----------------------------------------------------------------------------
\* The initial state satisfies the invariant (worker.go:42).
LEMMA SyncInitInv == SyncInit => SyncInv
<1> SUFFICES ASSUME SyncInit PROVE SyncInv OBVIOUS
<1>0. call \in [Callers -> Calls] BY CallsIntro DEF SyncInit
<1>a. last \in Results /\ active \in BOOLEAN /\ cancelled \subseteq Callers
    BY ResultFacts DEF SyncInit
<1>b. stored \in 0..MaxStored BY SyncAssumption DEF SyncInit
<1>1. SyncTypeOK BY <1>0, <1>a, <1>b DEF SyncTypeOK
<1>2. OneWalk BY DEF SyncInit, OneWalk, Holds
<1>3. LastIsTruthful BY ResultFacts DEF SyncInit, LastIsTruthful
<1>4. QuotaHolds BY DEF SyncInit, QuotaHolds
<1>5. WalkLocals BY DEF SyncInit, WalkLocals
<1> QED BY <1>1, <1>2, <1>3, <1>4, <1>5 DEF SyncInv

\* A caller that begins finds the flag down, so no other one is under way; one
\* that is turned away changes nothing else (worker.go:43-51).
LEMMA BeginInv ==
    ASSUME SyncInv, NEW c \in Callers, Begin(c)
    PROVE  SyncInv'
<1> USE DEF Begin, Goto
<1>0. /\ SyncTypeOK /\ OneWalk /\ LastIsTruthful /\ QuotaHolds /\ WalkLocals
      /\ call \in [Callers -> Calls] /\ stored \in Nat /\ last \in Results
    BY SyncAssumption DEF SyncInv, SyncTypeOK
<1>1. CASE active
  <2>1. call' = [call EXCEPT ![c] = [pc |-> "returned"]] /\ UNCHANGED <<active, last, stored, cancelled>>
        BY <1>1
  <2>2. \A d \in Callers : call'[d] = IF d = c THEN [pc |-> "returned"] ELSE call[d]
        BY <1>0, <2>1
  <2>3. SyncTypeOK' BY <1>0, <2>1, CallsIntro DEF SyncTypeOK
  <2>4. OneWalk' BY <1>0, <2>1, <2>2 DEF OneWalk, Holds
  <2>5. LastIsTruthful' BY <1>0, <2>1, <2>2 DEF LastIsTruthful
  <2>6. QuotaHolds' BY <1>0, <2>1, <2>2, QuotaHoldsIs, QuotaHoldsNext
  <2>7. WalkLocals' BY <1>0, <2>1, <2>2 DEF WalkLocals
  <2> QED BY <2>3, <2>4, <2>5, <2>6, <2>7 DEF SyncInv
<1>2. CASE ~active
  <2>1. PICK rq \in SyncRequests :
           /\ active' = TRUE /\ last' = Result("running", 0, 0)
           /\ call' = [call EXCEPT ![c] = [pc |-> "check", rq |-> rq, had |-> stored]]
           /\ UNCHANGED <<stored, cancelled>>
        BY <1>2
  <2>2. \A d \in Callers :
           call'[d] = IF d = c THEN [pc |-> "check", rq |-> rq, had |-> stored] ELSE call[d]
        BY <1>0, <2>1
  <2>3. SyncTypeOK' BY <1>0, <2>1, CallsIntro, ResultFacts DEF SyncTypeOK
  <2>a. \A d \in Callers : ~Holds(d) BY <1>0, <1>2 DEF OneWalk
  <2>4. OneWalk' BY <2>a, <2>1, <2>2 DEF OneWalk, Holds
  <2>5. LastIsTruthful' BY <2>a, <2>1, <2>2 DEF LastIsTruthful, Holds
  <2>6. QuotaHolds' BY <1>0, <2>1, <2>2, QuotaHoldsIs, QuotaHoldsNext
  <2>7. WalkLocals' BY <2>a, <2>1, <2>2 DEF WalkLocals, Holds
  <2> QED BY <2>3, <2>4, <2>5, <2>6, <2>7 DEF SyncInv
<1> QED BY <1>1, <1>2

\* What a step of the caller under way has to show, when it leaves the flag
\* and the stored result alone: its own locals still fit (worker.go:53-79).
LEMMA LocalStep ==
    ASSUME SyncInv, NEW c \in Callers, call[c].pc \in {"check", "walk"},
           NEW l \in Calls, l.pc \in {"walk", "finish"},
           call' = [call EXCEPT ![c] = l],
           UNCHANGED <<active, last, stored, cancelled>>,
           QuotaOf(l.rq, l.res),
           l.pc = "finish" => /\ l.res.Status \in {"failed", "complete"}
                              /\ FailedOf(l.rq, l.res, c \in cancelled)
    PROVE  SyncInv'
<1>0. /\ SyncTypeOK /\ OneWalk /\ LastIsTruthful /\ QuotaHolds /\ WalkLocals
      /\ call \in [Callers -> Calls]
    BY DEF SyncInv, SyncTypeOK
<1>2. \A d \in Callers : call'[d] = IF d = c THEN l ELSE call[d] BY <1>0
<1>3. SyncTypeOK' BY <1>0 DEF SyncTypeOK
<1>4. OneWalk' BY <1>0, <1>2 DEF OneWalk, Holds
<1>5. LastIsTruthful' BY <1>0, <1>2 DEF LastIsTruthful
<1>6. QuotaHolds' BY <1>0, <1>2, QuotaHoldsIs, QuotaHoldsNext
<1>7. WalkLocals' BY <1>0, <1>2 DEF WalkLocals
<1> QED BY <1>3, <1>4, <1>5, <1>6, <1>7 DEF SyncInv

\* An empty range fails, another one is walked from the empty result
\* (worker.go:53-56).
LEMMA CheckInv ==
    ASSUME SyncInv, NEW c \in Callers, Check(c)
    PROVE  SyncInv'
<1>0. /\ WalkLocals /\ call[c] \in Calls /\ call[c].pc = "check"
      /\ last = Result("running", 0, 0) /\ last \in Results
    BY DEF SyncInv, SyncTypeOK, Check, WalkLocals
<1> DEFINE rq == call[c].rq
           had == call[c].had
<1>1. rq \in SyncRequests /\ had \in Nat BY <1>0, CallsElim
<1>2. CASE rq.To < rq.From
  <2> DEFINE l == [pc |-> "finish", rq |-> rq, had |-> had, res |-> Result("failed", 0, 0)]
  <2>1. call' = [call EXCEPT ![c] = l] /\ UNCHANGED <<active, last, stored, cancelled>>
        BY <1>2 DEF Check, Finishing, Goto
  <2>2. l \in Calls BY <1>1, CallsIntro, ResultFacts
  <2>3. QuotaOf(l.rq, l.res) BY <1>1, ResultFacts, QuotaStart
  <2>4. l.res.Status = "failed" BY ResultFacts
  <2>6. FailedOf(l.rq, l.res, c \in cancelled)
    <3>1. ~(rq.From <= rq.To) BY <1>1, <1>2, SyncAssumption DEF MaxHeight
    <3> QED BY <3>1 DEF FailedOf
  <2> HIDE DEF l
  <2>5. l.pc = "finish" BY DEF l
  <2> QED BY <1>0, <2>1, <2>2, <2>3, <2>4, <2>5, <2>6, LocalStep
<1>3. CASE ~(rq.To < rq.From)
  <2> DEFINE l == [pc |-> "walk", rq |-> rq, had |-> had, res |-> last, h |-> rq.From]
  <2>1. call' = [call EXCEPT ![c] = l] /\ UNCHANGED <<active, last, stored, cancelled>>
        BY <1>3 DEF Check, Goto
  <2>2. l \in Calls BY <1>0, <1>1, CallsIntro, SyncAssumption
  <2>3. QuotaOf(l.rq, l.res) BY <1>0, <1>1, ResultFacts, QuotaStart
  <2> HIDE DEF l
  <2>4. l.pc = "walk" BY DEF l
  <2> QED BY <1>0, <2>1, <2>2, <2>3, <2>4, LocalStep
<1> QED BY <1>2, <1>3

\* The walk ends with its own counts and a final status, or counts one more
\* height (worker.go:57-79).
LEMMA WalkInv ==
    ASSUME SyncInv, NEW c \in Callers, Walk(c)
    PROVE  SyncInv'
<1>0. /\ QuotaHolds /\ call[c] \in Calls /\ call[c].pc = "walk"
      /\ UNCHANGED <<active, last, stored, cancelled>>
    BY DEF SyncInv, SyncTypeOK, Walk
<1> DEFINE rq == call[c].rq
           had == call[c].had
           res == call[c].res
           h == call[c].h
           Ends(s) == [pc |-> "finish", rq |-> rq, had |-> had,
                       res |-> [res EXCEPT !.Status = s]]
<1>1. rq \in SyncRequests /\ had \in Nat /\ res \in Results /\ h \in 0..MaxHeight
    BY <1>0, CallsElim
<1>2. QuotaOf(rq, res) BY <1>0, QuotaHoldsIs
<1>3. ASSUME NEW s \in {"failed", "complete"}, call' = [call EXCEPT ![c] = Ends(s)],
             s = "failed" => c \in cancelled \/ OverQuota(rq, res)
      PROVE SyncInv'
  <2> DEFINE l == Ends(s)
  <2>1. l \in Calls BY <1>1, CallsIntro, StatusFacts
  <2>2. l.res.Status = s /\ l.res.Downloaded = res.Downloaded /\ l.rq = rq
        BY <1>1, StatusFacts
  <2>3. QuotaOf(l.rq, l.res) BY <1>2, <2>2 DEF QuotaOf
  <2>4. l.pc = "finish" OBVIOUS
  <2>5. call' = [call EXCEPT ![c] = l] BY <1>3
  <2>6. FailedOf(l.rq, l.res, c \in cancelled)
    <3> HIDE DEF l
    <3> QED BY <1>1, <1>2, <1>3, <2>2, OverIsOver DEF FailedOf
  <2> HIDE DEF l
  <2> QED BY <1>0, <1>3, <2>1, <2>2, <2>3, <2>4, <2>5, <2>6, LocalStep
<1>4. CASE Walked(c)
  <2>1. call' = [call EXCEPT ![c] = Ends("complete")]
        BY <1>4 DEF Walk, Finishing, Goto
  <2> QED BY <1>3, <2>1
<1>5. CASE ~Walked(c) /\ (c \in cancelled \/ OverQuota(rq, res))
  <2>1. call' = [call EXCEPT ![c] = Ends("failed")]
        BY <1>5 DEF Walk, Finishing, Goto
  <2> QED BY <1>3, <1>5, <2>1
<1>6. CASE ~Walked(c) /\ ~(c \in cancelled \/ OverQuota(rq, res))
  <2> DEFINE l == [call[c] EXCEPT !.res = Counted(res, h), !.h = NextHeight(h)]
  <2>1. call' = [call EXCEPT ![c] = l]
        BY <1>6 DEF Walk, Goto
  <2>2. Counted(res, h) \in Results BY <1>1, CountedFacts
  <2>3. NextHeight(h) \in 0..MaxHeight BY <1>1, NextHeightFacts
  <2>4. l \in Calls /\ l.pc = "walk" /\ l.rq = rq /\ l.res = Counted(res, h)
        BY <1>0, <2>2, <2>3, WalkOn
  <2>5. QuotaOf(l.rq, l.res) BY <1>1, <1>2, <1>6, <2>4, QuotaStep
  <2> HIDE DEF l
  <2> QED BY <1>0, <2>1, <2>4, <2>5, LocalStep
<1> QED BY <1>4, <1>5, <1>6

\* The result is stored while the flag is still up (worker.go:80-86).
LEMMA FinishInv ==
    ASSUME SyncInv, NEW c \in Callers, Finish(c)
    PROVE  SyncInv'
<1>0. /\ SyncTypeOK /\ OneWalk /\ LastIsTruthful /\ QuotaHolds /\ WalkLocals
      /\ call \in [Callers -> Calls] /\ call[c].pc = "finish"
      /\ last' = call[c].res /\ UNCHANGED <<active, stored, cancelled>>
    BY DEF SyncInv, SyncTypeOK, Finish
<1> DEFINE l == [call[c] EXCEPT !.pc = "release"]
<1>1. l \in Calls /\ l.pc = "release" /\ l.rq = call[c].rq /\ l.res = call[c].res
    BY <1>0, FinishOn
<1>2. \A d \in Callers : call'[d] = IF d = c THEN l ELSE call[d]
    BY <1>0 DEF Finish
<1>a. call' \in [Callers -> Calls] BY <1>0, <1>1 DEF Finish
<1>b. call[c].res \in Results BY <1>0, CallsElim
<1> HIDE DEF l
<1>3. SyncTypeOK' BY <1>0, <1>a, <1>b DEF SyncTypeOK
<1>c. active /\ \A d \in Callers : Holds(d) => d = c BY <1>0 DEF OneWalk, Holds
<1>4. OneWalk' BY <1>0, <1>1, <1>2, <1>c DEF OneWalk, Holds
<1>5. LastIsTruthful' BY <1>0, <1>1, <1>2, <1>c DEF LastIsTruthful, Holds
<1>6. QuotaHolds' BY <1>0, <1>1, <1>2, QuotaHoldsIs, QuotaHoldsNext
<1>7. WalkLocals' BY <1>0, <1>1, <1>2, <1>c DEF WalkLocals, Holds
<1> QED BY <1>3, <1>4, <1>5, <1>6, <1>7 DEF SyncInv

\* The flag goes down when the stored result is final (worker.go:52).
LEMMA ReleaseInv ==
    ASSUME SyncInv, NEW c \in Callers, Release(c)
    PROVE  SyncInv'
<1>0. /\ SyncTypeOK /\ OneWalk /\ LastIsTruthful /\ QuotaHolds /\ WalkLocals
      /\ call \in [Callers -> Calls] /\ call[c].pc = "release"
      /\ active' = FALSE /\ UNCHANGED <<last, stored, cancelled>>
      /\ call' = [call EXCEPT ![c] = [pc |-> "returned"]]
    BY DEF SyncInv, SyncTypeOK, Release, Goto
<1>2. \A d \in Callers : call'[d] = IF d = c THEN [pc |-> "returned"] ELSE call[d]
    BY <1>0
<1>3. SyncTypeOK' BY <1>0, CallsIntro DEF SyncTypeOK
<1>c. \A d \in Callers : Holds(d) => d = c BY <1>0 DEF OneWalk, Holds
<1>4. OneWalk' BY <1>0, <1>2, <1>c DEF OneWalk, Holds
<1>5. LastIsTruthful' BY <1>0, <1>2, <1>c DEF LastIsTruthful, WalkLocals, Holds
<1>6. QuotaHolds' BY <1>0, <1>2, QuotaHoldsIs, QuotaHoldsNext
<1>7. WalkLocals' BY <1>0, <1>2 DEF WalkLocals
<1> QED BY <1>3, <1>4, <1>5, <1>6, <1>7 DEF SyncInv

\* Cancelling and storing blocks touch nothing a caller holds
\* (worker.go:58-63, node.go:156).
LEMMA OtherInv ==
    ASSUME SyncInv, (\E c \in Callers : Cancel(c)) \/ StoreBlock \/ UNCHANGED SyncVars
    PROVE  SyncInv'
<1>1. UNCHANGED <<active, last, call>> BY DEF Cancel, StoreBlock, SyncVars
<1>2. cancelled' \subseteq Callers /\ stored' \in 0..MaxStored
    BY SyncAssumption DEF SyncInv, SyncTypeOK, Cancel, StoreBlock, SyncVars
<1>3. \A c \in Callers : c \in cancelled => c \in cancelled'
    BY DEF Cancel, StoreBlock, SyncVars
<1>4. QuotaHolds'
  <2>1. QuotaHolds BY DEF SyncInv
  <2> QED BY <1>1, <1>3, <2>1, QuotaHoldsIs, QuotaHoldsNext DEF FailedOf
<1> QED BY <1>1, <1>2, <1>4
       DEF SyncInv, SyncTypeOK, OneWalk, Holds, LastIsTruthful, WalkLocals

\* The invariant holds in every reachable state, for any number of callers.
THEOREM SyncInvariant == SyncSpec => []SyncInv
<1>1. SyncInv /\ [SyncNext]_SyncVars => SyncInv'
  <2> SUFFICES ASSUME SyncInv, [SyncNext]_SyncVars PROVE SyncInv' OBVIOUS
  <2>1. ASSUME NEW c \in Callers, Begin(c) PROVE SyncInv' BY <2>1, BeginInv
  <2>2. ASSUME NEW c \in Callers, Check(c) PROVE SyncInv' BY <2>2, CheckInv
  <2>3. ASSUME NEW c \in Callers, Walk(c) PROVE SyncInv' BY <2>3, WalkInv
  <2>4. ASSUME NEW c \in Callers, Finish(c) PROVE SyncInv' BY <2>4, FinishInv
  <2>5. ASSUME NEW c \in Callers, Release(c) PROVE SyncInv' BY <2>5, ReleaseInv
  <2>6. CASE (\E c \in Callers : Cancel(c)) \/ StoreBlock \/ UNCHANGED SyncVars
        BY <2>6, OtherInv
  <2> QED BY <2>1, <2>2, <2>3, <2>4, <2>5, <2>6 DEF SyncNext, Proceed
<1> QED BY SyncInitInv, <1>1, PTL DEF SyncSpec

\* Types: counters and heights stay within their widths although they wrap,
\* and every step finds the locals it reads.
THEOREM SyncTypeCorrect == SyncSpec => []SyncTypeOK
BY SyncInvariant, PTL DEF SyncInv

\* One walk at a time, with the flag up exactly while one runs.
THEOREM OneWalkAtATime == SyncSpec => []OneWalk
BY SyncInvariant, PTL DEF SyncInv

\* Last never says "running" of a walk that is over, nor the result of
\* another one.
THEOREM LastTellsTheTruth == SyncSpec => []LastIsTruthful
BY SyncInvariant, PTL DEF SyncInv

\* No walk exceeds an enforceable quota by more than one block, and none fails
\* for another one, although counters and bytes wrap around.
THEOREM QuotaIsKept == SyncSpec => []QuotaHolds
BY SyncInvariant, PTL DEF SyncInv
-----------------------------------------------------------------------------
(* What a walk counts.                                                      *)

\* The heights from a to b of the first n blocks.
Among(a, b, n) == (a..b) \cap (1..n)

\* They are finitely many, more of them when there are more blocks.
LEMMA AmongGrows ==
    ASSUME NEW a \in Nat, NEW b \in Int, NEW n \in Nat, NEW m \in Nat, n <= m
    PROVE  /\ Cardinality(Among(a, b, n)) \in Nat
           /\ Cardinality(Among(a, b, n)) <= Cardinality(Among(a, b, m))
<1>1. IsFiniteSet(1..m) /\ Among(a, b, m) \subseteq 1..m
  BY FS_Interval DEF Among
<1>2. IsFiniteSet(Among(a, b, m))
  BY <1>1, FS_Subset
<1>3. Among(a, b, n) \subseteq Among(a, b, m)
  BY DEF Among
<1>4. /\ IsFiniteSet(Among(a, b, n))
      /\ Cardinality(Among(a, b, n)) <= Cardinality(Among(a, b, m))
  BY <1>2, <1>3, FS_Subset
<1> QED
  BY <1>4, FS_CardinalityType

\* The next height is one more of them exactly if there is a block of it.
LEMMA AmongStep ==
    ASSUME NEW a \in Nat, NEW h \in Nat, a <= h, NEW n \in Nat
    PROVE  /\ Cardinality(Among(a, h - 1, n)) \in Nat
           /\ Cardinality(Among(a, h, n)) = IF h \in 1..n
                                            THEN Cardinality(Among(a, h - 1, n)) + 1
                                            ELSE Cardinality(Among(a, h - 1, n))
<1>1. IsFiniteSet(Among(a, h - 1, n))
  <2>1. IsFiniteSet(1..n) /\ Among(a, h - 1, n) \subseteq 1..n
    BY FS_Interval DEF Among
  <2> QED
    BY <2>1, FS_Subset
<1>2. Cardinality(Among(a, h - 1, n)) \in Nat
  BY <1>1, FS_CardinalityType
<1>3. CASE h \in 1..n
  <2>1. Among(a, h, n) = Among(a, h - 1, n) \cup {h} /\ h \notin Among(a, h - 1, n)
    BY <1>3 DEF Among
  <2> QED
    BY <1>1, <1>2, <1>3, <2>1, FS_AddElement
<1>4. CASE h \notin 1..n
  <2>1. Among(a, h, n) = Among(a, h - 1, n)
    BY <1>4 DEF Among
  <2> QED
    BY <1>2, <1>4, <2>1
<1> QED
  BY <1>3, <1>4

\* What a walk from height a, which found had blocks stored, has counted when
\* it comes to height h and n blocks are stored.
Tally(res, a, h, had, n) ==
    /\ res.Verified >= 0 /\ res.Downloaded >= 0
    /\ res.Verified + res.Downloaded = h - a
    /\ Cardinality(Among(a, h - 1, had)) <= res.Verified
    /\ res.Verified <= Cardinality(Among(a, h - 1, n))

\* Nothing, at first.
LEMMA TallyStart ==
    ASSUME NEW a \in Nat, NEW had \in Nat, NEW n \in Nat, NEW res,
           res.Verified = 0, res.Downloaded = 0
    PROVE  Tally(res, a, a, had, n)
<1>1. Among(a, a - 1, had) = {} /\ Among(a, a - 1, n) = {}
  BY DEF Among
<1>2. Cardinality({}) = 0
  BY FS_EmptySet
<1> QED
  BY <1>1, <1>2 DEF Tally

\* One more, as long as the counters have room.
LEMMA TallyStep ==
    ASSUME NEW res \in Results, NEW a \in Nat, NEW h \in Nat, a <= h,
           NEW had \in Nat, had <= stored, stored \in Nat,
           h - a + 1 \in Counters,
           Tally(res, a, h, had, stored)
    PROVE  Tally(Counted(res, h), a, h + 1, had, stored)
<1> DEFINE v == res.Verified
           d == res.Downloaded
<1>1. v \in Int /\ d \in Int /\ v >= 0 /\ d >= 0 /\ v + d = h - a
  BY CountUpFacts DEF Results, Tally
<1>2. CountUp(v) = v + 1 /\ CountUp(d) = d + 1
  <2> DEFINE N == 2^(CountBits - 1)
  <2>1. N \in Nat \ {0} /\ Counters = -N .. N - 1
    BY SyncAssumption DEF Counters
  <2>2. v \in Counters /\ d \in Counters
    BY DEF Results
  <2> HIDE DEF N, v, d
  <2>3. v + 1 \in Counters /\ d + 1 \in Counters
    BY <1>1, <2>1
  <2> QED
    BY <2>2, <2>3, CountUpFacts
<1>3. /\ Cardinality(Among(a, h - 1, had)) \in Nat
      /\ Cardinality(Among(a, h, had)) = IF h \in 1..had
                                         THEN Cardinality(Among(a, h - 1, had)) + 1
                                         ELSE Cardinality(Among(a, h - 1, had))
  BY AmongStep
<1>4. /\ Cardinality(Among(a, h - 1, stored)) \in Nat
      /\ Cardinality(Among(a, h, stored)) = IF h \in 1..stored
                                            THEN Cardinality(Among(a, h - 1, stored)) + 1
                                            ELSE Cardinality(Among(a, h - 1, stored))
  BY AmongStep
<1>5. /\ Cardinality(Among(a, h - 1, had)) <= v
      /\ v <= Cardinality(Among(a, h - 1, stored))
  BY DEF Tally
<1>6. h + 1 - 1 = h
  OBVIOUS
<1>7. CASE h \in 1..stored
  <2>1. Counted(res, h).Verified = v + 1 /\ Counted(res, h).Downloaded = d
    BY <1>2, <1>7 DEF Counted, Stored, Results
  <2> HIDE DEF v, d
  <2> QED
    BY <1>1, <1>3, <1>4, <1>5, <1>6, <1>7, <2>1 DEF Tally
<1>8. CASE h \notin 1..stored
  <2>1. Counted(res, h).Verified = v /\ Counted(res, h).Downloaded = d + 1
    BY <1>2, <1>8 DEF Counted, Stored, Results
  <2>2. h \notin 1..had
    BY <1>8
  <2> HIDE DEF v, d
  <2> QED
    BY <1>1, <1>3, <1>4, <1>5, <1>6, <1>8, <2>1, <2>2 DEF Tally
<1> QED
  BY <1>7, <1>8

\* Blocks that are stored meanwhile change nothing.
LEMMA TallyStored ==
    ASSUME NEW res \in Results, NEW a \in Nat, NEW h \in Int, NEW had,
           NEW n \in Nat, NEW m \in Nat, n <= m, Tally(res, a, h, had, n)
    PROVE  Tally(res, a, h, had, m)
<1>0. h - 1 \in Int /\ m <= m
  OBVIOUS
<1>1. /\ Cardinality(Among(a, h - 1, n)) \in Nat
      /\ Cardinality(Among(a, h - 1, n)) <= Cardinality(Among(a, h - 1, m))
  BY <1>0, AmongGrows
<1>2. Cardinality(Among(a, h - 1, m)) \in Nat
  BY <1>0, AmongGrows
<1>3. res.Verified \in Int
  BY CountUpFacts DEF Results
<1> QED
  BY <1>1, <1>2, <1>3 DEF Tally

\* The tally up to the height after b is the tally of all up to b.
LEMMA TallyEnd ==
    ASSUME NEW res, NEW a, NEW h, NEW b, NEW had, NEW n, h - 1 = b,
           Tally(res, a, h, had, n)
    PROVE  /\ res.Verified + res.Downloaded = h - a
           /\ Cardinality(Among(a, b, had)) <= res.Verified
           /\ res.Verified <= Cardinality(Among(a, b, n))
BY Zenon DEF Tally

\* The counters can count the heights of a range.
Countable(rq) == rq.To - rq.From + 1 \in Counters

\* What the locals of a caller say of its counts when n blocks are stored.  A
\* walk up to the greatest height starts over from height 0 and never completes.
Tallied(l, n) ==
    /\ l.pc \in {"check", "walk"} => l.had <= n
    /\ (l.pc = "walk" /\ Countable(l.rq) /\ l.rq.To < MaxHeight) =>
         /\ l.h \in l.rq.From..(l.rq.To + 1)
         /\ Tally(l.res, l.rq.From, l.h, l.had, n)
    /\ (l.pc \in {"finish", "release"} /\ l.res.Status = "complete" /\ Countable(l.rq)) =>
         /\ l.rq.From <= l.rq.To + 1
         /\ Tally(l.res, l.rq.From, l.rq.To + 1, l.had, n)

CountInv == \A c \in Callers : Tallied(call[c], stored)

\* A step of one caller.
LEMMA CountStep ==
    ASSUME SyncInv, CountInv, NEW c \in Callers, NEW l, Tallied(l, stored),
           call' = [call EXCEPT ![c] = l], stored' = stored
    PROVE  CountInv'
<1>1. call \in [Callers -> Calls]
  BY DEF SyncInv, SyncTypeOK
<1>2. \A d \in Callers : call'[d] = IF d = c THEN l ELSE call[d]
  BY <1>1
<1>3. \A d \in Callers : Tallied(call'[d], stored)
  BY <1>2 DEF CountInv
<1> QED
  BY <1>3 DEF CountInv

\* A caller that begins has counted nothing.
LEMMA CountBegin ==
    ASSUME SyncInv, CountInv, NEW c \in Callers, Begin(c) PROVE CountInv'
<1>0. stored \in Nat /\ stored' = stored
  BY SyncAssumption DEF SyncInv, SyncTypeOK, Begin
<1>1. CASE active
  <2> DEFINE l == [pc |-> "returned"]
  <2>1. call' = [call EXCEPT ![c] = l]
    BY <1>1 DEF Begin, Goto
  <2>2. Tallied(l, stored)
    BY DEF Tallied
  <2> HIDE DEF l
  <2> QED
    BY <1>0, <2>1, <2>2, CountStep
<1>2. CASE ~active
  <2>1. PICK rq \in SyncRequests :
          call' = [call EXCEPT ![c] = [pc |-> "check", rq |-> rq, had |-> stored]]
    BY <1>2 DEF Begin, Goto
  <2> DEFINE l == [pc |-> "check", rq |-> rq, had |-> stored]
  <2>2. Tallied(l, stored)
    BY <1>0 DEF Tallied
  <2>3. call' = [call EXCEPT ![c] = l]
    BY <2>1
  <2> HIDE DEF l
  <2> QED
    BY <1>0, <2>2, <2>3, CountStep
<1> QED
  BY <1>1, <1>2

\* A walk begins at its first height, with empty counts.
LEMMA CountCheck ==
    ASSUME SyncInv, CountInv, NEW c \in Callers, Check(c) PROVE CountInv'
<1>0. /\ call[c] \in Calls /\ call[c].pc = "check" /\ stored \in Nat /\ stored' = stored
      /\ last = Result("running", 0, 0) /\ Tallied(call[c], stored)
  BY SyncAssumption DEF SyncInv, SyncTypeOK, Check, WalkLocals, CountInv
<1> DEFINE rq == call[c].rq
           had == call[c].had
<1>1. rq \in SyncRequests /\ had \in Nat /\ had <= stored
  BY <1>0, CallsElim DEF Tallied
<1>2. rq.From \in Nat /\ rq.To \in Nat
  BY <1>1, SyncAssumption DEF MaxHeight
<1>3. CASE rq.To < rq.From
  <2> DEFINE l == [pc |-> "finish", rq |-> rq, had |-> had, res |-> Result("failed", 0, 0)]
  <2>1. call' = [call EXCEPT ![c] = l]
    BY <1>3 DEF Check, Finishing, Goto
  <2>2. Tallied(l, stored)
    BY ResultFacts DEF Tallied
  <2> HIDE DEF l
  <2> QED
    BY <1>0, <2>1, <2>2, CountStep
<1>4. CASE ~(rq.To < rq.From)
  <2> DEFINE l == [pc |-> "walk", rq |-> rq, had |-> had, res |-> last, h |-> rq.From]
  <2>1. call' = [call EXCEPT ![c] = l]
    BY <1>4 DEF Check, Goto
  <2>2. Tally(last, rq.From, rq.From, had, stored)
    <3>1. last.Verified = 0 /\ last.Downloaded = 0
      BY <1>0 DEF Result
    <3> QED
      BY <1>0, <1>1, <1>2, <3>1, TallyStart
  <2>3. rq.From \in rq.From..(rq.To + 1)
    BY <1>2, <1>4
  <2>4. l.pc = "walk" /\ l.rq = rq /\ l.had = had /\ l.res = last /\ l.h = rq.From
    OBVIOUS
  <2> HIDE DEF l, rq, had
  <2>5. Tallied(l, stored)
    BY <1>1, <2>2, <2>3, <2>4 DEF Tallied
  <2> QED
    BY <1>0, <2>1, <2>5, CountStep
<1> QED
  BY <1>3, <1>4

\* Below the greatest height, a height's ++ does not wrap around.
LEMMA NextHeightBelow == \A h \in 0..MaxHeight : h < MaxHeight => NextHeight(h) = h + 1
<1> DEFINE N == 2^HeightBits
<1>1. N \in Nat \ {0}
  BY SyncAssumption
<1>2. MaxHeight = N - 1
  BY DEF MaxHeight
<1>3. \A h : NextHeight(h) = (h + 1) % N
  BY DEF NextHeight
<1> HIDE DEF N
<1> QED
  BY <1>1, <1>2, <1>3

\* A round of the loop counts its height; the last one has counted them all.
LEMMA CountWalk ==
    ASSUME SyncInv, CountInv, NEW c \in Callers, Walk(c) PROVE CountInv'
<1> DEFINE rq == call[c].rq
           had == call[c].had
           res == call[c].res
           h == call[c].h
           Ends(s) == [pc |-> "finish", rq |-> rq, had |-> had,
                       res |-> [res EXCEPT !.Status = s]]
<1>0. /\ call[c] \in Calls /\ call[c].pc = "walk" /\ stored \in Nat /\ stored' = stored
      /\ Tallied(call[c], stored)
  BY SyncAssumption DEF SyncInv, SyncTypeOK, Walk, CountInv
<1>1. /\ rq \in SyncRequests /\ had \in Nat /\ res \in Results /\ h \in 0..MaxHeight
      /\ had <= stored
  BY <1>0, CallsElim DEF Tallied
<1>2. rq.From \in Nat /\ rq.To \in 0..MaxHeight /\ rq.To \in Nat /\ MaxHeight \in Int /\ h \in Nat
  BY <1>1, SyncAssumption DEF MaxHeight
<1>3. (Countable(rq) /\ rq.To < MaxHeight) =>
         h \in rq.From..(rq.To + 1) /\ Tally(res, rq.From, h, had, stored)
  BY <1>0 DEF Tallied
<1>4. CASE Walked(c)
  <2> DEFINE l == Ends("complete")
  <2>1. call' = [call EXCEPT ![c] = l]
    BY <1>4 DEF Walk, Finishing, Goto
  <2>2. h > rq.To /\ rq.To < MaxHeight
    BY <1>1, <1>2, <1>4 DEF Walked
  <2>3. /\ l.pc = "finish" /\ l.rq = rq /\ l.had = had
        /\ l.res.Verified = res.Verified /\ l.res.Downloaded = res.Downloaded
    BY <1>1 DEF Results
  <2> HIDE DEF l, rq, had, res, h
  <2>4. ASSUME Countable(rq)
        PROVE  rq.From <= rq.To + 1 /\ Tally(l.res, rq.From, rq.To + 1, had, stored)
    <3>1. h \in rq.From..(rq.To + 1) /\ Tally(res, rq.From, h, had, stored)
      BY <1>3, <2>2, <2>4
    <3>2. h = rq.To + 1
      BY <1>2, <2>2, <3>1
    <3> QED
      BY <1>2, <2>3, <3>1, <3>2 DEF Tally
  <2>5. Tallied(l, stored)
    BY <2>3, <2>4 DEF Tallied
  <2> QED
    BY <1>0, <2>1, <2>5, CountStep
<1>5. CASE ~Walked(c) /\ (c \in cancelled \/ OverQuota(rq, res))
  <2> DEFINE l == Ends("failed")
  <2>1. call' = [call EXCEPT ![c] = l]
    BY <1>5 DEF Walk, Finishing, Goto
  <2>2. l.pc = "finish" /\ l.res.Status = "failed"
    BY <1>1, StatusFacts
  <2> HIDE DEF l
  <2>3. Tallied(l, stored)
    BY <2>2 DEF Tallied
  <2> QED
    BY <1>0, <2>1, <2>3, CountStep
<1>6. CASE ~Walked(c) /\ ~(c \in cancelled \/ OverQuota(rq, res))
  <2> DEFINE l == [call[c] EXCEPT !.res = Counted(res, h), !.h = NextHeight(h)]
  <2>1. call' = [call EXCEPT ![c] = l]
    BY <1>6 DEF Walk, Goto
  <2>2. h <= rq.To
    BY <1>2, <1>6 DEF Walked
  <2>3. /\ l.pc = "walk" /\ l.rq = rq /\ l.had = had
        /\ l.res = Counted(res, h) /\ l.h = NextHeight(h)
    <3>1. call[c] \in [pc : {"walk"}, rq : SyncRequests, had : Nat, res : Results,
                       h : 0..MaxHeight]
      BY <1>0, CallsElim
    <3> QED
      BY <3>1
  <2> HIDE DEF l, rq, had, res, h
  <2>4. ASSUME Countable(rq), rq.To < MaxHeight
        PROVE  /\ l.h \in rq.From..(rq.To + 1)
               /\ Tally(l.res, rq.From, l.h, had, stored)
    <3>1. h \in rq.From..(rq.To + 1) /\ Tally(res, rq.From, h, had, stored)
      BY <1>3, <2>4
    <3>2. l.h = h + 1
      BY <1>1, <1>2, <2>2, <2>3, <2>4, NextHeightBelow
    <3>3. h - rq.From + 1 \in Counters
      <4> DEFINE N == 2^(CountBits - 1)
      <4>1. N \in Nat \ {0} /\ Counters = -N .. N - 1
        BY SyncAssumption DEF Counters
      <4> HIDE DEF N
      <4> QED
        BY <1>2, <2>2, <2>4, <3>1, <4>1, SMTT(40) DEF Countable
    <3>4. Tally(Counted(res, h), rq.From, h + 1, had, stored)
      <4>1. rq.From <= h
        BY <1>2, <3>1
      <4> QED
        BY <1>0, <1>1, <1>2, <3>1, <3>3, <4>1, TallyStep
    <3> QED
      BY <1>2, <2>2, <2>3, <3>1, <3>2, <3>4
  <2>5. Tallied(l, stored)
    BY <1>1, <2>3, <2>4 DEF Tallied
  <2> QED
    BY <1>0, <2>1, <2>5, CountStep
<1> QED
  BY <1>4, <1>5, <1>6

\* finish and the deferred function count nothing.
LEMMA CountFinish ==
    ASSUME SyncInv, CountInv, NEW c \in Callers, Finish(c) \/ Release(c) PROVE CountInv'
<1>0. /\ call \in [Callers -> Calls] /\ call[c] \in Calls /\ stored' = stored
      /\ Tallied(call[c], stored)
  BY DEF SyncInv, SyncTypeOK, Finish, Release, CountInv
<1>1. CASE Finish(c)
  <2> DEFINE l == [call[c] EXCEPT !.pc = "release"]
  <2>1. call' = [call EXCEPT ![c] = l] /\ call[c].pc = "finish"
    BY <1>0, <1>1 DEF Finish
  <2>2. /\ l.pc = "release" /\ l.rq = call[c].rq /\ l.had = call[c].had
        /\ l.res = call[c].res
    <3>1. call[c] \in [pc : {"finish", "release"}, rq : SyncRequests, had : Nat,
                       res : Results]
      BY <1>0, <2>1, CallsElim
    <3> QED
      BY <3>1
  <2> HIDE DEF l
  <2>3. Tallied(l, stored)
    BY <1>0, <2>1, <2>2 DEF Tallied
  <2> QED
    BY <1>0, <2>1, <2>3, CountStep
<1>2. CASE Release(c)
  <2> DEFINE l == [pc |-> "returned"]
  <2>1. call' = [call EXCEPT ![c] = l]
    BY <1>2 DEF Release, Goto
  <2>2. Tallied(l, stored)
    BY DEF Tallied
  <2> HIDE DEF l
  <2> QED
    BY <1>0, <2>1, <2>2, CountStep
<1> QED
  BY <1>1, <1>2

\* A block stored meanwhile only raises what may have been found.
LEMMA CountOther ==
    ASSUME SyncInv, CountInv,
           (\E c \in Callers : Cancel(c)) \/ StoreBlock \/ UNCHANGED SyncVars
    PROVE  CountInv'
<1>1. call' = call /\ stored \in Nat /\ stored' \in Nat /\ stored <= stored'
  BY SyncAssumption DEF SyncInv, SyncTypeOK, Cancel, StoreBlock, SyncVars
<1>2. ASSUME NEW c \in Callers PROVE Tallied(call[c], stored')
  <2> DEFINE l == call[c]
  <2>1. l \in Calls /\ Tallied(l, stored)
    BY DEF SyncInv, SyncTypeOK, CountInv
  <2> HIDE DEF l
  <2>2. ASSUME l.pc \in {"check", "walk"} PROVE l.had <= stored'
    <3>1. l.had \in Nat
      BY <2>1, <2>2, CallsElim
    <3> QED
      BY <1>1, <2>1, <2>2, <3>1 DEF Tallied
  <2>3. ASSUME l.pc = "walk", Tally(l.res, l.rq.From, l.h, l.had, stored)
        PROVE  Tally(l.res, l.rq.From, l.h, l.had, stored')
    <3>1. l.rq \in SyncRequests /\ l.res \in Results /\ l.h \in 0..MaxHeight
      BY <2>1, <2>3, CallsElim
    <3>2. l.rq.From \in Nat /\ l.h \in Int
      BY <3>1, SyncAssumption
    <3> QED
      BY <1>1, <2>3, <3>1, <3>2, TallyStored
  <2>4. ASSUME l.pc \in {"finish", "release"},
               Tally(l.res, l.rq.From, l.rq.To + 1, l.had, stored)
        PROVE  Tally(l.res, l.rq.From, l.rq.To + 1, l.had, stored')
    <3>1. l.rq \in SyncRequests /\ l.res \in Results
      BY <2>1, <2>4, CallsElim
    <3>2. l.rq.From \in Nat /\ l.rq.To + 1 \in Int
      BY <3>1, SyncAssumption
    <3> QED
      BY <1>1, <2>4, <3>1, <3>2, TallyStored
  <2>5. Tallied(l, stored')
    BY <2>1, <2>2, <2>3, <2>4 DEF Tallied
  <2> QED
    BY <2>5 DEF l
<1> QED
  BY <1>1, <1>2 DEF CountInv

\* A completed walk has counted every height of its range once, as found or as
\* downloaded, and found what was stored when it began and nothing that is not
\* stored now, while the node stores blocks all along (worker.go:57-76).
THEOREM CountsAreComplete == SyncSpec => []CompleteCounts
<1>1. SyncInit => CountInv
  BY DEF SyncInit, CountInv, Tallied
<1>2. SyncInv /\ CountInv /\ [SyncNext]_SyncVars => CountInv'
  <2> SUFFICES ASSUME SyncInv, CountInv, [SyncNext]_SyncVars PROVE CountInv'
    OBVIOUS
  <2>1. ASSUME NEW c \in Callers, Begin(c) \/ Proceed(c) PROVE CountInv'
    BY <2>1, CountBegin, CountCheck, CountWalk, CountFinish DEF Proceed
  <2>2. CASE (\E c \in Callers : Cancel(c)) \/ StoreBlock \/ UNCHANGED SyncVars
    BY <2>2, CountOther
  <2> QED
    BY <2>1, <2>2 DEF SyncNext
<1>3. SyncInv /\ CountInv => CompleteCounts
  <2> SUFFICES ASSUME SyncInv, CountInv, NEW c \in Callers,
                      call[c].pc \in {"finish", "release"},
                      call[c].res.Status = "complete",
                      Countable(call[c].rq)
               PROVE  LET rq == call[c].rq
                          res == call[c].res
                          range == rq.From..rq.To
                      IN /\ res.Verified + res.Downloaded = Cardinality(range)
                         /\ Cardinality(range \cap (1..call[c].had)) <= res.Verified
                         /\ res.Verified <= Cardinality(range \cap (1..stored))
    BY DEF CompleteCounts, Countable
  <2>1. call[c].rq \in SyncRequests
    BY CallsElim DEF SyncInv, SyncTypeOK
  <2> DEFINE a == call[c].rq.From
             b == call[c].rq.To
             res == call[c].res
  <2>2. a \in Nat /\ b \in Nat
    BY <2>1, SyncAssumption
  <2>3. a <= b + 1 /\ Tally(res, a, b + 1, call[c].had, stored)
    BY DEF CountInv, Tallied
  <2> HIDE DEF a, b, res
  <2>4. Cardinality(a..b) = b + 1 - a
    <3>1. Cardinality(a..b) = IF a > b THEN 0 ELSE b - a + 1
      BY <2>2, FS_Interval
    <3> QED
      BY <2>2, <2>3, <3>1
  <2>5. /\ res.Verified + res.Downloaded = b + 1 - a
        /\ Cardinality(Among(a, b, call[c].had)) <= res.Verified
        /\ res.Verified <= Cardinality(Among(a, b, stored))
    <3>1. PICK e : e = b + 1
      OBVIOUS
    <3>2. e - 1 = b
      BY <2>2, <3>1
    <3>3. Tally(res, a, e, call[c].had, stored)
      BY <2>3, <3>1
    <3>4. /\ res.Verified + res.Downloaded = e - a
          /\ Cardinality(Among(a, b, call[c].had)) <= res.Verified
          /\ res.Verified <= Cardinality(Among(a, b, stored))
      BY <3>2, <3>3, TallyEnd
    <3> QED
      BY <2>2, <3>1, <3>4
  <2> QED
    BY <2>4, <2>5 DEF Among, a, b, res
<1> QED
  BY <1>1, <1>2, <1>3, SyncInvariant, PTL DEF SyncSpec
=============================================================================
