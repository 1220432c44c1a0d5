----------------------------- MODULE SyncWorker -----------------------------
(***************************************************************************)
(* sync_worker.Worker (internal/sync_worker/worker.go): Start walks a      *)
(* range of heights, counting those the repository has and those it would  *)
(* download.  One walk runs at a time; another caller is turned away.      *)
(* Meanwhile the node stores blocks and callers cancel their contexts.     *)
(*                                                                         *)
(* Heights are HeightBits wide and wrap around, as Go's uint64 does; the   *)
(* counters of a result, the bytes they stand for and the quota are signed *)
(* and CountBits wide (int and int64 of a 64-bit build) and wrap to        *)
(* negative ones.  A walk up to the greatest height never ends by itself.  *)
(***************************************************************************)
EXTENDS FiniteSets, Integers

CONSTANTS
    Callers,        \* goroutines that call Start, once each
    SyncRequests,   \* the requests they make: From, To and MaxBytes
    HeightBits,     \* width of a height
    CountBits,      \* width of a counter and of a quota
    BlockBytes,     \* what a download counts for (1024)
    MaxStored       \* bound on the blocks the node stores

MaxHeight == 2^HeightBits - 1

\* The values of a signed number.
Counters == -(2^(CountBits - 1)) .. 2^(CountBits - 1) - 1

ASSUME SyncAssumption ==
    /\ HeightBits \in Nat /\ CountBits \in Nat \ {0}
    /\ 2^HeightBits \in Nat \ {0} /\ 2^(CountBits - 1) \in Nat \ {0}
    /\ BlockBytes \in Nat \ {0} /\ MaxStored \in Nat
    /\ \E m \in 1..2^(CountBits - 1) : m * BlockBytes = 2^(CountBits - 1)
    /\ SyncRequests \subseteq
         [From : 0..MaxHeight, To : 0..MaxHeight, MaxBytes : Counters]

VARIABLES
    active,     \* Worker.active
    last,       \* Worker.last
    stored,     \* how many blocks the repository has, of heights 1..stored
    cancelled,  \* the callers whose context is done
    call        \* caller -> its next step and its locals

SyncVars == <<active, last, stored, cancelled, call>>

Result(status, verified, downloaded) ==
    [Status |-> status, Verified |-> verified, Downloaded |-> downloaded]

\* The zero Result.
NoResult == Result("", 0, 0)

\* w.repo.Block(h) finds a block.
Stored(h) == h \in 1..stored

Goto(c, locals) == call' = [call EXCEPT ![c] = locals]

\* Bug: the loop does not go on from a height that is stored.
NextHeightStuck(h) == IF Stored(h) THEN h ELSE (h + 1) % 2^HeightBits

\* h++
NextHeight(h) == (h + 1) % 2^HeightBits

\* What signed arithmetic makes of a number: the one of its width it differs
\* from by a multiple of 2^CountBits.
Signed(n) ==
    LET half == 2^(CountBits - 1) IN ((n + half) % (2 * half)) - half

\* A counter's ++.
CountUp(n) == Signed(n + 1)
-----------------------------------------------------------------------------
\* Bug: the flag is read in one critical section and set in another.
BeginUnchecked(c) ==
    /\ call[c].pc = "start"
    /\ \E rq \in SyncRequests :
         /\ active' = TRUE
         /\ last' = Result("running", 0, 0)
         /\ Goto(c, [pc |-> "check", rq |-> rq, had |-> stored])
    /\ UNCHANGED <<stored, cancelled>>

\* The first critical section.  had is not in the code: it remembers for the
\* properties what was stored when the walk began.
Begin(c) ==
    /\ call[c].pc = "start"
    /\ \E rq \in SyncRequests :
         IF active
         THEN /\ Goto(c, [pc |-> "returned"])
              /\ UNCHANGED <<active, last>>
         ELSE /\ active' = TRUE
              /\ last' = Result("running", 0, 0)
              /\ Goto(c, [pc |-> "check", rq |-> rq, had |-> stored])
    /\ UNCHANGED <<stored, cancelled>>

Finishing(c, res) ==
    Goto(c, [pc |-> "finish", rq |-> call[c].rq, had |-> call[c].had,
             res |-> res])

\* An empty range is an error; otherwise res starts as w.last, read without
\* the lock, which only the active caller writes.
Check(c) ==
    /\ call[c].pc = "check"
    /\ IF call[c].rq.To < call[c].rq.From
       THEN Finishing(c, Result("failed", 0, 0))
       ELSE Goto(c, [pc |-> "walk", rq |-> call[c].rq, had |-> call[c].had,
                     res |-> last, h |-> call[c].rq.From])
    /\ UNCHANGED <<active, last, stored, cancelled>>

\* Bug: the quota is checked one block late.
LateQuota(rq, res) ==
    rq.MaxBytes > 0 /\ Signed((res.Downloaded - 1) * BlockBytes) > rq.MaxBytes

\* The quota is checked before a download and without it.  The product wraps
\* around.
OverQuota(rq, res) ==
    rq.MaxBytes > 0 /\ Signed(res.Downloaded * BlockBytes) > rq.MaxBytes

Counted(res, h) ==
    IF Stored(h) THEN [res EXCEPT !.Verified = CountUp(@)]
    ELSE [res EXCEPT !.Downloaded = CountUp(@)]

\* Bug: the last height of the range is left out.
WalkedShort(c) == call[c].h >= call[c].rq.To

\* The loop's condition fails.
Walked(c) == call[c].h > call[c].rq.To

\* One round of the loop, or its end.  The context is looked at first, then
\* the quota, then the repository.
Walk(c) ==
    /\ call[c].pc = "walk"
    /\ LET rq == call[c].rq
           res == call[c].res
       IN IF Walked(c) THEN Finishing(c, [res EXCEPT !.Status = "complete"])
          ELSE IF c \in cancelled \/ OverQuota(rq, res)
          THEN Finishing(c, [res EXCEPT !.Status = "failed"])
          ELSE Goto(c, [call[c] EXCEPT !.res = Counted(res, call[c].h),
                                       !.h = NextHeight(@)])
    /\ UNCHANGED <<active, last, stored, cancelled>>

\* Bug: the flag is cleared in place of storing the result.
FinishInactive(c) ==
    /\ call[c].pc = "finish"
    /\ active' = FALSE
    /\ call' = [call EXCEPT ![c].pc = "release"]
    /\ UNCHANGED <<last, stored, cancelled>>

\* finish
Finish(c) ==
    /\ call[c].pc = "finish"
    /\ last' = call[c].res
    /\ call' = [call EXCEPT ![c].pc = "release"]
    /\ UNCHANGED <<active, stored, cancelled>>

\* The deferred function.
Release(c) ==
    /\ call[c].pc = "release"
    /\ active' = FALSE
    /\ Goto(c, [pc |-> "returned"])
    /\ UNCHANGED <<last, stored, cancelled>>

\* Whoever made the context of the caller cancels it.
Cancel(c) ==
    /\ c \notin cancelled
    /\ cancelled' = cancelled \cup {c}
    /\ UNCHANGED <<active, last, stored, call>>

\* The node commits a block.
StoreBlock ==
    /\ stored < MaxStored
    /\ stored' = stored + 1
    /\ UNCHANGED <<active, last, cancelled, call>>

SyncInit ==
    /\ active = FALSE /\ last = NoResult
    /\ stored = 0 /\ cancelled = {}
    /\ call = [c \in Callers |-> [pc |-> "start"]]

Proceed(c) == Check(c) \/ Walk(c) \/ Finish(c) \/ Release(c)

SyncNext ==
    \/ \E c \in Callers : Begin(c) \/ Proceed(c) \/ Cancel(c)
    \/ StoreBlock
    \/ (\A c \in Callers : call[c].pc = "returned") /\ UNCHANGED SyncVars

\* A caller that has begun keeps running; nobody has to begin or to cancel.
SyncSpec ==
    SyncInit /\ [][SyncNext]_SyncVars /\ \A c \in Callers : WF_SyncVars(Proceed(c))
-----------------------------------------------------------------------------
Holds(c) == call[c].pc \in {"check", "walk", "finish", "release"}

Results == [Status : {"", "running", "failed", "complete"},
            Verified : Counters, Downloaded : Counters]

\* What a caller remembers at each of its steps.
Calls ==
    [pc : {"start", "returned"}]
    \cup [pc : {"check"}, rq : SyncRequests, had : Nat]
    \cup [pc : {"walk"}, rq : SyncRequests, had : Nat, res : Results,
          h : 0..MaxHeight]
    \cup [pc : {"finish", "release"}, rq : SyncRequests, had : Nat, res : Results]

\* Types of the state.
SyncTypeOK ==
    /\ active \in BOOLEAN
    /\ last \in Results
    /\ stored \in 0..MaxStored
    /\ cancelled \subseteq Callers
    /\ call \in [Callers -> Calls]

\* Whoever has not been turned away is alone, and the flag says so from the
\* first critical section to the deferred one (worker.go:44-52).
OneWalk ==
    /\ active <=> \E c \in Callers : Holds(c)
    /\ \A c, d \in Callers : Holds(c) /\ Holds(d) => c = d

\* Last reports "running" only while a walk runs, and after it that walk's own
\* result, not overwritten by or overwriting another's (worker.go:50, 81-84).
LastIsTruthful ==
    /\ ~active => last.Status # "running"
    /\ \A c \in Callers : call[c].pc = "release" => last = call[c].res

\* A quota that ends a walk, or should: positive, and at least a block below
\* the greatest number.
Enforceable(rq) == rq.MaxBytes > 0 /\ rq.MaxBytes + BlockBytes \in Counters

\* An enforceable quota is exceeded by one block at most, however long the walk,
\* and a walk that is not cancelled fails only for such a quota, and only when
\* it is exceeded.  A quota within a block of the greatest number never ends a
\* walk: the bytes downloaded turn negative before they exceed it
\* (worker.go:65).
QuotaHolds ==
    \A c \in Callers :
        LET rq == call[c].rq
            res == call[c].res
        IN /\ call[c].pc \in {"walk", "finish", "release"} /\ Enforceable(rq) =>
                res.Downloaded >= 0 /\ (res.Downloaded - 1) * BlockBytes <= rq.MaxBytes
           /\ /\ call[c].pc \in {"finish", "release"} /\ c \notin cancelled
              /\ res.Status = "failed" /\ rq.From <= rq.To
              => Enforceable(rq) /\ res.Downloaded * BlockBytes > rq.MaxBytes

\* A completed walk has looked at every height of its range once: what it did
\* not count as downloaded it found stored, and it found at least what was
\* stored when it began, at most what is stored now.  A range with more heights
\* than a counter can count is left out: there a counter wraps around
\* (worker.go:57-76).
CompleteCounts ==
    \A c \in Callers :
        /\ call[c].pc \in {"finish", "release"}
        /\ call[c].res.Status = "complete"
        /\ call[c].rq.To - call[c].rq.From + 1 \in Counters
        =>
            LET rq == call[c].rq
                res == call[c].res
                range == rq.From..rq.To
            IN /\ res.Verified + res.Downloaded = Cardinality(range)
               /\ Cardinality(range \cap (1..call[c].had)) <= res.Verified
               /\ res.Verified <= Cardinality(range \cap (1..stored))

\* Start returns, and the next caller can begin, unless it was asked for a
\* range up to the greatest height and is never cancelled; a cancelled one
\* returns whatever it was asked for (worker.go:57-62).
StartReturns ==
    \A c \in Callers :
        (Holds(c) /\ (call[c].rq.To < MaxHeight \/ c \in cancelled))
            ~> (call[c].pc = "returned")
=============================================================================
