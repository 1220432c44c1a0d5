------------------------------ MODULE Mempool ------------------------------
(***************************************************************************)
(* mempool.Pool (internal/mempool/pool.go, policy.go): the transactions    *)
(* waiting for a block, kept twice, by ID in tx and by account and nonce   *)
(* in byAcct.  Every method holds p.mu from its first line to its return,  *)
(* so every method is one atomic step; what interleaves is whole calls.    *)
(*                                                                         *)
(* A call that returns an error changes nothing: Add's three errors are    *)
(* the negation of its guard.                                              *)
(***************************************************************************)
EXTENDS ChainDomain, FiniteSets, GoMap

CONSTANTS
    Txs,            \* the transactions callers pass to Add
    TxIDs,          \* non-empty transaction IDs
    NoID,           \* the empty ID ""
    Accounts,       \* senders
    Nonces,         \* nonces in use
    MaxPool,        \* Pool.max
    TicksPerSecond, \* resolution of time.Now() against the seconds of ExpiresAt
    MaxTime         \* bound on the clock, in ticks

\* What Add and List read of a transaction.  Fees and nonces are uint64,
\* compared and never added, so their width does not matter here.
ASSUME TxsAssumption ==
    \A t \in Txs :
        /\ t.ID \in TxIDs \cup {NoID}
        /\ t.From \in Accounts
        /\ t.Nonce \in Nonces
        /\ t.Fee \in Nat
        /\ t.ExpiresAt \in Int
ASSUME TxRecordAssumption ==
    \A t \in Txs : t = [f \in DOMAIN t |-> t[f]] /\ "ID" \in DOMAIN t
ASSUME HashAssumption == \A t \in Txs : t.ID = NoID => TxHash(t) \in TxIDs
ASSUME NoIDAssumption == NoID \notin TxIDs
ASSUME MaxPoolAssumption == MaxPool \in Nat
ASSUME ClockAssumption == MaxTime \in Nat /\ TicksPerSecond \in Nat \ {0}

VARIABLES
    tx,         \* Pool.tx: ID -> transaction
    byAcct,     \* Pool.byAcct: account -> nonce -> ID
    now         \* the wall clock, in ticks

PoolVars == <<tx, byAcct, now>>

-----------------------------------------------------------------------------
(* Definitions marked "Bug" are faulty variants of the one that follows,    *)
(* used to show that a property notices them.                               *)

\* Bug: a transaction without an ID is stored as it is.
NeverHashed(t) == t

\* The transaction Add stores: one without an ID gets its hash as its ID.
WithID(t) == IF t.ID = NoID THEN [t EXCEPT !.ID = TxHash(t)] ELSE t

PoolTxs == {WithID(t) : t \in Txs}

\* p.byAcct[a], the nil map read as an empty one
Slots(a) == IF a \in DOMAIN byAcct THEN byAcct[a] ELSE EmptyMap

\* p.tx[id].Fee: the zero Tx where there is none
FeeOf(id) == IF id \in DOMAIN tx THEN tx[id].Fee ELSE 0

\* Bug: off by one.
FullOffByOne == Cardinality(DOMAIN tx) > MaxPool

PoolFull == Cardinality(DOMAIN tx) >= MaxPool

\* The account's nonce is taken, by the transaction with this ID.
Held(t) == t.Nonce \in DOMAIN Slots(t.From)
HeldBy(t) == Slots(t.From)[t.Nonce]

\* Bug: a replacement may pay the same.
AcceptsTies(t) ==
    /\ ~PoolFull
    /\ t.ID \notin DOMAIN tx
    /\ Held(t) => t.Fee >= FeeOf(HeldBy(t))

\* Bug: no check for a duplicate ID.
AcceptsReusedID(t) ==
    /\ ~PoolFull
    /\ Held(t) => t.Fee > FeeOf(HeldBy(t))

\* Add returns nil: there is room, the ID is new, and a transaction already
\* in the slot pays less.
Accepts(t) ==
    /\ ~PoolFull
    /\ t.ID \notin DOMAIN tx
    /\ Held(t) => t.Fee > FeeOf(HeldBy(t))

Add(t0) ==
    LET t == WithID(t0)
        replaced == IF Held(t) THEN {HeldBy(t)} ELSE {}
    IN /\ Accepts(t)
       /\ tx' = MapPut(MapDelete(tx, replaced), t.ID, t)
       /\ byAcct' = MapPut(byAcct, t.From, MapPut(Slots(t.From), t.Nonce, t.ID))

\* The nonces of account a under which a transaction of ids waits.
NoncesOf(a, ids) ==
    {tx[id].Nonce : id \in {i \in ids \cap DOMAIN tx : tx[i].From = a}}

\* Bug: the account's nonce stays taken.
RemoveKeepsIndex(ids) ==
    /\ tx' = MapDelete(tx, ids)
    /\ byAcct' = byAcct

\* Remove leaves an account whose last nonce goes in byAcct, with no nonce.
Remove(ids) ==
    /\ tx' = MapDelete(tx, ids)
    /\ byAcct' = [a \in DOMAIN byAcct |-> MapDelete(byAcct[a], NoncesOf(a, ids))]

\* Bug: a second of grace that List does not give.
ExpiredLate(t, at) ==
    t.ExpiresAt > 0 /\ (t.ExpiresAt + 1) * TicksPerSecond < at

\* List's test, on the seconds of the clock, and Expire's, on the instant.
Hidden(t, at) == t.ExpiresAt > 0 /\ t.ExpiresAt < at \div TicksPerSecond
Expired(t, at) == t.ExpiresAt > 0 /\ t.ExpiresAt * TicksPerSecond < at

\* Expire drops an account whose last nonce goes.
Expire(at) ==
    LET ids == {id \in DOMAIN tx : Expired(tx[id], at)}
        emptied == {a \in DOMAIN byAcct :
                      /\ NoncesOf(a, ids) # {}
                      /\ DOMAIN byAcct[a] \subseteq NoncesOf(a, ids)}
    IN /\ tx' = MapDelete(tx, ids)
       /\ byAcct' = [a \in DOMAIN byAcct \ emptied |->
                        MapDelete(byAcct[a], NoncesOf(a, ids))]

Visible(at) == {tx[id] : id \in {i \in DOMAIN tx : ~Hidden(tx[i], at)}}

\* What List may return: the visible transactions by falling fee, those of
\* equal fee in any order (a map is walked, and sort.Slice is not stable).
Listings(at) ==
    LET V == Visible(at)
        n == Cardinality(V)
    IN {s \in [1..n -> V] :
          /\ \A i, j \in 1..n : i < j => s[i] # s[j] /\ s[i].Fee >= s[j].Fee
          /\ \A t \in V : \E i \in 1..n : s[i] = t}
-----------------------------------------------------------------------------
PoolInit ==
    /\ tx = EmptyMap
    /\ byAcct = EmptyMap
    /\ now = 0

Tick ==
    /\ now < MaxTime
    /\ now' = now + 1
    /\ UNCHANGED <<tx, byAcct>>

\* Callers: any transaction offered, any IDs removed (a block's, possibly
\* listed long ago), and an expiry at the clock or at an older reading of it.
PoolNext ==
    \/ \E t \in Txs : Add(t) /\ UNCHANGED now
    \/ \E ids \in SUBSET TxIDs : Remove(ids) /\ UNCHANGED now
    \/ \E at \in 0..now : Expire(at) /\ UNCHANGED now
    \/ Tick

PoolSpec == PoolInit /\ [][PoolNext]_PoolVars
-----------------------------------------------------------------------------
\* Types of the pool's two maps and of the clock.
PoolTypeOK ==
    /\ IsMap(tx, TxIDs, PoolTxs)
    /\ byAcct = [a \in DOMAIN byAcct |-> byAcct[a]]
    /\ DOMAIN byAcct \subseteq Accounts
    /\ \A a \in DOMAIN byAcct : IsMap(byAcct[a], Nonces, TxIDs)
    /\ now \in 0..MaxTime

\* The two maps of the pool describe the same transactions, whatever the
\* order of Add, replacement, Remove with a stale list of IDs, and Expire:
\* a waiting transaction is stored under its own ID and is what its account
\* and nonce point to, and an account and nonce never point to a transaction
\* that is gone or that belongs to another slot (pool.go:39-46, 66-69).
IndexAgrees ==
    /\ \A id \in DOMAIN tx :
         LET t == tx[id]
         IN /\ t.ID = id
            /\ t.From \in DOMAIN byAcct
            /\ t.Nonce \in DOMAIN byAcct[t.From]
            /\ byAcct[t.From][t.Nonce] = id
    /\ \A a \in DOMAIN byAcct : \A n \in DOMAIN byAcct[a] :
         /\ byAcct[a][n] \in DOMAIN tx
         /\ tx[byAcct[a][n]].From = a
         /\ tx[byAcct[a][n]].Nonce = n

\* The pool never holds more than its capacity (pool.go:27).
PoolBounded == Cardinality(DOMAIN tx) <= MaxPool

\* Replace-by-fee: as long as a slot (account, nonce) stays occupied, the
\* transaction in it is the same or one that pays strictly more, whichever
\* calls ran (pool.go:39-43).
FeeOnlyRises ==
    [][\A a \in DOMAIN byAcct \cap DOMAIN byAcct' :
         \A n \in DOMAIN byAcct[a] \cap DOMAIN byAcct'[a] :
            LET was == tx[byAcct[a][n]]
                is == tx'[byAcct'[a][n]]
            IN is = was \/ is.Fee > was.Fee]_PoolVars

\* An Expire at the present instant leaves no transaction that a List at the
\* same instant would hide, although List compares whole seconds and Expire
\* instants (pool.go:54, policy.go:45).
ExpireCoversList ==
    [][Expire(now) => \A id \in DOMAIN tx' : ~Hidden(tx'[id], now)]_PoolVars

\* The two maps implement the single map of SlotPool.
OccupiedSlots == {<<tx[id].From, tx[id].Nonce>> : id \in DOMAIN tx}
Abstract ==
    INSTANCE SlotPool WITH
        Offers <- PoolTxs,
        slots <- [s \in OccupiedSlots |-> tx[byAcct[s[1]][s[2]]]]
ImplementsSlotPool == Abstract!SSpec
=============================================================================
