--------------------------- MODULE MempoolProofs ---------------------------
(***************************************************************************)
(* Proofs about mempool.Pool for any accounts, nonces, transactions and    *)
(* capacity: the type invariant, the agreement of the two maps, the bound  *)
(* on the pool, replace-by-fee, expiry, and that the two maps implement    *)
(* the single map of SlotPool.                                             *)
(***************************************************************************)
EXTENDS Mempool, Reservations, FiniteSetTheorems, TLAPS

-----------------------------------------------------------------------------
(* Go maps. *)

\* m[k] = v keeps a map a map.
LEMMA PutIsMap ==
    ASSUME NEW K, NEW V, NEW m, IsMap(m, K, V), NEW k \in K, NEW v \in V
    PROVE  IsMap(MapPut(m, k, v), K, V)
BY DEF IsMap, MapPut

\* delete(m, k) keeps a map a map.
LEMMA DeleteIsMap ==
    ASSUME NEW K, NEW V, NEW m, IsMap(m, K, V), NEW ks
    PROVE  IsMap(MapDelete(m, ks), K, V)
BY DEF IsMap, MapDelete

\* The empty map is one.
LEMMA EmptyIsMap == ASSUME NEW K, NEW V PROVE IsMap(EmptyMap, K, V)
BY DEF IsMap, EmptyMap
-----------------------------------------------------------------------------
(* The transactions of the pool. *)

\* A transaction has an ID once Add has seen it, and keeps its other fields.
LEMMA PoolTxFields ==
    \A t \in PoolTxs : /\ t.ID \in TxIDs
                       /\ t.From \in Accounts
                       /\ t.Nonce \in Nonces
                       /\ t.Fee \in Nat
                       /\ t.ExpiresAt \in Int
<1>1. SUFFICES ASSUME NEW u \in Txs
               PROVE  LET t == WithID(u)
                      IN /\ t.ID \in TxIDs
                         /\ t.From \in Accounts
                         /\ t.Nonce \in Nonces
                         /\ t.Fee \in Nat
                         /\ t.ExpiresAt \in Int
  BY DEF PoolTxs
<1>2. CASE u.ID = NoID
  <2>1. WithID(u) = [u EXCEPT !.ID = TxHash(u)]
    BY <1>2 DEF WithID
  <2>2. /\ WithID(u).ID = TxHash(u)
        /\ WithID(u).From = u.From
        /\ WithID(u).Nonce = u.Nonce
        /\ WithID(u).Fee = u.Fee
        /\ WithID(u).ExpiresAt = u.ExpiresAt
    BY <2>1, TxRecordAssumption
  <2> QED
    BY <2>2, <1>2, TxsAssumption, HashAssumption
<1>3. CASE u.ID # NoID
  BY <1>3, TxsAssumption DEF WithID
<1> QED
  BY <1>2, <1>3
-----------------------------------------------------------------------------
(* The inductive invariant.  The agreement of the maps needs the types, and *)
(* the bound needs the set of IDs to be finite for its cardinality to mean  *)
(* anything.                                                                *)
PoolInv ==
    /\ PoolTypeOK
    /\ IndexAgrees
    /\ IsFiniteSet(DOMAIN tx)
    /\ PoolBounded

\* A slot read for a replacement is a map of nonces to IDs.
LEMMA SlotsIsMap ==
    ASSUME PoolTypeOK, NEW a PROVE IsMap(Slots(a), Nonces, TxIDs)
BY EmptyIsMap DEF PoolTypeOK, Slots

\* A new pool satisfies the invariant.
LEMMA InitInv == PoolInit => PoolInv
<1> SUFFICES ASSUME PoolInit PROVE PoolInv
  OBVIOUS
<1>1. DOMAIN EmptyMap = {}
  BY DEF EmptyMap
<1>2. PoolTypeOK
  BY <1>1, EmptyIsMap, ClockAssumption DEF PoolInit, PoolTypeOK, EmptyMap
<1>3. IndexAgrees
  BY <1>1 DEF PoolInit, IndexAgrees
<1>4. IsFiniteSet(DOMAIN tx) /\ PoolBounded
  BY <1>1, FS_EmptySet, MaxPoolAssumption DEF PoolInit, PoolBounded
<1> QED
  BY <1>2, <1>3, <1>4 DEF PoolInv

\* Add keeps the invariant: the transaction it replaces is the one stored
\* under the ID of its own slot, so that ID alone leaves the pool.
LEMMA AddInv ==
    ASSUME PoolInv, NEW t0 \in Txs, Add(t0), UNCHANGED now PROVE PoolInv'
<1> DEFINE t == WithID(t0)
           replaced == IF Held(t) THEN {HeldBy(t)} ELSE {}
           kept == MapDelete(tx, replaced)
           nonces == MapPut(Slots(t.From), t.Nonce, t.ID)
<1>1. /\ t \in PoolTxs /\ t.ID \in TxIDs /\ t.From \in Accounts
      /\ t.Nonce \in Nonces
  BY PoolTxFields DEF PoolTxs
<1>2. /\ Accepts(t)
      /\ tx' = MapPut(kept, t.ID, t)
      /\ byAcct' = MapPut(byAcct, t.From, nonces)
  BY DEF Add
<1> HIDE DEF t
<1>3. /\ DOMAIN tx' = (DOMAIN tx \ replaced) \cup {t.ID}
      /\ tx'[t.ID] = t
      /\ \A id \in DOMAIN tx' : id # t.ID => id \in DOMAIN tx /\ tx'[id] = tx[id]
  BY <1>2 DEF MapPut, MapDelete
<1>4. /\ DOMAIN byAcct' = DOMAIN byAcct \cup {t.From}
      /\ byAcct'[t.From] = nonces
      /\ \A a \in DOMAIN byAcct : a # t.From => byAcct'[a] = byAcct[a]
  BY <1>2 DEF MapPut
<1>5. /\ DOMAIN nonces = DOMAIN Slots(t.From) \cup {t.Nonce}
      /\ nonces[t.Nonce] = t.ID
      /\ \A n \in DOMAIN Slots(t.From) : n # t.Nonce => nonces[n] = Slots(t.From)[n]
  BY DEF MapPut
<1>6. PoolTypeOK'
  <2>1. IsMap(tx', TxIDs, PoolTxs)
    BY <1>1, <1>2, PutIsMap, DeleteIsMap DEF PoolInv, PoolTypeOK
  <2>2. IsMap(nonces, Nonces, TxIDs)
    BY <1>1, PutIsMap, SlotsIsMap DEF PoolInv
  <2>3. byAcct' = [a \in DOMAIN byAcct' |-> byAcct'[a]]
    BY <1>2 DEF MapPut
  <2>4. \A a \in DOMAIN byAcct' : IsMap(byAcct'[a], Nonces, TxIDs)
    BY <1>4, <2>2 DEF PoolInv, PoolTypeOK
  <2>5. DOMAIN byAcct' \subseteq Accounts
    BY <1>1, <1>4 DEF PoolInv, PoolTypeOK
  <2> QED
    BY <2>1, <2>3, <2>4, <2>5 DEF PoolInv, PoolTypeOK
<1>7. IndexAgrees'
  <2>1. t.ID \notin DOMAIN tx
    BY <1>2 DEF Accepts
  <2>2. ASSUME NEW id \in DOMAIN tx'
        PROVE  /\ tx'[id].ID = id
               /\ tx'[id].From \in DOMAIN byAcct'
               /\ tx'[id].Nonce \in DOMAIN byAcct'[tx'[id].From]
               /\ byAcct'[tx'[id].From][tx'[id].Nonce] = id
    <3>1. CASE id = t.ID
      BY <3>1, <1>3, <1>4, <1>5
    <3>2. CASE id # t.ID
      <4> DEFINE u == tx[id]
      <4>1. id \in DOMAIN tx /\ id \notin replaced /\ tx'[id] = u
        BY <1>3, <3>2
      <4>2. /\ u.ID = id /\ u.From \in DOMAIN byAcct
            /\ u.Nonce \in DOMAIN byAcct[u.From]
            /\ byAcct[u.From][u.Nonce] = id
        BY <4>1 DEF PoolInv, IndexAgrees
      <4>3. CASE u.From = t.From
        <5>1. Slots(t.From) = byAcct[t.From]
          BY <4>2, <4>3 DEF Slots
        <5>2. u.Nonce # t.Nonce
          BY <4>1, <4>2, <4>3, <5>1 DEF Held, HeldBy
        <5> QED
          BY <4>1, <4>2, <4>3, <5>1, <5>2, <1>4, <1>5
      <4>4. CASE u.From # t.From
        BY <4>1, <4>2, <4>4, <1>4
      <4> QED
        BY <4>3, <4>4
    <3> QED
      BY <3>1, <3>2
  <2>3. ASSUME NEW a \in DOMAIN byAcct', NEW n \in DOMAIN byAcct'[a]
        PROVE  /\ byAcct'[a][n] \in DOMAIN tx'
               /\ tx'[byAcct'[a][n]].From = a
               /\ tx'[byAcct'[a][n]].Nonce = n
    <3>1. CASE a = t.From /\ n = t.Nonce
      BY <3>1, <1>3, <1>4, <1>5
    <3>2. CASE ~(a = t.From /\ n = t.Nonce)
      <4>1. /\ a \in DOMAIN byAcct /\ n \in DOMAIN byAcct[a]
            /\ byAcct'[a][n] = byAcct[a][n]
        <5>1. CASE a = t.From
          <6>1. n \in DOMAIN Slots(a) /\ byAcct'[a][n] = Slots(a)[n]
            BY <5>1, <3>2, <1>4, <1>5
          <6>2. a \in DOMAIN byAcct
            BY <6>1 DEF Slots, EmptyMap
          <6> QED
            BY <6>1, <6>2 DEF Slots
        <5>2. CASE a # t.From
          BY <5>2, <1>4
        <5> QED
          BY <5>1, <5>2
      <4> DEFINE id == byAcct[a][n]
      <4>2. id \in DOMAIN tx /\ tx[id].From = a /\ tx[id].Nonce = n
        BY <4>1 DEF PoolInv, IndexAgrees
      <4>3. id \notin replaced
        <5>1. SUFFICES ASSUME Held(t), id = HeldBy(t) PROVE FALSE
          OBVIOUS
        <5>2. t.From \in DOMAIN byAcct
          BY <5>1 DEF Held, Slots, EmptyMap
        <5>3. HeldBy(t) = byAcct[t.From][t.Nonce] /\ t.Nonce \in DOMAIN byAcct[t.From]
          BY <5>1, <5>2 DEF Held, HeldBy, Slots
        <5>4. tx[id].From = t.From /\ tx[id].Nonce = t.Nonce
          BY <5>1, <5>2, <5>3 DEF PoolInv, IndexAgrees
        <5> QED
          BY <5>4, <4>2, <3>2
      <4>4. id \in DOMAIN tx' /\ id # t.ID
        BY <4>2, <4>3, <1>3, <2>1
      <4> QED
        BY <4>1, <4>2, <4>4, <1>3
    <3> QED
      BY <3>1, <3>2
  <2> QED
    BY <2>2, <2>3 DEF IndexAgrees
<1>8. IsFiniteSet(DOMAIN tx') /\ Cardinality(DOMAIN tx') <= MaxPool
  <2>1. IsFiniteSet(DOMAIN tx) /\ Cardinality(DOMAIN tx) \in Nat
    BY FS_CardinalityType DEF PoolInv
  <2>2. Cardinality(DOMAIN tx) < MaxPool
    BY <1>2, <2>1, MaxPoolAssumption DEF Accepts, PoolFull
  <2>3. /\ IsFiniteSet(DOMAIN tx \cup {t.ID})
        /\ Cardinality(DOMAIN tx \cup {t.ID}) <= Cardinality(DOMAIN tx) + 1
    BY <2>1, FS_AddElement, SMTT(40)
  <2>4. DOMAIN tx' \subseteq DOMAIN tx \cup {t.ID}
    BY <1>3
  <2>5. /\ IsFiniteSet(DOMAIN tx')
        /\ Cardinality(DOMAIN tx') <= Cardinality(DOMAIN tx \cup {t.ID})
        /\ Cardinality(DOMAIN tx') \in Nat
        /\ Cardinality(DOMAIN tx \cup {t.ID}) \in Nat
    BY <2>3, <2>4, FS_Subset, FS_CardinalityType
  <2> QED
    BY <2>1, <2>2, <2>3, <2>5, MaxPoolAssumption
<1> QED
  BY <1>6, <1>7, <1>8 DEF PoolInv, PoolBounded

\* What Remove and Expire have in common: the transactions of S leave, with
\* their nonces, and with accounts that have no other nonce, if any.
Drops(S) ==
    /\ tx' = MapDelete(tx, S)
    /\ \E D \in SUBSET DOMAIN byAcct :
         /\ byAcct' = [a \in D |-> MapDelete(byAcct[a], NoncesOf(a, S))]
         /\ \A a \in DOMAIN byAcct \ D : DOMAIN byAcct[a] \subseteq NoncesOf(a, S)

\* Remove drops the IDs it is given, and no account.
LEMMA RemoveDrops ==
    ASSUME NEW ids, Remove(ids) PROVE Drops(ids)
BY DEF Remove, Drops

\* Expire drops what has expired, and the accounts that empties.
LEMMA ExpireDrops ==
    ASSUME NEW at, Expire(at)
    PROVE  Drops({id \in DOMAIN tx : Expired(tx[id], at)})
<1> DEFINE S == {id \in DOMAIN tx : Expired(tx[id], at)}
           emptied == {a \in DOMAIN byAcct :
                         /\ NoncesOf(a, S) # {}
                         /\ DOMAIN byAcct[a] \subseteq NoncesOf(a, S)}
           D == DOMAIN byAcct \ emptied
<1>1. /\ tx' = MapDelete(tx, S)
      /\ byAcct' = [a \in D |-> MapDelete(byAcct[a], NoncesOf(a, S))]
  BY DEF Expire
<1>2. \A a \in DOMAIN byAcct \ D : DOMAIN byAcct[a] \subseteq NoncesOf(a, S)
  OBVIOUS
<1>3. D \in SUBSET DOMAIN byAcct
  OBVIOUS
<1> HIDE DEF S, D
<1>4. Drops(S)
  BY <1>1, <1>2, <1>3 DEF Drops
<1> QED
  BY <1>4 DEF S

\* The slot of a transaction is among those vacated exactly when the
\* transaction itself is dropped: slots and IDs correspond one to one.
LEMMA VacatedSlot ==
    ASSUME IndexAgrees, NEW S, NEW id \in DOMAIN tx
    PROVE  tx[id].Nonce \in NoncesOf(tx[id].From, S) <=> id \in S
<1>1. ASSUME id \in S PROVE tx[id].Nonce \in NoncesOf(tx[id].From, S)
  BY <1>1 DEF NoncesOf
<1>2. ASSUME tx[id].Nonce \in NoncesOf(tx[id].From, S) PROVE id \in S
  <2>1. PICK i \in S \cap DOMAIN tx :
            tx[i].From = tx[id].From /\ tx[i].Nonce = tx[id].Nonce
    BY <1>2 DEF NoncesOf
  <2>2. i = byAcct[tx[i].From][tx[i].Nonce] /\ id = byAcct[tx[id].From][tx[id].Nonce]
    BY <2>1 DEF IndexAgrees
  <2> QED
    BY <2>1, <2>2
<1> QED
  BY <1>1, <1>2

\* Dropping transactions keeps the invariant.
LEMMA DropInv ==
    ASSUME PoolInv, NEW S, Drops(S), now' \in 0..MaxTime PROVE PoolInv'
<1>1. PICK D \in SUBSET DOMAIN byAcct :
         /\ byAcct' = [a \in D |-> MapDelete(byAcct[a], NoncesOf(a, S))]
         /\ \A a \in DOMAIN byAcct \ D : DOMAIN byAcct[a] \subseteq NoncesOf(a, S)
  BY DEF Drops
<1>2. /\ DOMAIN tx' = DOMAIN tx \ S
      /\ \A id \in DOMAIN tx' : tx'[id] = tx[id]
  BY DEF Drops, MapDelete
<1>3. /\ DOMAIN byAcct' = D
      /\ \A a \in D : DOMAIN byAcct'[a] = DOMAIN byAcct[a] \ NoncesOf(a, S)
      /\ \A a \in D : \A n \in DOMAIN byAcct'[a] : byAcct'[a][n] = byAcct[a][n]
  BY <1>1 DEF MapDelete
<1>4. PoolTypeOK'
  <2>1. IsMap(tx', TxIDs, PoolTxs)
    BY DeleteIsMap DEF PoolInv, PoolTypeOK, Drops
  <2>2. \A a \in DOMAIN byAcct' : IsMap(byAcct'[a], Nonces, TxIDs)
    BY <1>1, <1>3, DeleteIsMap DEF PoolInv, PoolTypeOK
  <2>3. /\ byAcct' = [a \in DOMAIN byAcct' |-> byAcct'[a]]
        /\ DOMAIN byAcct' \subseteq Accounts
    BY <1>1, <1>3 DEF PoolInv, PoolTypeOK
  <2> QED
    BY <2>1, <2>2, <2>3 DEF PoolTypeOK
<1>5. IndexAgrees'
  <2>1. ASSUME NEW id \in DOMAIN tx'
        PROVE  /\ tx'[id].ID = id
               /\ tx'[id].From \in DOMAIN byAcct'
               /\ tx'[id].Nonce \in DOMAIN byAcct'[tx'[id].From]
               /\ byAcct'[tx'[id].From][tx'[id].Nonce] = id
    <3> DEFINE u == tx[id]
    <3>1. id \in DOMAIN tx /\ id \notin S /\ tx'[id] = u
      BY <1>2
    <3>2. /\ u.ID = id /\ u.From \in DOMAIN byAcct
          /\ u.Nonce \in DOMAIN byAcct[u.From]
          /\ byAcct[u.From][u.Nonce] = id
      BY <3>1 DEF PoolInv, IndexAgrees
    <3>3. u.Nonce \notin NoncesOf(u.From, S)
      BY <3>1, VacatedSlot DEF PoolInv
    <3>4. u.From \in D
      BY <1>1, <3>2, <3>3
    <3> QED
      BY <1>3, <3>1, <3>2, <3>3, <3>4
  <2>2. ASSUME NEW a \in DOMAIN byAcct', NEW n \in DOMAIN byAcct'[a]
        PROVE  /\ byAcct'[a][n] \in DOMAIN tx'
               /\ tx'[byAcct'[a][n]].From = a
               /\ tx'[byAcct'[a][n]].Nonce = n
    <3> DEFINE id == byAcct[a][n]
    <3>1. /\ a \in DOMAIN byAcct /\ n \in DOMAIN byAcct[a]
          /\ n \notin NoncesOf(a, S) /\ byAcct'[a][n] = id
      BY <1>3
    <3>2. id \in DOMAIN tx /\ tx[id].From = a /\ tx[id].Nonce = n
      BY <3>1 DEF PoolInv, IndexAgrees
    <3>3. id \notin S
      BY <3>1, <3>2, VacatedSlot DEF PoolInv
    <3> QED
      BY <1>2, <3>1, <3>2, <3>3
  <2> QED
    BY <2>1, <2>2 DEF IndexAgrees
<1>6. IsFiniteSet(DOMAIN tx') /\ Cardinality(DOMAIN tx') <= MaxPool
  <2>1. /\ IsFiniteSet(DOMAIN tx')
        /\ Cardinality(DOMAIN tx') <= Cardinality(DOMAIN tx)
    BY <1>2, FS_Subset DEF PoolInv
  <2>2. Cardinality(DOMAIN tx') \in Nat /\ Cardinality(DOMAIN tx) \in Nat
    BY <2>1, FS_CardinalityType DEF PoolInv
  <2> QED
    BY <2>1, <2>2, MaxPoolAssumption DEF PoolInv, PoolBounded
<1> QED
  BY <1>4, <1>5, <1>6 DEF PoolInv, PoolBounded

\* Every step keeps the invariant.
LEMMA NextInv == PoolInv /\ [PoolNext]_PoolVars => PoolInv'
<1> SUFFICES ASSUME PoolInv, [PoolNext]_PoolVars PROVE PoolInv'
  OBVIOUS
<1>1. ASSUME NEW t \in Txs, Add(t), UNCHANGED now PROVE PoolInv'
  BY <1>1, AddInv
<1>2. ASSUME NEW ids \in SUBSET TxIDs, Remove(ids), UNCHANGED now PROVE PoolInv'
  BY <1>2, RemoveDrops, DropInv DEF PoolInv, PoolTypeOK
<1>3. ASSUME NEW at \in 0..now, Expire(at), UNCHANGED now PROVE PoolInv'
  <2>1. Drops({id \in DOMAIN tx : Expired(tx[id], at)})
    BY <1>3, ExpireDrops
  <2> QED
    BY <1>3, <2>1, DropInv DEF PoolInv, PoolTypeOK
<1>4. CASE Tick
  <2>1. now' \in 0..MaxTime
    BY <1>4, ClockAssumption DEF Tick, PoolInv, PoolTypeOK
  <2> QED
    BY <1>4, <2>1 DEF Tick, PoolInv, PoolTypeOK, IndexAgrees, PoolBounded
<1>5. CASE UNCHANGED PoolVars
  BY <1>5 DEF PoolVars, PoolInv, PoolTypeOK, IndexAgrees, PoolBounded
<1> QED
  BY <1>1, <1>2, <1>3, <1>4, <1>5 DEF PoolNext

\* The invariant holds after any calls of Add, Remove and Expire.
THEOREM PoolInvariant == PoolSpec => []PoolInv
BY InitInv, NextInv, PTL DEF PoolSpec

\* The types of the pool's maps (pool.go:14-19).
THEOREM PoolTypeCorrect == PoolSpec => []PoolTypeOK
BY PoolInvariant, PTL DEF PoolInv

\* The two maps describe the same transactions after any sequence of calls
\* (pool.go:39-46, 66-69; policy.go:44-53).
THEOREM MapsAgree == PoolSpec => []IndexAgrees
BY PoolInvariant, PTL DEF PoolInv

\* The pool stays within its capacity (pool.go:27).
THEOREM PoolIsBounded == PoolSpec => []PoolBounded
BY PoolInvariant, PTL DEF PoolInv
-----------------------------------------------------------------------------
(* Action properties. *)

\* While a slot is occupied its fee only rises (pool.go:39-43).
THEOREM FeesRise == PoolSpec => FeeOnlyRises
<1> DEFINE Rises ==
        \A a \in DOMAIN byAcct \cap DOMAIN byAcct' :
            \A n \in DOMAIN byAcct[a] \cap DOMAIN byAcct'[a] :
                LET was == tx[byAcct[a][n]]
                    is == tx'[byAcct'[a][n]]
                IN is = was \/ is.Fee > was.Fee
<1>1. ASSUME PoolInv, PoolInv', PoolNext PROVE Rises
  <2> SUFFICES ASSUME NEW a \in DOMAIN byAcct \cap DOMAIN byAcct',
                      NEW n \in DOMAIN byAcct[a] \cap DOMAIN byAcct'[a]
               PROVE  \/ tx'[byAcct'[a][n]] = tx[byAcct[a][n]]
                      \/ tx'[byAcct'[a][n]].Fee > tx[byAcct[a][n]].Fee
    OBVIOUS
  <2>1. /\ byAcct[a][n] \in DOMAIN tx
        /\ byAcct'[a][n] \in DOMAIN tx'
    BY <1>1 DEF PoolInv, IndexAgrees
  <2>2. ASSUME NEW t0 \in Txs, Add(t0)
        PROVE  \/ tx'[byAcct'[a][n]] = tx[byAcct[a][n]]
               \/ tx'[byAcct'[a][n]].Fee > tx[byAcct[a][n]].Fee
    <3> DEFINE t == WithID(t0)
               replaced == IF Held(t) THEN {HeldBy(t)} ELSE {}
    <3>1. /\ Accepts(t)
          /\ tx' = MapPut(MapDelete(tx, replaced), t.ID, t)
          /\ byAcct' = MapPut(byAcct, t.From, MapPut(Slots(t.From), t.Nonce, t.ID))
      BY <2>2 DEF Add
    <3> HIDE DEF t
    <3>2. CASE a = t.From /\ n = t.Nonce
      <4>1. Held(t) /\ HeldBy(t) = byAcct[a][n]
        BY <3>2 DEF Held, HeldBy, Slots
      <4>2. t.Fee > tx[byAcct[a][n]].Fee
        BY <3>1, <4>1, <2>1 DEF Accepts, FeeOf
      <4>3. byAcct'[a][n] = t.ID /\ tx'[t.ID] = t
        BY <3>1, <3>2 DEF MapPut
      <4> QED
        BY <4>2, <4>3
    <3>3. CASE ~(a = t.From /\ n = t.Nonce)
      <4>1. byAcct'[a][n] = byAcct[a][n]
        BY <3>1, <3>3 DEF MapPut, Slots
      <4>2. byAcct[a][n] # t.ID
        BY <3>1, <2>1 DEF Accepts
      <4> QED
        BY <2>1, <3>1, <4>1, <4>2 DEF MapPut, MapDelete
    <3> QED
      BY <3>2, <3>3
  <2>3. ASSUME NEW S, Drops(S) PROVE tx'[byAcct'[a][n]] = tx[byAcct[a][n]]
    <3>1. byAcct'[a][n] = byAcct[a][n]
      BY <2>3 DEF Drops, MapDelete
    <3> QED
      BY <2>1, <2>3, <3>1 DEF Drops, MapDelete
  <2>4. CASE Tick
    BY <2>4 DEF Tick
  <2> QED
    BY <1>1, <2>2, <2>3, <2>4, RemoveDrops, ExpireDrops DEF PoolNext
<1>2. PoolInv /\ PoolInv' /\ [PoolNext]_PoolVars => [Rises]_PoolVars
  BY <1>1
<1> QED
  BY <1>2, PoolInvariant, PTL DEF PoolSpec, FeeOnlyRises

\* After an Expire at the present instant List hides nothing that is left
\* (pool.go:54, policy.go:45).
THEOREM ExpiryCovers == PoolSpec => ExpireCoversList
<1> DEFINE Covers == Expire(now) => \A id \in DOMAIN tx' : ~Hidden(tx'[id], now)
<1>1. ASSUME PoolInv PROVE Covers
  <2> SUFFICES ASSUME Expire(now), NEW id \in DOMAIN tx' PROVE ~Hidden(tx'[id], now)
    OBVIOUS
  <2>1. id \in DOMAIN tx /\ tx'[id] = tx[id] /\ ~Expired(tx[id], now)
    BY DEF Expire, MapDelete
  <2>2. tx[id].ExpiresAt \in Int /\ now \in Nat
    BY <1>1, <2>1, PoolTxFields, ClockAssumption DEF PoolInv, PoolTypeOK, IsMap
  <2>3. ASSUME NEW e \in Int, NEW d \in Nat, NEW T \in Nat \ {0},
               e < d \div T, e > 0
        PROVE  e * T < d
    <3>1. PICK q \in Int : q = d \div T
      BY <2>3
    <3>2. q * T <= d
      BY <2>3, <3>1
    <3>3. e * T < q * T
      BY <2>3, <3>1
    <3> QED
      BY <3>2, <3>3
  <2> QED
    BY <2>1, <2>2, <2>3, ClockAssumption DEF Expired, Hidden
<1>2. PoolInv /\ [PoolNext]_PoolVars => [Covers]_PoolVars
  BY <1>1
<1> QED
  BY <1>2, PoolInvariant, PTL DEF PoolSpec, ExpireCoversList
-----------------------------------------------------------------------------
(* The refinement.  SlotMap is the mapping of slots in Abstract. *)
SlotMap == [s \in OccupiedSlots |-> tx[byAcct[s[1]][s[2]]]]
SlotOfTx(t) == <<t.From, t.Nonce>>

\* Slots and IDs correspond one to one.
LEMMA SlotMapAt ==
    ASSUME PoolInv
    PROVE  /\ DOMAIN SlotMap = {SlotOfTx(tx[id]) : id \in DOMAIN tx}
           /\ \A id \in DOMAIN tx : SlotMap[SlotOfTx(tx[id])] = tx[id]
           /\ {SlotMap[s].ID : s \in DOMAIN SlotMap} = DOMAIN tx
<1>1. DOMAIN SlotMap = {SlotOfTx(tx[id]) : id \in DOMAIN tx}
  BY DEF SlotMap, OccupiedSlots, SlotOfTx
<1>2. ASSUME NEW id \in DOMAIN tx PROVE SlotMap[SlotOfTx(tx[id])] = tx[id]
  <2>1. byAcct[tx[id].From][tx[id].Nonce] = id
    BY DEF PoolInv, IndexAgrees
  <2>2. SlotOfTx(tx[id]) \in OccupiedSlots
    BY DEF OccupiedSlots, SlotOfTx
  <2> QED
    BY <2>1, <2>2 DEF SlotMap, SlotOfTx
<1>3. \A id \in DOMAIN tx : SlotMap[SlotOfTx(tx[id])].ID = id
  BY <1>2 DEF PoolInv, IndexAgrees
<1>4. {SlotMap[s].ID : s \in DOMAIN SlotMap} = DOMAIN tx
  <2>1. ASSUME NEW s \in DOMAIN SlotMap PROVE SlotMap[s].ID \in DOMAIN tx
    BY <1>1, <1>3
  <2>2. ASSUME NEW id \in DOMAIN tx PROVE \E s \in DOMAIN SlotMap : SlotMap[s].ID = id
    BY <1>1, <1>3
  <2> QED
    BY <2>1, <2>2
<1> QED
  BY <1>1, <1>2, <1>4

\* Add offers its transaction to the slot.
LEMMA AddOffers ==
    ASSUME PoolInv, PoolInv', NEW t0 \in Txs, Add(t0)
    PROVE  Abstract!Offer(WithID(t0))
<1> DEFINE t == WithID(t0)
           replaced == IF Held(t) THEN {HeldBy(t)} ELSE {}
<1>1. /\ Accepts(t)
      /\ tx' = MapPut(MapDelete(tx, replaced), t.ID, t)
  BY DEF Add
<1> HIDE DEF t
<1>2. /\ DOMAIN tx' = (DOMAIN tx \ replaced) \cup {t.ID}
      /\ tx'[t.ID] = t
      /\ \A id \in DOMAIN tx' : id # t.ID => tx'[id] = tx[id]
      /\ t.ID \notin DOMAIN tx
  BY <1>1 DEF MapPut, MapDelete, Accepts
<1>3. ASSUME Held(t)
      PROVE  HeldBy(t) \in DOMAIN tx /\ SlotOfTx(tx[HeldBy(t)]) = SlotOfTx(t)
  BY <1>3 DEF Held, HeldBy, Slots, EmptyMap, PoolInv, IndexAgrees, SlotOfTx
<1>4. ASSUME NEW id \in DOMAIN tx, SlotOfTx(tx[id]) = SlotOfTx(t)
      PROVE  Held(t) /\ HeldBy(t) = id
  <2>1. tx[id].From = t.From /\ tx[id].Nonce = t.Nonce
    BY <1>4 DEF SlotOfTx
  <2> QED
    BY <2>1 DEF Held, HeldBy, Slots, PoolInv, IndexAgrees
<1>5. DOMAIN SlotMap' = DOMAIN SlotMap \cup {SlotOfTx(t)}
  <2>1. DOMAIN SlotMap' = {SlotOfTx(tx'[id]) : id \in DOMAIN tx'}
    BY DEF SlotMap, OccupiedSlots, SlotOfTx
  <2>2. DOMAIN SlotMap = {SlotOfTx(tx[id]) : id \in DOMAIN tx}
    BY SlotMapAt
  <2> QED
    BY <2>1, <2>2, <1>2, <1>3
<1>6. \A id \in DOMAIN tx' : SlotMap'[SlotOfTx(tx'[id])] = tx'[id]
  <2>1. ASSUME NEW id \in DOMAIN tx' PROVE SlotMap'[SlotOfTx(tx'[id])] = tx'[id]
    <3>1. byAcct'[tx'[id].From][tx'[id].Nonce] = id
      BY DEF PoolInv, IndexAgrees
    <3>2. SlotOfTx(tx'[id]) \in OccupiedSlots'
      BY DEF OccupiedSlots, SlotOfTx
    <3> QED
      BY <3>1, <3>2 DEF SlotMap, SlotOfTx
  <2> QED
    BY <2>1
<1>7. ASSUME NEW s \in DOMAIN SlotMap', s # SlotOfTx(t)
      PROVE  s \in DOMAIN SlotMap /\ SlotMap'[s] = SlotMap[s]
  <2>1. PICK id \in DOMAIN tx : s = SlotOfTx(tx[id])
    BY <1>5, <1>7, SlotMapAt
  <2>2. id \notin replaced
    BY <2>1, <1>3, <1>7
  <2>3. id \in DOMAIN tx' /\ tx'[id] = tx[id]
    BY <2>1, <2>2, <1>2
  <2>4. SlotMap'[s] = tx[id]
    BY <2>1, <2>3, <1>6
  <2>5. SlotMap[s] = tx[id]
    BY <2>1, SlotMapAt
  <2> QED
    BY <1>5, <1>7, <2>4, <2>5
<1>8. SlotMap'[SlotOfTx(t)] = t
  BY <1>2, <1>6
<1>9. SlotMap' = [x \in DOMAIN SlotMap \cup {SlotOfTx(t)} |->
                    IF x = SlotOfTx(t) THEN t ELSE SlotMap[x]]
  <2>1. SlotMap' = [x \in DOMAIN SlotMap' |-> SlotMap'[x]]
    BY DEF SlotMap
  <2> QED
    BY <2>1, <1>5, <1>7, <1>8
<1>10. /\ Cardinality({SlotMap[s].ID : s \in DOMAIN SlotMap}) < MaxPool
       /\ t.ID \notin {SlotMap[s].ID : s \in DOMAIN SlotMap}
  <2>1. Cardinality(DOMAIN tx) \in Nat
    BY FS_CardinalityType DEF PoolInv
  <2> QED
    BY <2>1, <1>1, <1>2, SlotMapAt, MaxPoolAssumption DEF Accepts, PoolFull
<1>11. SlotOfTx(t) \in DOMAIN SlotMap => SlotMap[SlotOfTx(t)].Fee < t.Fee
  <2>1. ASSUME SlotOfTx(t) \in DOMAIN SlotMap PROVE SlotMap[SlotOfTx(t)].Fee < t.Fee
    <3>1. PICK id \in DOMAIN tx : SlotOfTx(t) = SlotOfTx(tx[id])
      BY <2>1, SlotMapAt
    <3>2. SlotMap[SlotOfTx(t)] = tx[id]
      BY <3>1, SlotMapAt
    <3>3. t.Fee > tx[id].Fee
      BY <1>1, <1>4, <3>1 DEF Accepts, FeeOf
    <3>4. t.Fee \in Nat /\ tx[id].Fee \in Nat
      BY PoolTxFields, <3>1 DEF t, PoolTxs, PoolInv, PoolTypeOK, IsMap
    <3> QED
      BY <3>2, <3>3, <3>4
  <2> QED
    BY <2>1
<1>12. \A X : Abstract!Cardinality(X) = Cardinality(X)
  BY ZenonT(60) DEF Abstract!Cardinality, Cardinality
<1>13. Abstract!Offer(t)
  BY <1>9, <1>10, <1>11, <1>12
  DEF Abstract!Offer, Abstract!IDs, Abstract!SlotOf, Abstract!MapPut, SlotMap, SlotOfTx
<1> QED
  BY <1>13 DEF t

\* Dropping transactions vacates their slots.
LEMMA DropVacates ==
    ASSUME PoolInv, PoolInv', NEW S, Drops(S) PROVE Abstract!Vacate
<1> DEFINE V == {SlotOfTx(tx[id]) : id \in S \cap DOMAIN tx}
<1>1. /\ DOMAIN tx' = DOMAIN tx \ S
      /\ \A id \in DOMAIN tx' : tx'[id] = tx[id]
  BY DEF Drops, MapDelete
<1>2. ASSUME NEW id \in DOMAIN tx PROVE SlotOfTx(tx[id]) \in V <=> id \in S
  <2>1. ASSUME NEW i \in DOMAIN tx, SlotOfTx(tx[i]) = SlotOfTx(tx[id]) PROVE i = id
    BY <2>1 DEF SlotOfTx, PoolInv, IndexAgrees
  <2> QED
    BY <2>1
<1>3. DOMAIN SlotMap' = DOMAIN SlotMap \ V
  <2>1. DOMAIN SlotMap' = {SlotOfTx(tx'[id]) : id \in DOMAIN tx'}
    BY DEF SlotMap, OccupiedSlots, SlotOfTx
  <2>2. DOMAIN SlotMap = {SlotOfTx(tx[id]) : id \in DOMAIN tx}
    BY SlotMapAt
  <2> QED
    BY <2>1, <2>2, <1>1, <1>2
<1>4. ASSUME NEW s \in DOMAIN SlotMap' PROVE SlotMap'[s] = SlotMap[s]
  <2>1. PICK id \in DOMAIN tx' : s = SlotOfTx(tx'[id])
    BY DEF SlotMap, OccupiedSlots, SlotOfTx
  <2>2. byAcct'[tx'[id].From][tx'[id].Nonce] = id
    BY DEF PoolInv, IndexAgrees
  <2>3. SlotMap'[s] = tx'[id]
    BY <2>1, <2>2 DEF SlotMap, SlotOfTx, OccupiedSlots
  <2>4. SlotMap[s] = tx[id]
    BY <2>1, <1>1, SlotMapAt
  <2> QED
    BY <2>3, <2>4, <1>1
<1>5. SlotMap' = [x \in DOMAIN SlotMap \ V |-> SlotMap[x]]
  <2>1. SlotMap' = [x \in DOMAIN SlotMap' |-> SlotMap'[x]]
    BY DEF SlotMap
  <2> QED
    BY <2>1, <1>3, <1>4
<1>6. V \in SUBSET DOMAIN SlotMap
  BY SlotMapAt
<1> QED
  BY <1>5, <1>6 DEF Abstract!Vacate, Abstract!MapDelete, SlotMap

\* The two maps of the pool implement the single map of SlotPool: one waiting
\* transaction per slot, displaced only by a better paying one (pool.go:24-71).
THEOREM PoolImplementsSlotPool == PoolSpec => ImplementsSlotPool
<1>1. PoolInit => Abstract!SInit
  <2>1. ASSUME PoolInit PROVE SlotMap = EmptyMap
    BY <2>1 DEF PoolInit, SlotMap, OccupiedSlots, EmptyMap
  <2> QED
    BY <2>1 DEF Abstract!SInit, Abstract!EmptyMap, SlotMap, EmptyMap
<1>2. PoolInv /\ PoolInv' /\ [PoolNext]_PoolVars
      => [Abstract!SNext]_SlotMap
  <2> SUFFICES ASSUME PoolInv, PoolInv', [PoolNext]_PoolVars
               PROVE  Abstract!SNext \/ SlotMap' = SlotMap
    OBVIOUS
  <2>1. ASSUME NEW t \in Txs, Add(t) PROVE Abstract!SNext
    BY <2>1, AddOffers DEF Abstract!SNext, PoolTxs
  <2>2. ASSUME NEW S, Drops(S) PROVE Abstract!SNext
    BY <2>2, DropVacates DEF Abstract!SNext
  <2>3. CASE UNCHANGED <<tx, byAcct>>
    BY <2>3 DEF SlotMap, OccupiedSlots
  <2> QED
    BY <2>1, <2>2, <2>3, RemoveDrops, ExpireDrops DEF PoolNext, PoolVars, Tick
<1>3. PoolInv /\ PoolInv' /\ [PoolNext]_PoolVars
      => [Abstract!SNext]_([s \in OccupiedSlots |-> tx[byAcct[s[1]][s[2]]]])
  BY <1>2 DEF SlotMap
<1> QED
  BY <1>1, <1>3, PoolInvariant, PTL DEF PoolSpec, ImplementsSlotPool, Abstract!SSpec
-----------------------------------------------------------------------------
(* Reservations. *)

\* Keys are held under IDs.
ReservationPairs == holding \subseteq Reservable \X Workers

\* Who acquired a key under an ID and has not released it since is the key's
\* only owner, whatever others acquire or release (policy.go:96-111).  A key
\* that changes hands without a release is one the empty ID had: nobody else
\* is holding it.
THEOREM ReservationsAreExclusive == ReservationSpec => []ReservationExclusive
<1>1. ReservationInit => ReservationExclusive
  BY DEF ReservationInit, ReservationExclusive
<1>2. ASSUME ReservationExclusive, NEW key \in Reservable, NEW id \in Workers,
             Acquire(key, id)
      PROVE  ReservationExclusive'
  <2>1. /\ OwnerOf(key) = NoWorker \/ OwnerOf(key) = id
        /\ holding' = holding \cup {<<key, id>>}
    BY <1>2 DEF Acquire
  <2>2. \A k : OwnerOf(k)' = IF k = key THEN id ELSE OwnerOf(k)
    BY <1>2 DEF Acquire, MapPut, OwnerOf
  <2>3. ASSUME NEW p \in holding', p[2] # NoWorker PROVE OwnerOf(p[1])' = p[2]
    <3>1. CASE p \in holding
      BY <1>2, <2>1, <2>2, <2>3, <3>1 DEF ReservationExclusive
    <3>2. CASE p = <<key, id>>
      BY <2>2, <3>2
    <3> QED
      BY <2>1, <3>1, <3>2
  <2> QED
    BY <2>3 DEF ReservationExclusive
<1>3. ASSUME ReservationExclusive, ReservationPairs,
             NEW key \in Reservable, NEW id \in Workers, Release(key, id)
      PROVE  ReservationExclusive'
  <2>1. holding' = holding \ {<<key, id>>}
    BY <1>3 DEF Release
  <2>2. \A k : OwnerOf(k)' = IF k = key /\ OwnerOf(key) = id THEN NoWorker ELSE OwnerOf(k)
    BY <1>3 DEF Release, MapDelete, OwnerOf
  <2>3. ASSUME NEW p \in holding', p[2] # NoWorker PROVE OwnerOf(p[1])' = p[2]
    <3>1. p \in holding /\ p # <<key, id>> /\ OwnerOf(p[1]) = p[2] /\ p = <<p[1], p[2]>>
      BY <1>3, <2>1, <2>3 DEF ReservationExclusive, ReservationPairs
    <3> QED
      BY <2>2, <3>1
  <2> QED
    BY <2>3 DEF ReservationExclusive
<1>4. ASSUME ReservationExclusive, UNCHANGED ReservationVars PROVE ReservationExclusive'
  BY <1>4 DEF ReservationExclusive, ReservationVars, OwnerOf
<1>5. ReservationExclusive /\ ReservationPairs /\ [ReservationNext]_ReservationVars
        => ReservationExclusive'
  BY <1>2, <1>3, <1>4 DEF ReservationNext
<1>6. ReservationInit => ReservationPairs
  BY DEF ReservationInit, ReservationPairs
<1>7. ReservationPairs /\ [ReservationNext]_ReservationVars => ReservationPairs'
  <2> SUFFICES ASSUME ReservationPairs, [ReservationNext]_ReservationVars
               PROVE  ReservationPairs'
    OBVIOUS
  <2>1. ASSUME NEW key \in Reservable, NEW id \in Workers, Acquire(key, id)
        PROVE  ReservationPairs'
    BY <2>1 DEF Acquire, ReservationPairs
  <2>2. ASSUME NEW key \in Reservable, NEW id \in Workers, Release(key, id)
        PROVE  ReservationPairs'
    BY <2>2 DEF Release, ReservationPairs
  <2>3. ASSUME UNCHANGED ReservationVars PROVE ReservationPairs'
    BY <2>3 DEF ReservationPairs, ReservationVars
  <2> QED
    BY <2>1, <2>2, <2>3 DEF ReservationNext
<1> QED
  BY <1>1, <1>5, <1>6, <1>7, PTL DEF ReservationSpec
=============================================================================
