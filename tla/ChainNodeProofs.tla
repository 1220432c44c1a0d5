-------------------------- MODULE ChainNodeProofs --------------------------
(***************************************************************************)
(* Proofs about app.Node for any requests, transactions, keys and sizes of *)
(* the pool.  First the control: who holds opMu, and which locals a        *)
(* goroutine has at which step.  On that rest the chain, the state, the    *)
(* snapshots, that the node implements the ledger, and the proofs it       *)
(* serves.  Last, a chain that is cut and grown again (Retention).         *)
(***************************************************************************)
EXTENDS ChainNode, Retention, MempoolProofs, KVStateProofs

-----------------------------------------------------------------------------
(* Control.                                                                 *)

\* What List returns of a pool whose maps agree.
Bodies == UNION {[1..n -> Txs] : n \in 0..MaxPool}
IsBody(txs) ==
    /\ txs \in Bodies
    /\ \A i, j \in 1..Len(txs) : txs[i].ID = txs[j].ID => i = j

IsSnap(s) ==
    /\ s.ID \in 0..MaxTime
    /\ s = [ID |-> s.ID, Height |-> s.Height, Root |-> s.Root, Data |-> s.Data,
            Verified |-> s.Verified]

\* The frames of a goroutine, by the request it serves.
SubmitFrame(f) ==
    \/ f = [pc |-> "start"]
    \/ f.tx \in Txs /\ f = [pc |-> "accepted", tx |-> f.tx]
    \/ f.tx \in Txs /\ f = [pc |-> "done", code |-> 202, tx |-> f.tx]
    \/ f = [pc |-> "done", code |-> 409]

MineFrame(f) ==
    \/ f = [pc |-> "start"]
    \/ f = [pc |-> "list"]
    \/ IsBody(f.txs) /\ f = [pc |-> "latest", txs |-> f.txs]
    \/ /\ IsBody(f.txs) /\ f.done \in 0..Len(f.txs)
       /\ f = [pc |-> "apply", txs |-> f.txs, prev |-> f.prev, done |-> f.done]
    \/ /\ IsBody(f.block.Transactions)
       /\ f.pc \in {"put", "remove", "count", "commit"}
       /\ f = [pc |-> f.pc, block |-> f.block]
    \/ f = [pc |-> "done", code |-> f.code]

SnapFrame(f) ==
    \/ f = [pc |-> "start"]
    \/ f = [pc |-> "height"]
    \/ f = [pc |-> "root", id |-> f.id, height |-> f.height] /\ f.id \in 0..MaxTime
    \/ /\ f = [pc |-> "data", id |-> f.id, height |-> f.height, root |-> f.root]
       /\ f.id \in 0..MaxTime
    \/ /\ f.pc \in {"putsnap", "version", "created"}
       /\ f = [pc |-> f.pc, snap |-> f.snap] /\ IsSnap(f.snap)
    \/ f = [pc |-> "done", code |-> f.code]

VerifyFrame(f) ==
    \/ f = [pc |-> "start"]
    \/ f = [pc |-> "get"]
    \/ /\ f.pc \in {"compare", "putback"}
       /\ f = [pc |-> f.pc, snap |-> f.snap] /\ IsSnap(f.snap)
    \/ f = [pc |-> "done", code |-> f.code]

ProofFrame(f) ==
    \/ f = [pc |-> "start"]
    \/ f = [pc |-> "proofdata", calm |-> f.calm, item |-> f.item]
    \/ f = [pc |-> "proofroot", calm |-> f.calm, item |-> f.item, path |-> f.path]
    \/ f = [pc |-> "done", code |-> f.code]
    \/ f = [pc |-> "done", code |-> f.code, calm |-> f.calm, item |-> f.item]

Frame(r, f) ==
    /\ r \in Submits => SubmitFrame(f)
    /\ r \in Mines => MineFrame(f)
    /\ r \in Snapshots => SnapFrame(f)
    /\ r \in Verifies => VerifyFrame(f)
    /\ r \in ProofReads => ProofFrame(f)

\* The steps at which a goroutine does not hold opMu.
Outside == {"start", "accepted", "proofdata", "proofroot", "done"}

\* opMu is held by the one goroutine that is inside a critical section.
Section ==
    /\ req = [r \in Requests |-> req[r]]
    /\ \A r \in Requests : Frame(r, req[r])
    /\ opMu \in Requests \cup {Nobody}
    /\ \A r \in Requests : req[r].pc \notin Outside <=> r = opMu

SnapsTyped == \A id \in DOMAIN snaps : IsSnap(snaps[id])

\* The steps of the frames.
LEMMA FrameSteps ==
    ASSUME NEW r, NEW f, Frame(r, f)
    PROVE  /\ r \in Submits => f.pc \in {"start", "accepted", "done"}
           /\ r \in Mines => f.pc \in {"start", "list", "latest", "apply", "put",
                                       "remove", "count", "commit", "done"}
           /\ r \in Snapshots => f.pc \in {"start", "height", "root", "data",
                                           "putsnap", "version", "created", "done"}
           /\ r \in Verifies => f.pc \in {"start", "get", "compare", "putback", "done"}
           /\ r \in ProofReads => f.pc \in {"start", "proofdata", "proofroot", "done"}
<1>1. SubmitFrame(f) => f.pc \in {"start", "accepted", "done"}
  BY DEF SubmitFrame
<1>2. MineFrame(f) => f.pc \in {"start", "list", "latest", "apply", "put",
                                "remove", "count", "commit", "done"}
  BY DEF MineFrame
<1>3. SnapFrame(f) => f.pc \in {"start", "height", "root", "data",
                                "putsnap", "version", "created", "done"}
  BY DEF SnapFrame
<1>4. VerifyFrame(f) => f.pc \in {"start", "get", "compare", "putback", "done"}
  BY DEF VerifyFrame
<1>5. ProofFrame(f) => f.pc \in {"start", "proofdata", "proofroot", "done"}
  BY DEF ProofFrame
<1> QED
  BY <1>1, <1>2, <1>3, <1>4, <1>5 DEF Frame

\* Where a goroutine is tells which request it serves and which locals it has.
LEMMA MineAt ==
    ASSUME Section, NEW r \in Requests,
           req[r].pc \in {"list", "latest", "apply", "put", "remove", "count", "commit"}
    PROVE  /\ r \in Mines /\ MineFrame(req[r]) /\ opMu = r
           /\ At(r, "list") => req[r] = [pc |-> "list"]
           /\ At(r, "latest") =>
                /\ req[r] = [pc |-> "latest", txs |-> req[r].txs]
                /\ IsBody(req[r].txs)
           /\ At(r, "apply") =>
                /\ req[r] = [pc |-> "apply", txs |-> req[r].txs, prev |-> req[r].prev,
                             done |-> req[r].done]
                /\ IsBody(req[r].txs)
                /\ req[r].done \in 0..Len(req[r].txs)
           /\ req[r].pc \in {"put", "remove", "count", "commit"} =>
                /\ req[r] = [pc |-> req[r].pc, block |-> req[r].block]
                /\ IsBody(req[r].block.Transactions)
<1>1. Frame(r, req[r]) /\ opMu = r
  BY DEF Section, Outside
<1>2. r \in Mines
  BY <1>1, FrameSteps DEF Requests
<1>3. MineFrame(req[r])
  BY <1>1, <1>2 DEF Frame
<1> QED
  BY <1>1, <1>2, <1>3 DEF MineFrame, At

LEMMA SnapAt ==
    ASSUME Section, NEW r \in Requests,
           req[r].pc \in {"height", "root", "data", "putsnap", "version", "created"}
    PROVE  /\ r \in Snapshots /\ opMu = r
           /\ At(r, "height") => req[r] = [pc |-> "height"]
           /\ At(r, "root") =>
                /\ req[r] = [pc |-> "root", id |-> req[r].id, height |-> req[r].height]
                /\ req[r].id \in 0..MaxTime
           /\ At(r, "data") =>
                /\ req[r] = [pc |-> "data", id |-> req[r].id, height |-> req[r].height,
                             root |-> req[r].root]
                /\ req[r].id \in 0..MaxTime
           /\ req[r].pc \in {"putsnap", "version", "created"} =>
                req[r] = [pc |-> req[r].pc, snap |-> req[r].snap] /\ IsSnap(req[r].snap)
<1>1. Frame(r, req[r]) /\ opMu = r
  BY DEF Section, Outside
<1>2. r \in Snapshots
  BY <1>1, FrameSteps DEF Requests
<1>3. SnapFrame(req[r])
  BY <1>1, <1>2 DEF Frame
<1> QED
  BY <1>1, <1>2, <1>3 DEF SnapFrame, At

LEMMA VerifyAt ==
    ASSUME Section, NEW r \in Requests, req[r].pc \in {"get", "compare", "putback"}
    PROVE  /\ r \in Verifies /\ opMu = r
           /\ At(r, "get") => req[r] = [pc |-> "get"]
           /\ req[r].pc \in {"compare", "putback"} =>
                req[r] = [pc |-> req[r].pc, snap |-> req[r].snap] /\ IsSnap(req[r].snap)
<1>1. Frame(r, req[r]) /\ opMu = r
  BY DEF Section, Outside
<1>2. r \in Verifies
  BY <1>1, FrameSteps DEF Requests
<1>3. VerifyFrame(req[r])
  BY <1>1, <1>2 DEF Frame
<1> QED
  BY <1>1, <1>2, <1>3 DEF VerifyFrame, At

LEMMA ProofAt ==
    ASSUME Section, NEW r \in Requests,
           req[r].pc \in {"proofdata", "proofroot"}
    PROVE  /\ r \in ProofReads /\ opMu # r
           /\ At(r, "proofdata") =>
                req[r] = [pc |-> "proofdata", calm |-> req[r].calm,
                          item |-> req[r].item]
           /\ At(r, "proofroot") =>
                req[r] = [pc |-> "proofroot", calm |-> req[r].calm,
                          item |-> req[r].item, path |-> req[r].path]
<1>1. Frame(r, req[r]) /\ opMu # r
  BY DEF Section, Outside
<1>2. r \in ProofReads
  BY <1>1, FrameSteps DEF Requests
<1>3. ProofFrame(req[r])
  BY <1>1, <1>2 DEF Frame
<1> QED
  BY <1>1, <1>2, <1>3 DEF ProofFrame, At

\* A goroutine that waits to be started, or to record a transaction.
LEMMA SubmitAt ==
    ASSUME Section, NEW r \in Submits
    PROVE  /\ SubmitFrame(req[r]) /\ opMu # r
           /\ At(r, "accepted") =>
                req[r].tx \in Txs /\ req[r] = [pc |-> "accepted", tx |-> req[r].tx]
<1>1. r \in Requests /\ Frame(r, req[r])
  BY DEF Section, Requests
<1>2. SubmitFrame(req[r])
  BY <1>1 DEF Frame
<1>3. opMu # r
  BY <1>1, FrameSteps DEF Section, Outside
<1> QED
  BY <1>2, <1>3 DEF SubmitFrame, At

\* A step of one goroutine that changes its own frame, and of the others'
\* frames neither their kind nor their step, and takes or leaves opMu as it
\* enters or leaves its critical section.
LEMMA SectionStep ==
    ASSUME Section, NEW r \in Requests, NEW f, Frame(r, f),
           req' = [p \in Requests |-> req'[p]], req'[r] = f,
           \A p \in Requests \ {r} : Frame(p, req'[p]) /\ req'[p].pc = req[p].pc,
           \/ /\ req[r].pc \in Outside /\ f.pc \in Outside
              /\ opMu' = opMu
           \/ /\ req[r].pc \notin Outside /\ f.pc \notin Outside
              /\ opMu' = opMu
           \/ /\ req[r].pc \in Outside /\ f.pc \notin Outside
              /\ opMu = Nobody /\ opMu' = r
           \/ /\ req[r].pc \notin Outside /\ f.pc \in Outside
              /\ opMu' = Nobody
    PROVE  Section'
<1> HIDE DEF Outside
<1>1. \A p \in Requests : Frame(p, req'[p])
  OBVIOUS
<1>2. opMu' \in Requests \cup {Nobody}
  BY DEF Section
<1>3. ASSUME NEW p \in Requests PROVE req'[p].pc \notin Outside <=> p = opMu'
  BY RequestsAssumption DEF Section
<1> QED
  BY <1>1, <1>2, <1>3 DEF Section

\* The usual step: no other frame is touched.
LEMMA GotoStep ==
    ASSUME Section, NEW r \in Requests, NEW f, Goto(r, f)
    PROVE  /\ req' = [p \in Requests |-> req'[p]]
           /\ req'[r] = f
           /\ \A p \in Requests \ {r} : Frame(p, req'[p]) /\ req'[p].pc = req[p].pc
           /\ \A p \in Requests \ {r} : req'[p] = req[p]
BY DEF Section, Goto

\* The pool holds the transactions that were posted.
LEMMA PoolTxsAreTxs == PoolTxs = Txs
BY TxWritesAssumption DEF PoolTxs, WithID

\* A listing is a body: not longer than the pool, and no ID occurs twice.
LEMMA ListingIsBody ==
    ASSUME PoolInv, NEW at, NEW txs \in Listings(at)
    PROVE  IsBody(txs)
<1> DEFINE V == Visible(at)
           n == Cardinality(V)
           I == {i \in DOMAIN tx : ~Hidden(tx[i], at)}
<1>1. IsFiniteSet(I) /\ Cardinality(I) <= MaxPool /\ Cardinality(I) \in Nat
  <2>1. IsFiniteSet(DOMAIN tx) /\ Cardinality(DOMAIN tx) <= MaxPool
    BY DEF PoolInv, PoolBounded
  <2>2. I \subseteq DOMAIN tx
    OBVIOUS
  <2> HIDE DEF I
  <2>3. /\ IsFiniteSet(I) /\ Cardinality(I) <= Cardinality(DOMAIN tx)
        /\ Cardinality(I) \in Nat /\ Cardinality(DOMAIN tx) \in Nat
    BY <2>1, <2>2, FS_Subset, FS_CardinalityType
  <2> QED
    BY <2>1, <2>3, MaxPoolAssumption
<1>2. IsFiniteSet(V) /\ n <= Cardinality(I) /\ n \in Nat
  <2>1. V = {tx[id] : id \in I}
    BY DEF Visible
  <2> DEFINE f == [id \in I |-> tx[id]]
  <2>2. f \in Surjection(I, V)
    BY <2>1 DEF Surjection
  <2>3. IsFiniteSet(V) /\ n <= Cardinality(I)
    <3> HIDE DEF I, V, f
    <3> QED
      BY <1>1, <2>2, FS_Surjection
  <2> QED
    BY <2>3, FS_CardinalityType
<1>3. txs \in [1..n -> V] /\ \A i, j \in 1..n : i < j => txs[i] # txs[j]
  BY DEF Listings
<1>4. V \subseteq Txs
  BY PoolTxsAreTxs DEF Visible, PoolInv, PoolTypeOK, IsMap
<1>5. \A t, u \in V : t.ID = u.ID => t = u
  BY DEF Visible, PoolInv, IndexAgrees
<1> HIDE DEF V, n
<1>6. n \in 0..MaxPool
  BY <1>1, <1>2, MaxPoolAssumption
<1>7. txs \in [1..n -> Txs] /\ Len(txs) = n
  BY <1>3, <1>4, <1>6
<1>8. ASSUME NEW i \in 1..n, NEW j \in 1..n, txs[i].ID = txs[j].ID PROVE i = j
  <2>1. txs[i] = txs[j]
    BY <1>3, <1>5, <1>8
  <2> QED
    BY <1>3, <1>6, <2>1
<1> QED
  BY <1>6, <1>7, <1>8 DEF IsBody, Bodies

\* Transactions of a body have IDs, keys and values.
LEMMA BodyFacts ==
    ASSUME NEW txs, IsBody(txs)
    PROVE  /\ txs \in Seq(Txs) /\ Len(txs) \in Nat
           /\ \A i \in 1..Len(txs) : txs[i] \in Txs /\ txs[i].ID \in TxIDs
<1>1. txs \in Seq(Txs)
  BY MaxPoolAssumption DEF IsBody, Bodies
<1> QED
  BY <1>1, TxsAssumption, TxWritesAssumption
-----------------------------------------------------------------------------
(* Every step keeps the control.                                            *)

LEMMA TxHSection ==
    ASSUME Section, NEW r \in Requests, TxH(r)
    PROVE  Section'
<1>1. r \in Submits /\ opMu' = opMu
  BY DEF TxH, TxAdd, TxAudit
<1>2. SUFFICES ASSUME NEW f, Goto(r, f), SubmitFrame(f), req[r].pc \in Outside,
                      f.pc \in Outside
               PROVE  Section'
  <2>1. CASE TxAdd(r)
    <3>1. PICK t \in Txs :
            \/ Goto(r, [pc |-> "accepted", tx |-> t])
            \/ Goto(r, [pc |-> "done", code |-> 409])
      BY <2>1, PostedAssumption DEF TxAdd, Return
    <3>3. SubmitFrame([pc |-> "accepted", tx |-> t])
      BY DEF SubmitFrame
    <3>4. SubmitFrame([pc |-> "done", code |-> 409])
      BY DEF SubmitFrame
    <3>5. req[r].pc = "start"
      BY <2>1 DEF TxAdd, At
    <3> QED
      BY <1>2, <3>1, <3>3, <3>4, <3>5 DEF Outside
  <2>2. CASE TxAudit(r)
    <3>1. At(r, "accepted") /\ Goto(r, [pc |-> "done", code |-> 202, tx |-> req[r].tx])
      BY <2>2 DEF TxAudit
    <3>2. SubmitFrame([pc |-> "done", code |-> 202, tx |-> req[r].tx])
      BY <1>1, <3>1, SubmitAt DEF SubmitFrame
    <3> QED
      BY <1>2, <3>1, <3>2 DEF Outside, At
  <2> QED
    BY <2>1, <2>2 DEF TxH
<1>3. Frame(r, f)
  BY <1>1, <1>2, RequestsAssumption DEF Frame
<1> QED
  BY <1>1, <1>2, <1>3, GotoStep, SectionStep

LEMMA LockingSection ==
    ASSUME Section, NEW r \in Requests, Locking(r)
    PROVE  Section'
<1>1. req[r].pc \in Outside /\ opMu = Nobody /\ opMu' = r
  BY DEF Locking, MineLock, SnapLock, VerifyLock, Lock, At, Outside
<1>2. PICK f : Goto(r, f) /\ Frame(r, f) /\ f.pc \notin Outside
  <2>1. CASE MineLock(r)
    <3>1. r \in Mines /\ Goto(r, [pc |-> "list"])
      BY <2>1 DEF MineLock
    <3>2. Frame(r, [pc |-> "list"])
      BY <3>1, RequestsAssumption DEF Frame, MineFrame
    <3> QED
      BY <3>1, <3>2 DEF Outside
  <2>2. CASE SnapLock(r)
    <3>1. r \in Snapshots /\ Goto(r, [pc |-> "height"])
      BY <2>2 DEF SnapLock
    <3>2. Frame(r, [pc |-> "height"])
      BY <3>1, RequestsAssumption DEF Frame, SnapFrame
    <3> QED
      BY <3>1, <3>2 DEF Outside
  <2>3. CASE VerifyLock(r)
    <3>1. r \in Verifies /\ Goto(r, [pc |-> "get"])
      BY <2>3 DEF VerifyLock
    <3>2. Frame(r, [pc |-> "get"])
      BY <3>1, RequestsAssumption DEF Frame, VerifyFrame
    <3> QED
      BY <3>1, <3>2 DEF Outside
  <2> QED
    BY <2>1, <2>2, <2>3 DEF Locking
<1> QED
  BY <1>1, <1>2, GotoStep, SectionStep

\* The frames of a request to mine.
LEMMA MineGoto ==
    ASSUME Section, NEW r \in Requests, r \in Mines, req[r].pc \notin Outside,
           NEW f, MineFrame(f), Goto(r, f),
           \/ f.pc \notin Outside /\ opMu' = opMu
           \/ f.pc \in Outside /\ opMu' = Nobody
    PROVE  Section'
<1>1. Frame(r, f)
  BY RequestsAssumption DEF Frame
<1> QED
  BY <1>1, GotoStep, SectionStep

\* A step that only moves on keeps the block, or the snapshot.
LEMMA MineMovesOn ==
    ASSUME Section, NEW r \in Requests, NEW s,
           req[r].pc \in {"put", "remove", "count", "commit"}
    PROVE  /\ req' = [req EXCEPT ![r].pc = s]
                => Goto(r, [pc |-> s, block |-> req[r].block])
           /\ [req[r] EXCEPT !.pc = s] = [pc |-> s, block |-> req[r].block]
<1>1. req[r] = [pc |-> req[r].pc, block |-> req[r].block]
  BY MineAt
<1>2. [req[r] EXCEPT !.pc = s] = [pc |-> s, block |-> req[r].block]
  BY <1>1
<1> QED
  BY <1>2 DEF Goto

LEMMA SnapMovesOn ==
    ASSUME Section, NEW r \in Requests, NEW s,
           req[r].pc \in {"putsnap", "version", "created"},
           req' = [req EXCEPT ![r].pc = s]
    PROVE  Goto(r, [pc |-> s, snap |-> req[r].snap])
<1>1. req[r] = [pc |-> req[r].pc, snap |-> req[r].snap]
  BY SnapAt
<1>2. [req[r] EXCEPT !.pc = s] = [pc |-> s, snap |-> req[r].snap]
  BY <1>1
<1> QED
  BY <1>2 DEF Goto

\* A proof's frame, marked.
LEMMA MarkedFrame ==
    ASSUME NEW f, NEW s, NEW c
    PROVE  /\ f = [pc |-> s, calm |-> f.calm, item |-> f.item]
                => [f EXCEPT !.calm = c] = [pc |-> s, calm |-> c, item |-> f.item]
           /\ f = [pc |-> s, calm |-> f.calm, item |-> f.item, path |-> f.path]
                => [f EXCEPT !.calm = c]
                     = [pc |-> s, calm |-> c, item |-> f.item, path |-> f.path]
OBVIOUS

\* A transaction applied: the frames of proofs change, not their steps.
LEMMA ApplyStep ==
    ASSUME Section, NEW r \in Requests, MineApply(r)
    PROVE  LET f == [pc |-> "apply", txs |-> req[r].txs, prev |-> req[r].prev,
                     done |-> req[r].done + 1]
           IN /\ r \in Mines /\ opMu = r /\ opMu' = opMu
              /\ req' = [p \in Requests |-> req'[p]]
              /\ req'[r] = f /\ MineFrame(f)
              /\ \A p \in Requests \ {r} : Frame(p, req'[p]) /\ req'[p].pc = req[p].pc
              /\ \A p \in Requests \ {r} : p \notin ProofReads => req'[p] = req[p]
<1> DEFINE f == [pc |-> "apply", txs |-> req[r].txs, prev |-> req[r].prev,
                 done |-> req[r].done + 1]
<1>1. At(r, "apply") /\ opMu' = opMu /\ req[r].done < Len(req[r].txs)
  BY DEF MineApply
<1>2. /\ r \in Mines /\ opMu = r
      /\ req[r] = [pc |-> "apply", txs |-> req[r].txs, prev |-> req[r].prev,
                   done |-> req[r].done]
      /\ IsBody(req[r].txs) /\ req[r].done \in 0..Len(req[r].txs)
  BY <1>1, MineAt DEF At
<1>3. r \notin ProofReads
  BY <1>2, RequestsAssumption
<1>4. Disturbed[r] = req[r]
  BY <1>3 DEF Disturbed
<1>5. [Disturbed[r] EXCEPT !.done = @ + 1] = f
  BY <1>2, <1>4
<1>6. req' = [Disturbed EXCEPT ![r] = f]
  BY <1>5 DEF MineApply
<1>7. req' = [p \in Requests |-> req'[p]] /\ req'[r] = f
  BY <1>6 DEF Disturbed
<1>8. \A p \in Requests \ {r} : req'[p] = Disturbed[p]
  BY <1>6 DEF Disturbed
<1>9. MineFrame(f)
  <2>1. f.done \in 0..Len(f.txs) /\ IsBody(f.txs)
    BY <1>1, <1>2, BodyFacts
  <2> QED
    BY <2>1 DEF MineFrame
<1>10. ASSUME NEW p \in Requests \ {r}
       PROVE  /\ Frame(p, req'[p]) /\ req'[p].pc = req[p].pc
              /\ p \notin ProofReads => req'[p] = req[p]
  <2>1. CASE p \in ProofReads /\ (At(p, "proofdata") \/ At(p, "proofroot"))
    <3>1. req'[p] = [req[p] EXCEPT !.calm = FALSE]
      BY <1>8, <2>1 DEF Disturbed
    <3>2. CASE At(p, "proofdata")
      <4>1. req[p] = [pc |-> "proofdata", calm |-> req[p].calm, item |-> req[p].item]
        BY <3>2, ProofAt DEF At
      <4>2. req'[p] = [pc |-> "proofdata", calm |-> FALSE, item |-> req[p].item]
        BY <3>1, <4>1, MarkedFrame, Zenon
      <4>3. ProofFrame(req'[p]) /\ req'[p].pc = req[p].pc
        BY <3>2, <4>2 DEF ProofFrame, At
      <4> QED
        BY <2>1, <4>3, RequestsAssumption DEF Frame
    <3>3. CASE At(p, "proofroot")
      <4>1. req[p] = [pc |-> "proofroot", calm |-> req[p].calm, item |-> req[p].item,
                      path |-> req[p].path]
        BY <3>3, ProofAt DEF At
      <4>2. req'[p] = [pc |-> "proofroot", calm |-> FALSE, item |-> req[p].item,
                       path |-> req[p].path]
        BY <3>1, <4>1, MarkedFrame, ZenonT(60)
      <4>3. ProofFrame(req'[p]) /\ req'[p].pc = req[p].pc
        BY <3>3, <4>2 DEF ProofFrame, At
      <4> QED
        BY <2>1, <4>3, RequestsAssumption DEF Frame
    <3> QED
      BY <2>1, <3>2, <3>3
  <2>2. CASE ~(p \in ProofReads /\ (At(p, "proofdata") \/ At(p, "proofroot")))
    <3>1. req'[p] = req[p]
      BY <1>8, <2>2 DEF Disturbed
    <3> QED
      BY <3>1 DEF Section
  <2> QED
    BY <2>1, <2>2
<1> QED
  BY <1>1, <1>2, <1>7, <1>9, <1>10

LEMMA MineSection ==
    ASSUME PoolInv, Section, NEW r \in Requests, MineBody(r)
    PROVE  Section'
<1>1. req[r].pc \in {"list", "latest", "apply", "put", "remove", "count", "commit"}
  BY DEF MineBody, MineList, MineLatest, MineApply, MineBuild, MinePut, MineRemove,
         MineCount, MineAudit, At
<1>2. r \in Mines /\ req[r].pc \notin Outside
  BY <1>1, MineAt DEF Outside
<1>3. CASE MineList(r)
  <2>1. PICK txs \in Listings(now) : Goto(r, [pc |-> "latest", txs |-> txs])
    BY <1>3 DEF MineList
  <2>2. MineFrame([pc |-> "latest", txs |-> txs])
    BY ListingIsBody DEF MineFrame
  <2> QED
    BY <1>2, <1>3, <2>1, <2>2, MineGoto DEF MineList, Outside
<1>4. CASE MineLatest(r)
  <2> DEFINE f == [pc |-> "apply", txs |-> req[r].txs, prev |-> Latest, done |-> 0]
  <2>1. IsBody(req[r].txs)
    BY <1>4, MineAt DEF MineLatest, At
  <2>2. MineFrame(f)
    <3>1. f.done \in 0..Len(f.txs) /\ IsBody(f.txs)
      BY <2>1, BodyFacts
    <3> QED
      BY <3>1 DEF MineFrame
  <2>3. Goto(r, f) /\ f.pc \notin Outside /\ opMu' = opMu
    BY <1>4 DEF MineLatest, Outside
  <2> QED
    BY <1>2, <2>2, <2>3, MineGoto
<1>5. CASE MineApply(r)
  <2> DEFINE f == [pc |-> "apply", txs |-> req[r].txs, prev |-> req[r].prev,
                   done |-> req[r].done + 1]
  <2>1. /\ opMu' = opMu /\ req' = [p \in Requests |-> req'[p]]
        /\ req'[r] = f /\ MineFrame(f)
        /\ \A p \in Requests \ {r} : Frame(p, req'[p]) /\ req'[p].pc = req[p].pc
    BY <1>5, ApplyStep
  <2>2. Frame(r, f) /\ f.pc \notin Outside
    BY <1>2, <2>1, RequestsAssumption DEF Frame, Outside
  <2> QED
    BY <1>2, <2>1, <2>2, SectionStep
<1>6. CASE MineBuild(r)
  <2> DEFINE b == NewBlock(req[r].txs, req[r].prev, Root(data), now)
             f == [pc |-> "put", block |-> b]
  <2>1. IsBody(req[r].txs)
    BY <1>6, MineAt DEF MineBuild, At
  <2>2. b.Transactions = req[r].txs
    BY DEF NewBlock
  <2>3. Goto(r, f) /\ opMu' = opMu
    BY <1>6 DEF MineBuild
  <2> HIDE DEF b
  <2>4. MineFrame(f) /\ f.pc \notin Outside
    BY <2>1, <2>2 DEF MineFrame, Outside
  <2> QED
    BY <1>2, <2>3, <2>4, MineGoto
<1>7. CASE MinePut(r)
  <2> DEFINE b == req[r].block
  <2>1. req[r].pc = "put" /\ IsBody(b.Transactions)
    BY <1>7, MineAt DEF MinePut, At
  <2>2. \/ Goto(r, [pc |-> "remove", block |-> b]) /\ opMu' = opMu
        \/ Goto(r, [pc |-> "done", code |-> 409]) /\ opMu' = Nobody
    BY <1>7, <2>1, MineMovesOn DEF MinePut, Return, Unlock
  <2>3. MineFrame([pc |-> "remove", block |-> b])
    BY <2>1 DEF MineFrame
  <2>4. MineFrame([pc |-> "done", code |-> 409])
    BY DEF MineFrame
  <2> QED
    BY <1>2, <2>2, <2>3, <2>4, MineGoto DEF Outside
<1>8. CASE MineRemove(r)
  <2>1. req[r].pc = "remove" /\ IsBody(req[r].block.Transactions)
    BY <1>8, MineAt DEF MineRemove, At
  <2>2. Goto(r, [pc |-> "count", block |-> req[r].block])
    BY <1>8, <2>1, MineMovesOn DEF MineRemove
  <2>3. MineFrame([pc |-> "count", block |-> req[r].block])
    BY <2>1 DEF MineFrame
  <2> QED
    BY <1>2, <1>8, <2>2, <2>3, MineGoto DEF MineRemove, Outside
<1>9. CASE MineCount(r)
  <2>1. req[r].pc = "count" /\ IsBody(req[r].block.Transactions)
    BY <1>9, MineAt DEF MineCount, At
  <2>2. Goto(r, [pc |-> "commit", block |-> req[r].block])
    BY <1>9, <2>1, MineMovesOn DEF MineCount
  <2>3. MineFrame([pc |-> "commit", block |-> req[r].block])
    BY <2>1 DEF MineFrame
  <2> QED
    BY <1>2, <1>9, <2>2, <2>3, MineGoto DEF MineCount, Outside
<1>10. CASE MineAudit(r)
  <2>1. MineFrame([pc |-> "done", code |-> 201])
    BY DEF MineFrame
  <2>2. Goto(r, [pc |-> "done", code |-> 201]) /\ opMu' = Nobody
    BY <1>10 DEF MineAudit, Return, Unlock
  <2> QED
    BY <1>2, <2>1, <2>2, MineGoto DEF Outside
<1> QED
  BY <1>3, <1>4, <1>5, <1>6, <1>7, <1>8, <1>9, <1>10 DEF MineBody

\* The steps of the other critical sections, with the locals they leave.
LEMMA SnapSteps ==
    ASSUME PoolInv, Section, NEW r \in Requests, SnapBody(r)
    PROVE  /\ r \in Snapshots /\ opMu = r /\ req[r].pc \notin Outside
           /\ \E f : /\ Goto(r, f) /\ SnapFrame(f)
                     /\ f.pc \notin Outside => opMu' = opMu
                     /\ f.pc \in Outside => opMu' = Nobody
<1>1. req[r].pc \in {"height", "root", "data", "putsnap", "version", "created"}
  BY DEF SnapBody, SnapHeight, SnapRoot, SnapData, SnapPut, SnapVersion, SnapAudit, At
<1>2. r \in Snapshots /\ opMu = r /\ req[r].pc \notin Outside
  BY <1>1, SnapAt DEF Outside
<1>3. CASE SnapHeight(r)
  <2> DEFINE f == [pc |-> "root", id |-> now, height |-> Latest.Header.Height]
  <2>1. now \in 0..MaxTime
    BY DEF PoolInv, PoolTypeOK
  <2>2. SnapFrame(f) /\ Goto(r, f) /\ opMu' = opMu /\ f.pc \notin Outside
    BY <1>3, <2>1 DEF SnapHeight, SnapFrame, Outside
  <2> QED
    BY <1>2, <2>2
<1>4. CASE SnapRoot(r)
  <2> DEFINE f == [pc |-> "data", id |-> req[r].id, height |-> req[r].height,
                   root |-> Root(data)]
  <2>1. req[r].id \in 0..MaxTime
    BY <1>4, SnapAt DEF SnapRoot, At
  <2>2. SnapFrame(f) /\ Goto(r, f) /\ opMu' = opMu /\ f.pc \notin Outside
    BY <1>4, <2>1 DEF SnapRoot, SnapFrame, Outside
  <2> QED
    BY <1>2, <2>2
<1>5. CASE SnapData(r)
  <2> DEFINE s == [ID |-> req[r].id, Height |-> req[r].height, Root |-> req[r].root,
                   Data |-> data, Verified |-> FALSE]
             f == [pc |-> "putsnap", snap |-> s]
  <2>1. req[r].id \in 0..MaxTime
    BY <1>5, SnapAt DEF SnapData, At
  <2>2. IsSnap(s)
    BY <2>1 DEF IsSnap
  <2>3. Goto(r, f) /\ opMu' = opMu
    BY <1>5 DEF SnapData
  <2> HIDE DEF s
  <2>4. SnapFrame(f) /\ f.pc \notin Outside
    BY <2>2 DEF SnapFrame, Outside
  <2> QED
    BY <1>2, <2>3, <2>4
<1>6. CASE SnapPut(r)
  <2> DEFINE f == [pc |-> "version", snap |-> req[r].snap]
  <2>1. req[r].pc = "putsnap" /\ IsSnap(req[r].snap)
    BY <1>6, SnapAt DEF SnapPut, At
  <2>2. Goto(r, f) /\ opMu' = opMu
    BY <1>6, <2>1, SnapMovesOn DEF SnapPut
  <2>3. SnapFrame(f) /\ f.pc \notin Outside
    BY <2>1 DEF SnapFrame, Outside
  <2> QED
    BY <1>2, <2>2, <2>3
<1>7. CASE SnapVersion(r)
  <2> DEFINE f == [pc |-> "created", snap |-> req[r].snap]
  <2>1. req[r].pc = "version" /\ IsSnap(req[r].snap)
    BY <1>7, SnapAt DEF SnapVersion, At
  <2>2. Goto(r, f) /\ opMu' = opMu
    BY <1>7, <2>1, SnapMovesOn DEF SnapVersion
  <2>3. SnapFrame(f) /\ f.pc \notin Outside
    BY <2>1 DEF SnapFrame, Outside
  <2> QED
    BY <1>2, <2>2, <2>3
<1>8. CASE SnapAudit(r)
  <2> DEFINE f == [pc |-> "done", code |-> 201]
  <2>1. SnapFrame(f) /\ f.pc \in Outside
    BY DEF SnapFrame, Outside
  <2>2. Goto(r, f) /\ opMu' = Nobody
    BY <1>8 DEF SnapAudit, Return, Unlock
  <2> QED
    BY <1>2, <2>1, <2>2
<1> QED
  BY <1>3, <1>4, <1>5, <1>6, <1>7, <1>8 DEF SnapBody

\* A verification gives a snapshot its verdict.
LEMMA VerdictIsSnap ==
    ASSUME NEW s, IsSnap(s), NEW v
    PROVE  /\ [s EXCEPT !.Verified = v]
                = [ID |-> s.ID, Height |-> s.Height, Root |-> s.Root, Data |-> s.Data,
                   Verified |-> v]
           /\ IsSnap([s EXCEPT !.Verified = v])
<1>1. [s EXCEPT !.Verified = v]
        = [ID |-> s.ID, Height |-> s.Height, Root |-> s.Root, Data |-> s.Data,
           Verified |-> v]
  BY DEF IsSnap
<1> QED
  BY <1>1 DEF IsSnap

LEMMA VerifySteps ==
    ASSUME SnapsTyped, Section, NEW r \in Requests, VerifyBody(r)
    PROVE  /\ r \in Verifies /\ opMu = r /\ req[r].pc \notin Outside
           /\ \E f : /\ Goto(r, f) /\ VerifyFrame(f)
                     /\ f.pc \notin Outside => opMu' = opMu
                     /\ f.pc \in Outside => opMu' = Nobody
<1>1. req[r].pc \in {"get", "compare", "putback"}
  BY DEF VerifyBody, VerifyGet, VerifyCompare, VerifyPut, At
<1>2. r \in Verifies /\ opMu = r /\ req[r].pc \notin Outside
  BY <1>1, VerifyAt DEF Outside
<1>3. CASE VerifyGet(r)
  <2>1. PICK id \in 0..MaxTime :
          IF id \in DOMAIN snaps
          THEN Goto(r, [pc |-> "compare", snap |-> snaps[id]]) /\ opMu' = opMu
          ELSE Goto(r, [pc |-> "done", code |-> 404]) /\ opMu' = Nobody
    BY <1>3 DEF VerifyGet, Return, Unlock
  <2>2. CASE id \in DOMAIN snaps
    <3> DEFINE f == [pc |-> "compare", snap |-> snaps[id]]
    <3>1. IsSnap(snaps[id])
      BY <2>2 DEF SnapsTyped
    <3>2. VerifyFrame(f) /\ f.pc \notin Outside
      BY <3>1 DEF VerifyFrame, Outside
    <3> QED
      BY <1>2, <2>1, <2>2, <3>2
  <2>3. CASE id \notin DOMAIN snaps
    <3> DEFINE f == [pc |-> "done", code |-> 404]
    <3>2. VerifyFrame(f) /\ f.pc \in Outside
      BY DEF VerifyFrame, Outside
    <3> QED
      BY <1>2, <2>1, <2>3, <3>2
  <2> QED
    BY <2>2, <2>3
<1>4. CASE VerifyCompare(r)
  <2> DEFINE s == [req[r].snap EXCEPT !.Verified = (req[r].snap.Root = Root(data))]
             f == [pc |-> "putback", snap |-> s]
  <2>1. IsSnap(req[r].snap)
    BY <1>4, VerifyAt DEF VerifyCompare, At
  <2>2. IsSnap(s)
    BY <2>1, VerdictIsSnap, Zenon
  <2>3. Goto(r, f) /\ opMu' = opMu
    BY <1>4, Zenon DEF VerifyCompare
  <2> HIDE DEF s
  <2>4. VerifyFrame(f) /\ f.pc \notin Outside
    BY <2>2 DEF VerifyFrame, Outside
  <2> QED
    BY <1>2, <2>3, <2>4
<1>5. CASE VerifyPut(r)
  <2> DEFINE f == [pc |-> "done", code |-> 200]
  <2>1. VerifyFrame(f) /\ f.pc \in Outside
    BY DEF VerifyFrame, Outside
  <2>2. Goto(r, f) /\ opMu' = Nobody
    BY <1>5 DEF VerifyPut, Return, Unlock
  <2> QED
    BY <1>2, <2>1, <2>2
<1> QED
  BY <1>3, <1>4, <1>5 DEF VerifyBody

LEMMA ProofSteps ==
    ASSUME Section, NEW r \in Requests, ProofBody(r)
    PROVE  /\ r \in ProofReads /\ req[r].pc \in Outside /\ opMu' = opMu
           /\ \E f : Goto(r, f) /\ ProofFrame(f) /\ f.pc \in Outside
<1>1. CASE ProofGet(r)
  <2>1. PICK k \in Keys :
          \/ Goto(r, [pc |-> "proofdata", calm |-> Applying = {},
                      item |-> [Key |-> k, Value |-> data[k]]])
          \/ Goto(r, [pc |-> "done", code |-> 200])
    BY <1>1, Zenon DEF ProofGet, Return
  <2> DEFINE c == (Applying = {})
             f == [pc |-> "proofdata", calm |-> c,
                   item |-> [Key |-> k, Value |-> data[k]]]
             g == [pc |-> "done", code |-> 200]
  <2>2. Goto(r, f) \/ Goto(r, g)
    BY <2>1, Zenon
  <2>3. ProofFrame(f) /\ f.pc \in Outside
    <3> HIDE DEF c
    <3> QED
      BY DEF ProofFrame, Outside
  <2>4. ProofFrame(g) /\ g.pc \in Outside
    BY DEF ProofFrame, Outside
  <2>5. r \in ProofReads /\ req[r].pc \in Outside /\ opMu' = opMu
    BY <1>1 DEF ProofGet, At, Outside
  <2> HIDE DEF f, g
  <2> QED
    BY <2>2, <2>3, <2>4, <2>5
<1>2. CASE ProofData(r)
  <2> DEFINE f == [pc |-> "proofroot", calm |-> req[r].calm, item |-> req[r].item,
                   path |-> Siblings(req[r].item.Key, data)]
  <2>1. ProofFrame(f) /\ f.pc \in Outside
    BY DEF ProofFrame, Outside
  <2>2. Goto(r, f) /\ opMu' = opMu /\ req[r].pc = "proofdata"
    BY <1>2 DEF ProofData, At
  <2>3. r \in ProofReads
    BY <2>2, ProofAt
  <2> QED
    BY <2>1, <2>2, <2>3 DEF Outside
<1>3. CASE ProofRoot(r)
  <2> DEFINE f == [pc |-> "done", code |-> 200, calm |-> req[r].calm,
                   item |-> [Key |-> req[r].item.Key, Value |-> req[r].item.Value,
                             Root |-> Root(data), Path |-> req[r].path]]
  <2>1. ProofFrame(f) /\ f.pc \in Outside
    BY DEF ProofFrame, Outside
  <2>2. Goto(r, f) /\ opMu' = opMu /\ req[r].pc = "proofroot"
    BY <1>3 DEF ProofRoot, At
  <2>3. r \in ProofReads
    BY <2>2, ProofAt
  <2> QED
    BY <2>1, <2>2, <2>3 DEF Outside
<1> QED
  BY <1>1, <1>2, <1>3 DEF ProofBody

\* What the node does to the pool is what callers of the pool may do.
LEMMA PoolStep ==
    ASSUME Section, [NodeNext]_NodeVars
    PROVE  [PoolNext]_PoolVars
<1>1. ASSUME NEW r \in Requests, TxH(r) PROVE [PoolNext]_PoolVars
  <2>1. CASE TxAdd(r)
    <3>1. PICK t \in Txs : \/ Add(t) /\ UNCHANGED now
                           \/ UNCHANGED <<tx, byAcct, now>>
      BY <2>1, PostedAssumption DEF TxAdd
    <3> QED
      BY <3>1 DEF PoolNext, PoolVars
  <2>2. CASE TxAudit(r)
    BY <2>2 DEF TxAudit, Components, PoolVars
  <2> QED
    BY <1>1, <2>1, <2>2 DEF TxH
<1>2. ASSUME NEW r \in Requests, MineBody(r) PROVE [PoolNext]_PoolVars
  <2>1. CASE MineRemove(r)
    <3> DEFINE txs == req[r].block.Transactions
               ids == {txs[i].ID : i \in 1..Len(txs)}
    <3>1. IsBody(txs)
      BY <2>1, MineAt DEF MineRemove, At
    <3>2. ids \in SUBSET TxIDs
      BY <3>1, BodyFacts
    <3>3. Remove(ids) /\ UNCHANGED now
      BY <2>1 DEF MineRemove
    <3> QED
      BY <3>2, <3>3 DEF PoolNext
  <2>2. CASE ~MineRemove(r)
    BY <1>2, <2>2 DEF MineBody, MineList, MineLatest, MineApply, MineBuild, MinePut,
                      MineCount, MineAudit, Components, PoolVars
  <2> QED
    BY <2>1, <2>2
<1>3. ASSUME NEW r \in Requests, SnapBody(r) \/ VerifyBody(r) \/ ProofBody(r) \/ Locking(r)
      PROVE  [PoolNext]_PoolVars
  BY <1>3 DEF SnapBody, SnapHeight, SnapRoot, SnapData, SnapPut, SnapVersion, SnapAudit,
              VerifyBody, VerifyGet, VerifyCompare, VerifyPut,
              ProofBody, ProofGet, ProofData, ProofRoot,
              Locking, MineLock, SnapLock, VerifyLock, Components, PoolVars
<1>4. CASE Clock
  BY <1>4 DEF Clock, PoolNext
<1>5. CASE UNCHANGED NodeVars
  BY <1>5 DEF NodeVars, Components, PoolVars
<1> QED
  BY <1>1, <1>2, <1>3, <1>4, <1>5 DEF NodeNext, Step, Quiet

\* What is put back by a verification, or stored by a snapshot, is a snapshot.
LEMMA SnapsStep ==
    ASSUME SnapsTyped, Section, [NodeNext]_NodeVars
    PROVE  SnapsTyped'
<1>1. ASSUME NEW r \in Requests, SnapPut(r) \/ VerifyPut(r) PROVE SnapsTyped'
  <2>1. snaps' = MapPut(snaps, req[r].snap.ID, req[r].snap)
    BY <1>1 DEF SnapPut, VerifyPut, PutSnapshot
  <2>2. IsSnap(req[r].snap)
    BY <1>1, SnapAt, VerifyAt DEF SnapPut, VerifyPut, At
  <2> QED
    BY <2>1, <2>2 DEF SnapsTyped, MapPut
<1>2. CASE UNCHANGED snaps
  BY <1>2 DEF SnapsTyped
<1>3. (\E r \in Requests : SnapPut(r) \/ VerifyPut(r)) \/ UNCHANGED snaps
  BY ZenonT(60) DEF NodeNext, Step, TxH, TxAdd, TxAudit, MineBody, MineList, MineLatest,
         MineApply, MineBuild, MinePut, MineRemove, MineCount, MineAudit,
         SnapBody, SnapHeight, SnapRoot, SnapData, SnapVersion, SnapAudit,
         VerifyBody, VerifyGet, VerifyCompare,
         ProofBody, ProofGet, ProofData, ProofRoot,
         Locking, MineLock, SnapLock, VerifyLock, Clock, Quiet, NodeVars, Components
<1> QED
  BY <1>1, <1>2, <1>3

Control == PoolInv /\ Section /\ SnapsTyped

LEMMA ControlNext == Control /\ [NodeNext]_NodeVars => Control'
<1> SUFFICES ASSUME PoolInv, Section, SnapsTyped, [NodeNext]_NodeVars
             PROVE  PoolInv' /\ Section' /\ SnapsTyped'
  BY DEF Control
<1>1. PoolInv'
  BY PoolStep, NextInv
<1>2. SnapsTyped'
  BY SnapsStep
<1>3. ASSUME NEW r \in Requests, SnapBody(r) PROVE Section'
  <2>1. PICK f : /\ Goto(r, f) /\ SnapFrame(f)
                 /\ f.pc \notin Outside => opMu' = opMu
                 /\ f.pc \in Outside => opMu' = Nobody
    BY <1>3, SnapSteps
  <2>2. r \in Snapshots /\ req[r].pc \notin Outside
    BY <1>3, SnapSteps
  <2>3. Frame(r, f)
    BY <2>1, <2>2, RequestsAssumption DEF Frame
  <2> QED
    BY <2>1, <2>2, <2>3, GotoStep, SectionStep
<1>4. ASSUME NEW r \in Requests, VerifyBody(r) PROVE Section'
  <2>1. PICK f : /\ Goto(r, f) /\ VerifyFrame(f)
                 /\ f.pc \notin Outside => opMu' = opMu
                 /\ f.pc \in Outside => opMu' = Nobody
    BY <1>4, VerifySteps
  <2>2. r \in Verifies /\ req[r].pc \notin Outside
    BY <1>4, VerifySteps
  <2>3. Frame(r, f)
    BY <2>1, <2>2, RequestsAssumption DEF Frame
  <2> QED
    BY <2>1, <2>2, <2>3, GotoStep, SectionStep
<1>5. ASSUME NEW r \in Requests, ProofBody(r) PROVE Section'
  <2>1. PICK f : Goto(r, f) /\ ProofFrame(f) /\ f.pc \in Outside
    BY <1>5, ProofSteps
  <2>2. r \in ProofReads /\ req[r].pc \in Outside /\ opMu' = opMu
    BY <1>5, ProofSteps
  <2>3. Frame(r, f)
    BY <2>1, <2>2, RequestsAssumption DEF Frame
  <2> QED
    BY <2>1, <2>2, <2>3, GotoStep, SectionStep
<1>6. ASSUME Clock \/ UNCHANGED NodeVars PROVE Section'
  BY <1>6 DEF Clock, NodeVars, Section, Frame
<1>7. ASSUME NEW r \in Requests, Locking(r) \/ Step(r) PROVE Section'
  BY <1>3, <1>4, <1>5, <1>7, TxHSection, LockingSection, MineSection DEF Step
<1>8. Section'
  BY <1>6, <1>7 DEF NodeNext, Quiet
<1> QED
  BY <1>1, <1>2, <1>8

LEMMA ControlInit == NodeInit => Control
<1> SUFFICES ASSUME NodeInit PROVE Control
  OBVIOUS
<1>1. PoolInv
  BY InitInv DEF NodeInit
<1>2. SnapsTyped
  BY DEF NodeInit, RepoInit, EmptyMap, SnapsTyped
<1>3. ASSUME NEW r \in Requests
      PROVE  Frame(r, [pc |-> "start"])
  BY DEF Frame, SubmitFrame, MineFrame, SnapFrame, VerifyFrame, ProofFrame
<1>4. req = [r \in Requests |-> [pc |-> "start"]] /\ opMu = Nobody
  BY DEF NodeInit
<1>5. Section
  BY <1>3, <1>4, RequestsAssumption DEF Section, Outside
<1> QED
  BY <1>1, <1>2, <1>5 DEF Control

\* Whatever requests run, opMu is held by exactly the goroutine that is inside
\* mine, snapH or snapVerify, which has the locals its next step reads; and the
\* pool keeps its invariant under the node (node.go:110-203).
THEOREM ControlInvariant == NodeSpec => []Control
<1>1. NodeInit => Control
  BY ControlInit
<1>2. Control /\ [NodeNext]_NodeVars => Control'
  BY ControlNext
<1> QED
  BY <1>1, <1>2, PTL DEF NodeSpec

\* The node uses the pool as its methods may be used: every property of the
\* pool's specification holds of the pool in the node (node.go:120, 145, 160).
THEOREM NodeUsesPool == NodeSpec => PoolSpec
<1>1. NodeInit => PoolInit
  BY DEF NodeInit
<1>2. Control /\ [NodeNext]_NodeVars => [PoolNext]_PoolVars
  BY PoolStep DEF Control
<1> QED
  BY <1>1, <1>2, ControlInvariant, PTL DEF NodeSpec, PoolSpec
-----------------------------------------------------------------------------
(* The chain and the state.                                                 *)

\* The stored blocks: numbered from 1 without a gap, linked, and each with
\* the root of the state that the blocks up to it lead to.
ChainOK ==
    /\ Height \in Nat
    /\ blocks = [h \in 1..Height |-> blocks[h]]
    /\ \A h \in 1..Height :
         /\ IsBody(blocks[h].Transactions)
         /\ blocks[h].Header.Height = h
         /\ h > 1 => blocks[h].Header.PrevHash = blocks[h-1].Hash
         /\ blocks[h].Header.TxRoot = MerkleRoot(blocks[h].Transactions)
         /\ blocks[h].Header.StateRoot = Root(StateAt(h))
         /\ blocks[h].Hash # NoHash

\* b may follow the latest block, and has the root of the present state.
Follows(b) ==
    /\ b.Header.Height = Height + 1
    /\ b.Header.PrevHash = Latest.Hash
    /\ b.Header.TxRoot = MerkleRoot(b.Transactions)
    /\ b.Header.StateRoot = Root(data)
    /\ b.Hash # NoHash

\* What a request to mine has read, built or stored is not out of date.
MineLocals ==
    \A r \in Mines :
        /\ At(r, "apply") => req[r].prev = Latest
        /\ At(r, "put") => Follows(req[r].block)
        /\ req[r].pc \in {"remove", "count", "commit"} =>
             Height > 0 /\ req[r].block = blocks[Height]

ChainInv == ChainOK /\ MineLocals /\ StateMatchesChain

\* The stored blocks are numbered from 1 without a gap and linked.
Linked ==
    /\ Height \in Nat
    /\ blocks = [h \in 1..Height |-> blocks[h]]
    /\ \A h \in 1..Height :
         /\ blocks[h].Header.Height = h
         /\ h > 1 => blocks[h].Header.PrevHash = blocks[h-1].Hash
         /\ blocks[h].Header.TxRoot = MerkleRoot(blocks[h].Transactions)
         /\ blocks[h].Hash # NoHash

LEMMA ChainLinked == ASSUME ChainOK PROVE Linked
BY DEF ChainOK, Linked

\* The latest block is the one of the greatest height.
LEMMA LatestLinked ==
    ASSUME Linked
    PROVE  /\ Height = 0 => Latest = ZeroBlock
           /\ Height > 0 => Latest = blocks[Height]
           /\ Latest.Header.Height = Height
<1> DEFINE stored == {blocks[h] : h \in DOMAIN blocks}
           highest == {b \in stored :
                         /\ b.Header.Height > 0
                         /\ \A c \in stored : c.Header.Height <= b.Header.Height}
<1>1. DOMAIN blocks = 1..Height /\ Height \in Nat
  BY DEF Linked
<1>2. \A h \in 1..Height : blocks[h].Header.Height = h
  BY DEF Linked
<1>3. Latest = IF highest = {} THEN ZeroBlock ELSE CHOOSE b \in highest : TRUE
  BY DEF Latest
<1> HIDE DEF Height
<1>4. CASE Height = 0
  <2>1. highest = {}
    BY <1>1, <1>4
  <2>2. Latest = ZeroBlock
    BY <1>3, <2>1
  <2> QED
    BY <1>4, <2>2 DEF ZeroBlock, Header
<1>5. CASE Height > 0
  <2>1. blocks[Height] \in highest
    BY <1>1, <1>2, <1>5
  <2>2. \A b \in highest : b = blocks[Height]
    BY <1>1, <1>2, <1>5
  <2>3. Latest = blocks[Height]
    BY <1>3, <2>1, <2>2
  <2> QED
    BY <1>1, <1>2, <1>5, <2>3
<1> QED
  BY <1>1, <1>4, <1>5

LEMMA LatestBlock ==
    ASSUME ChainOK
    PROVE  /\ Height = 0 => Latest = ZeroBlock
           /\ Height > 0 => Latest = blocks[Height]
           /\ Latest.Header.Height = Height
BY ChainLinked, LatestLinked

\* VerifyChain accepts linked blocks.
LEMMA LinkedVerifies == ASSUME Linked PROVE VerifyChain /\ DOMAIN blocks = 1..Height
<1>1. Height \in Nat /\ DOMAIN blocks = 1..Height /\ Cardinality(DOMAIN blocks) = Height
  BY DEF Linked, Height
<1>2. ASSUME NEW h \in 1..Height
      PROVE  ValidateBlock(blocks[h], IF h = 1 THEN ZeroBlock ELSE blocks[h-1])
  <2>1. /\ blocks[h].Header.Height = h
        /\ blocks[h].Header.TxRoot = MerkleRoot(blocks[h].Transactions)
        /\ blocks[h].Hash # NoHash
    BY <1>1 DEF Linked
  <2>2. h # 1 => /\ blocks[h].Header.PrevHash = blocks[h-1].Hash
                 /\ blocks[h-1].Header.Height = h - 1
    <3>1. h # 1 => h > 1 /\ h - 1 \in 1..Height
      BY <1>1
    <3>2. h > 1 => blocks[h].Header.PrevHash = blocks[h-1].Hash
      BY DEF Linked
    <3>3. \A g \in 1..Height : blocks[g].Header.Height = g
      BY DEF Linked
    <3> QED
      BY <3>1, <3>2, <3>3
  <2> QED
    BY <2>1, <2>2 DEF ValidateBlock
<1> QED
  BY <1>1, <1>2 DEF VerifyChain

\* The transactions of the stored blocks are a history to replay.
LEMMA HistoryIsSeq ==
    ASSUME ChainOK, NEW h \in 0..Height
    PROVE  History(h) \in Seq(Seq(Txs)) /\ Len(History(h)) = h
<1>1. ASSUME NEW g \in 1..h PROVE blocks[g].Transactions \in Seq(Txs)
  <2>1. IsBody(blocks[g].Transactions)
    BY DEF ChainOK
  <2> QED
    BY <2>1, BodyFacts
<1>2. h \in Nat
  BY DEF ChainOK
<1> QED
  BY <1>1, <1>2 DEF History

\* Transactions of a body are storable.
LEMMA TxStorable == \A t \in Txs : Storable(t)
BY TxWritesAssumption DEF Storable

\* What a body applies, one transaction after the other.
LEMMA BodyPrefix ==
    ASSUME NEW txs, IsBody(txs)
    PROVE  /\ SubSeq(txs, 1, 0) = <<>>
           /\ SubSeq(txs, 1, Len(txs)) = txs
           /\ \A n \in 0..Len(txs) : SubSeq(txs, 1, n) \in Seq(Txs)
           /\ \A n \in 0..(Len(txs) - 1) :
                SubSeq(txs, 1, n + 1) = Append(SubSeq(txs, 1, n), txs[n + 1])
<1>1. txs \in Seq(Txs) /\ Len(txs) \in Nat
  BY BodyFacts
<1>2. SubSeq(txs, 1, 0) = <<>>
  BY <1>1
<1>3. SubSeq(txs, 1, Len(txs)) = txs
  BY <1>1
<1>4. ASSUME NEW n \in 0..Len(txs) PROVE SubSeq(txs, 1, n) \in Seq(Txs)
  BY <1>1
<1>5. ASSUME NEW n \in 0..(Len(txs) - 1)
      PROVE  SubSeq(txs, 1, n + 1) = Append(SubSeq(txs, 1, n), txs[n + 1])
  BY <1>1
<1> QED
  BY <1>2, <1>3, <1>4, <1>5

\* A goroutine that mines does, in this step, nothing to the chain or state.
Bystander(p) ==
    \/ req'[p] = req[p]
    \/ /\ req[p].pc \notin {"apply", "put"}
       /\ req'[p].pc \notin {"apply", "put", "remove", "count", "commit"}
    \/ /\ req[p].pc \in {"remove", "count", "commit"}
       /\ req'[p].pc \in {"remove", "count", "commit"}
       /\ req'[p].block = req[p].block

LEMMA SameChain ==
    ASSUME UNCHANGED blocks
    PROVE  /\ Height' = Height /\ Latest' = Latest
           /\ \A h : History(h)' = History(h)
           /\ \A h : StateAt(h)' = StateAt(h)
           /\ ChainOK <=> ChainOK'
<1>1. Height' = Height /\ Latest' = Latest
  BY DEF Height, Latest
<1>2. ASSUME NEW h PROVE History(h)' = History(h) /\ StateAt(h)' = StateAt(h)
  BY DEF History, StateAt
<1>3. ChainOK <=> ChainOK'
  BY <1>1, <1>2 DEF ChainOK
<1> QED
  BY <1>1, <1>2, <1>3

LEMMA QuietChain ==
    ASSUME ChainInv, UNCHANGED <<blocks, data>>, \A p \in Mines : Bystander(p)
    PROVE  ChainInv'
<1>1. Height' = Height /\ Latest' = Latest /\ ChainOK'
  BY SameChain DEF ChainInv
<1>2. MineLocals'
  BY <1>1 DEF MineLocals, ChainInv, Bystander, At, Follows
<1>3. Applying' = Applying
  BY DEF Applying, Bystander, At
<1>4. \A r \in Applying : AppliedBy(r)' = AppliedBy(r)
  BY DEF Applying, AppliedBy, Bystander, At
<1>5. History(Height)' = History(Height) /\ StateAt(Height)' = StateAt(Height)
  BY <1>1 DEF History, StateAt
<1>6. StateMatchesChain'
  BY <1>3, <1>4, <1>5 DEF StateMatchesChain, ChainInv
<1> QED
  BY <1>1, <1>2, <1>6 DEF ChainInv

\* A step that applies no transaction changes no other frame.
LEMMA OthersRest ==
    ASSUME Section, NEW r \in Requests, Locking(r) \/ Step(r), ~MineApply(r)
    PROVE  \A p \in Requests \ {r} : req'[p] = req[p]
<1>1. (\E f : Goto(r, f)) \/ (\E s : req' = [req EXCEPT ![r].pc = s])
  BY ZenonT(60) DEF Step, TxH, TxAdd, TxAudit, MineBody, MineList, MineLatest,
       MineBuild, MinePut, MineRemove, MineCount, MineAudit, Return,
       SnapBody, SnapHeight, SnapRoot, SnapData, SnapPut, SnapVersion, SnapAudit,
       VerifyBody, VerifyGet, VerifyCompare, VerifyPut,
       ProofBody, ProofGet, ProofData, ProofRoot,
       Locking, MineLock, SnapLock, VerifyLock
<1>2. \E f : Goto(r, f)
  BY <1>1 DEF Goto
<1> QED
  BY <1>2, GotoStep

\* A step of goroutine r changes no other frame, but for the mark of proofs.
LEMMA OtherFrames ==
    ASSUME Section, NEW r \in Requests, Locking(r) \/ Step(r)
    PROVE  \A p \in Requests \ {r} : p \notin ProofReads => req'[p] = req[p]
<1>1. CASE MineApply(r)
  BY <1>1, ApplyStep
<1>2. CASE ~MineApply(r)
  BY <1>2, OthersRest
<1> QED
  BY <1>1, <1>2

\* Only these steps concern the chain or the state.
LEMMA ChainSteps ==
    ASSUME Section, [NodeNext]_NodeVars
    PROVE  \/ \E r \in Requests :
                MineLatest(r) \/ MineApply(r) \/ MineBuild(r) \/ MinePut(r)
           \/ UNCHANGED <<blocks, data>> /\ \A p \in Mines : Bystander(p)
<1> DEFINE Calm == UNCHANGED <<blocks, data>> /\ \A p \in Mines : Bystander(p)
<1>1. Mines \subseteq Requests
  BY DEF Requests
<1>2. ASSUME NEW r \in Requests, Locking(r) \/ Step(r), r \notin Mines PROVE Calm
  <2>1. \A p \in Mines : req'[p] = req[p]
    BY <1>1, <1>2, OtherFrames, RequestsAssumption
  <2>2. ~MineBody(r)
    BY <1>2, MineAt DEF MineBody, MineList, MineLatest, MineApply, MineBuild, MinePut,
                        MineRemove, MineCount, MineAudit, At
  <2>3. UNCHANGED <<blocks, data>>
    BY <1>2, <2>2
       DEF Step, TxH, TxAdd, TxAudit, Components,
         SnapBody, SnapHeight, SnapRoot, SnapData, SnapPut, SnapVersion, SnapAudit,
         VerifyBody, VerifyGet, VerifyCompare, VerifyPut,
         ProofBody, ProofGet, ProofData, ProofRoot,
         Locking, MineLock, SnapLock, VerifyLock
  <2> QED
    BY <2>1, <2>3 DEF Bystander
<1>3. ASSUME NEW r \in Requests, Locking(r) \/ Step(r), r \in Mines,
             ~(MineLatest(r) \/ MineApply(r) \/ MineBuild(r) \/ MinePut(r))
      PROVE  Calm
  <2>1. \A p \in Mines \ {r} : req'[p] = req[p]
    BY <1>1, <1>3, OtherFrames, RequestsAssumption
  <2>2. MineLock(r) \/ MineList(r) \/ MineRemove(r) \/ MineCount(r) \/ MineAudit(r)
    <3>1. ~SnapBody(r)
      BY <1>3, SnapSteps, SnapAt, RequestsAssumption
         DEF SnapBody, SnapHeight, SnapRoot, SnapData, SnapPut, SnapVersion, SnapAudit, At
    <3>2. ~VerifyBody(r)
      BY <1>3, VerifyAt, RequestsAssumption
         DEF VerifyBody, VerifyGet, VerifyCompare, VerifyPut, At
    <3>3. ~ProofBody(r) /\ ~TxH(r) /\ ~SnapLock(r) /\ ~VerifyLock(r)
      BY <1>3, ProofSteps, RequestsAssumption
         DEF TxH, TxAdd, TxAudit, SnapLock, VerifyLock
    <3> QED
      BY <1>3, <3>1, <3>2, <3>3 DEF Step, Locking, MineBody
  <2>3. UNCHANGED <<blocks, data>>
    BY <2>2 DEF MineLock, MineList, MineRemove, MineCount, MineAudit, Components
  <2>4. Bystander(r)
    <3>1. CASE MineLock(r)
      <4>1. req[r].pc = "start" /\ req'[r].pc = "list"
        BY <3>1, GotoStep DEF MineLock, At
      <4> QED
        BY <4>1 DEF Bystander
    <3>2. CASE MineList(r)
      <4>1. PICK txs : Goto(r, [pc |-> "latest", txs |-> txs])
        BY <3>2 DEF MineList
      <4>2. req[r].pc = "list" /\ req'[r].pc = "latest"
        BY <3>2, <4>1, GotoStep DEF MineList, At
      <4> QED
        BY <4>2 DEF Bystander
    <3>3. CASE MineRemove(r)
      <4>1. req[r].pc = "remove" /\ Goto(r, [pc |-> "count", block |-> req[r].block])
        BY <3>3, MineMovesOn DEF MineRemove, At
      <4>2. req'[r] = [pc |-> "count", block |-> req[r].block]
        BY <4>1, GotoStep
      <4> QED
        BY <4>1, <4>2 DEF Bystander
    <3>4. CASE MineCount(r)
      <4>1. req[r].pc = "count" /\ Goto(r, [pc |-> "commit", block |-> req[r].block])
        BY <3>4, MineMovesOn DEF MineCount, At
      <4>2. req'[r] = [pc |-> "commit", block |-> req[r].block]
        BY <4>1, GotoStep
      <4> QED
        BY <4>1, <4>2 DEF Bystander
    <3>5. CASE MineAudit(r)
      <4>1. req[r].pc = "commit" /\ req'[r].pc = "done"
        BY <3>5, GotoStep DEF MineAudit, At, Return
      <4> QED
        BY <4>1 DEF Bystander
    <3> QED
      BY <2>2, <3>1, <3>2, <3>3, <3>4, <3>5
  <2> QED
    BY <2>1, <2>3, <2>4 DEF Bystander
<1>4. ASSUME Clock \/ UNCHANGED NodeVars PROVE Calm
  BY <1>4 DEF Clock, NodeVars, Components, Bystander
<1> QED
  BY <1>2, <1>3, <1>4 DEF NodeNext, Quiet

\* While one goroutine holds opMu the others that mine wait or have ended.
LEMMA OthersWait ==
    ASSUME Section, NEW r \in Requests, opMu = r
    PROVE  /\ \A p \in Mines \ {r} : req[p].pc \in {"start", "done"}
           /\ Applying \subseteq {r}
<1>1. ASSUME NEW p \in Mines \ {r} PROVE req[p].pc \in {"start", "done"}
  <2>1. p \in Requests /\ Frame(p, req[p]) /\ req[p].pc \in Outside
    BY DEF Section, Requests
  <2> QED
    BY <2>1, FrameSteps DEF Outside
<1> QED
  BY <1>1 DEF Applying, At

\* The claims about r alone carry over to all, if r holds opMu.
LEMMA OneMiner ==
    ASSUME Section, NEW r \in Requests, r \in Mines, opMu = r,
           \A p \in Mines \ {r} : req'[p] = req[p],
           At(r, "apply")' => req'[r].prev = Latest',
           At(r, "put")' => Follows(req[r].block)',
           req'[r].pc \in {"remove", "count", "commit"} =>
             Height' > 0 /\ req'[r].block = blocks'[Height']
    PROVE  /\ MineLocals'
           /\ Applying' = IF req'[r].pc \in {"apply", "put"} THEN {r} ELSE {}
<1>1. \A p \in Mines \ {r} : req'[p].pc \in {"start", "done"}
  BY OthersWait
<1>2. MineLocals'
  BY <1>1 DEF MineLocals, At, Follows
<1>3. Applying' = IF req'[r].pc \in {"apply", "put"} THEN {r} ELSE {}
  BY <1>1 DEF Applying, At
<1> QED
  BY <1>2, <1>3

LEMMA LatestChain ==
    ASSUME Section, ChainInv, NEW r \in Requests, MineLatest(r)
    PROVE  ChainInv'
<1> DEFINE f == [pc |-> "apply", txs |-> req[r].txs, prev |-> Latest, done |-> 0]
<1>1. req[r].pc = "latest" /\ Goto(r, f) /\ UNCHANGED <<blocks, data>>
  BY DEF MineLatest, At, Components
<1>2. r \in Mines /\ opMu = r /\ IsBody(req[r].txs)
  BY <1>1, MineAt DEF At
<1>3. req'[r] = f /\ \A p \in Mines \ {r} : req'[p] = req[p]
  BY <1>1, GotoStep DEF Requests
<1>4. Height' = Height /\ Latest' = Latest /\ ChainOK' /\ ChainOK
      /\ History(Height)' = History(Height)
  BY <1>1, SameChain DEF ChainInv, History, Height
<1>5. MineLocals' /\ Applying' = {r}
  BY <1>2, <1>3, <1>4, OneMiner DEF At
<1>6. Applying = {}
  BY <1>1, <1>2, OthersWait DEF Applying, At
<1>7. data = Replay(History(Height))
  BY <1>6 DEF ChainInv, StateMatchesChain, StateAt
<1>8. AppliedBy(r)' = <<>>
  BY <1>2, <1>3, BodyPrefix DEF AppliedBy, At
<1>9. Replay(Append(History(Height), <<>>)) = Replay(History(Height))
  <2>1. Height \in 0..Height
    BY <1>4 DEF ChainOK
  <2> QED
    BY <1>4, <2>1, HistoryIsSeq, ReplayEmptyBlock
<1>10. StateMatchesChain'
  BY <1>1, <1>4, <1>5, <1>7, <1>8, <1>9 DEF StateMatchesChain
<1> QED
  BY <1>4, <1>5, <1>10 DEF ChainInv

LEMMA ApplyChain ==
    ASSUME Section, ChainInv, NEW r \in Requests, MineApply(r)
    PROVE  ChainInv'
<1> DEFINE txs == req[r].txs
           n == req[r].done
           f == [pc |-> "apply", txs |-> txs, prev |-> req[r].prev, done |-> n + 1]
<1>1. /\ req[r].pc = "apply" /\ UNCHANGED blocks
      /\ n < Len(txs) /\ data' = AppliedTo(data, txs[n + 1])
  BY DEF MineApply, At, Apply
<1>2. r \in Mines /\ opMu = r /\ IsBody(txs) /\ n \in 0..Len(txs)
  BY <1>1, MineAt DEF At
<1>3. req'[r] = f /\ \A p \in Mines \ {r} : req'[p] = req[p]
  BY <1>2, ApplyStep, RequestsAssumption DEF Requests
<1>4. Height' = Height /\ Latest' = Latest /\ ChainOK' /\ ChainOK
      /\ History(Height)' = History(Height)
  BY <1>1, SameChain DEF ChainInv, History, Height
<1>5. req[r].prev = Latest
  BY <1>1, <1>2 DEF ChainInv, MineLocals, At
<1>6. MineLocals' /\ Applying' = {r}
  BY <1>2, <1>3, <1>4, <1>5, OneMiner DEF At
<1>7. data = Replay(Append(History(Height), SubSeq(txs, 1, n)))
  BY <1>1, <1>2 DEF ChainInv, StateMatchesChain, Applying, AppliedBy, At
<1>8. AppliedBy(r)' = SubSeq(txs, 1, n + 1)
  <2>1. req'[r].pc = "apply" /\ req'[r].txs = txs /\ req'[r].done = n + 1
    BY <1>3
  <2> QED
    BY <2>1 DEF AppliedBy, At
<1>9. /\ Len(txs) \in Nat /\ n \in 0..(Len(txs) - 1)
      /\ txs[n + 1] \in Txs /\ Storable(txs[n + 1])
  BY <1>1, <1>2, BodyFacts, TxStorable
<1>10. /\ SubSeq(txs, 1, n) \in Seq(Txs)
       /\ SubSeq(txs, 1, n + 1) = Append(SubSeq(txs, 1, n), txs[n + 1])
  BY <1>2, <1>9, BodyPrefix
<1>11. History(Height) \in Seq(Seq(Txs))
  <2>1. Height \in 0..Height
    BY <1>4 DEF ChainOK
  <2> QED
    BY <1>4, <2>1, HistoryIsSeq
<1> HIDE DEF txs, n, f
<1>12. data' = Replay(Append(History(Height), SubSeq(txs, 1, n + 1)))
  <2>1. Replay(Append(History(Height), Append(SubSeq(txs, 1, n), txs[n + 1])))
          = AppliedTo(Replay(Append(History(Height), SubSeq(txs, 1, n))), txs[n + 1])
    <3> DEFINE hist == History(Height)
               b == SubSeq(txs, 1, n)
               t == txs[n + 1]
    <3>1. hist \in Seq(Seq(Txs)) /\ b \in Seq(Txs) /\ t \in Txs /\ Storable(t)
      BY <1>9, <1>10, <1>11
    <3> HIDE DEF hist, b, t
    <3>2. Replay(Append(hist, Append(b, t))) = AppliedTo(Replay(Append(hist, b)), t)
      BY <3>1, ReplayStep
    <3> QED
      BY <3>2 DEF hist, b, t
  <2> QED
    BY <1>1, <1>7, <1>10, <2>1
<1>13. StateMatchesChain'
  BY <1>4, <1>6, <1>8, <1>12 DEF StateMatchesChain
<1> QED
  BY <1>4, <1>6, <1>13 DEF ChainInv

\* The block that is built follows the latest one.
LEMMA NewBlockFollows ==
    ASSUME ChainOK, NEW txs, NEW at
    PROVE  LET b == NewBlock(txs, Latest, Root(data), at)
           IN Follows(b) /\ b.Transactions = txs
<1> DEFINE h == Header(Latest.Header.Height + 1, Latest.Hash, Root(data),
                       MerkleRoot(txs), at \div TicksPerSecond)
           b == NewBlock(txs, Latest, Root(data), at)
<1>1. b = [Header |-> h, Transactions |-> txs, Hash |-> HeaderHash(h)]
  BY DEF NewBlock
<1>2. Latest.Header.Height = Height
  BY LatestBlock
<1>3. /\ h.Height = Height + 1 /\ h.PrevHash = Latest.Hash
      /\ h.StateRoot = Root(data) /\ h.TxRoot = MerkleRoot(txs)
  BY <1>2 DEF Header
<1>4. HeaderHash(h) # NoHash
  BY DEF HeaderHash, SHA256, NoHash
<1> HIDE DEF h
<1> QED
  BY <1>1, <1>3, <1>4 DEF Follows

LEMMA BuildChain ==
    ASSUME Section, ChainInv, NEW r \in Requests, MineBuild(r)
    PROVE  ChainInv'
<1> DEFINE txs == req[r].txs
           b == NewBlock(txs, req[r].prev, Root(data), now)
           f == [pc |-> "put", block |-> b]
<1>1. /\ req[r].pc = "apply" /\ UNCHANGED <<blocks, data>>
      /\ req[r].done = Len(txs) /\ Goto(r, f)
  BY DEF MineBuild, At, Components
<1>2. r \in Mines /\ opMu = r /\ IsBody(txs)
  BY <1>1, MineAt DEF At
<1>3. req'[r] = f /\ \A p \in Mines \ {r} : req'[p] = req[p]
  BY <1>1, GotoStep DEF Requests
<1>4. Height' = Height /\ Latest' = Latest /\ ChainOK' /\ ChainOK
      /\ History(Height)' = History(Height)
  BY <1>1, SameChain DEF ChainInv, History, Height
<1>5. req[r].prev = Latest
  BY <1>1, <1>2 DEF ChainInv, MineLocals, At
<1>6. Follows(b) /\ b.Transactions = txs
  BY <1>4, <1>5, NewBlockFollows
<1>7. data = Replay(Append(History(Height), SubSeq(txs, 1, Len(txs))))
  BY <1>1, <1>2 DEF ChainInv, StateMatchesChain, Applying, AppliedBy, At
<1>8. SubSeq(txs, 1, Len(txs)) = txs
  BY <1>2, BodyPrefix
<1> HIDE DEF b
<1>9. Follows(req[r].block)'
  <2>1. req'[r].block = b
    BY <1>3
  <2> QED
    BY <1>1, <1>4, <1>6, <2>1 DEF Follows
<1>10. MineLocals' /\ Applying' = {r}
  BY <1>2, <1>3, <1>9, OneMiner DEF At
<1>11. AppliedBy(r)' = txs
  BY <1>3, <1>6 DEF AppliedBy, At
<1>12. StateMatchesChain'
  BY <1>1, <1>4, <1>7, <1>8, <1>10, <1>11 DEF StateMatchesChain
<1> QED
  BY <1>4, <1>10, <1>12 DEF ChainInv

\* A block that follows the latest one lengthens the chain, and leaves what
\* the blocks before it lead to as it was.
LEMMA AppendBlock ==
    ASSUME ChainOK, NEW b, Follows(b), blocks' = MapPut(blocks, Height + 1, b)
    PROVE  /\ Height' = Height + 1
           /\ blocks' = [h \in 1..(Height + 1) |-> blocks'[h]]
           /\ blocks'[Height + 1] = b
           /\ \A h \in 1..Height : blocks'[h] = blocks[h]
           /\ \A h \in 0..Height : History(h)' = History(h) /\ StateAt(h)' = StateAt(h)
           /\ History(Height)' = Append(History(Height), b.Transactions)
           /\ StateAt(Height)' = Replay(Append(History(Height), b.Transactions))
<1>1. Height \in Nat /\ DOMAIN blocks = 1..Height
  BY DEF ChainOK
<1>2. /\ DOMAIN blocks' = 1..(Height + 1)
      /\ blocks' = [h \in 1..(Height + 1) |-> blocks'[h]]
      /\ blocks'[Height + 1] = b
      /\ \A h \in 1..Height : blocks'[h] = blocks[h]
  <2> HIDE DEF Height
  <2> QED
    BY <1>1 DEF MapPut
<1>3. Height' = Height + 1
  <2>1. Cardinality(1..(Height + 1)) = Height + 1
    BY <1>1, FS_Interval
  <2> QED
    BY <1>2, <2>1 DEF Height
<1>4. ASSUME NEW h \in 0..Height PROVE History(h)' = History(h) /\ StateAt(h)' = StateAt(h)
  <2>1. \A g \in 1..h : g \in 1..Height
    BY <1>1
  <2>2. History(h)' = History(h)
    BY <1>2, <2>1 DEF History
  <2> QED
    BY <2>2 DEF StateAt
<1>5. History(Height)' = Append(History(Height), b.Transactions)
  <2> DEFINE n == Height
             H == [g \in 1..n |-> blocks[g].Transactions]
             H1 == [g \in 1..(n + 1) |-> blocks'[g].Transactions]
  <2>1. H1 = Append(H, b.Transactions)
    <3>1. n \in Nat
      BY <1>1
    <3>2. blocks'[n + 1] = b /\ \A h \in 1..n : blocks'[h] = blocks[h]
      BY <1>2
    <3> HIDE DEF n
    <3>3. H \in Seq({H[i] : i \in 1..n} \cup {b.Transactions}) /\ Len(H) = n
      BY <3>1
    <3> QED
      BY <3>1, <3>2, <3>3
  <2> QED
    BY <2>1, <1>3 DEF History
<1>6. StateAt(Height)' = Replay(Append(History(Height), b.Transactions))
  BY <1>5 DEF StateAt
<1> QED
  BY <1>2, <1>3, <1>4, <1>5, <1>6

\* PutBlock never refuses the block of a request to mine.
LEMMA NeverRefused ==
    ASSUME Section, ChainInv, NEW r \in Requests, MinePut(r)
    PROVE  /\ r \in Mines /\ opMu = r /\ UNCHANGED opMu
           /\ req[r].pc = "put" /\ Follows(req[r].block)
           /\ blocks' = MapPut(blocks, Height + 1, req[r].block)
           /\ Goto(r, [pc |-> "remove", block |-> req[r].block])
           /\ UNCHANGED data
<1>1. req[r].pc = "put" /\ r \in Mines /\ opMu = r
  BY MineAt DEF MinePut, At
<1>2. Follows(req[r].block)
  BY <1>1 DEF ChainInv, MineLocals, At
<1>3. HeightFree(req[r].block)
  <2>1. req[r].block.Header.Height = Height + 1
    BY <1>2 DEF Follows
  <2>2. Height \in Nat /\ DOMAIN blocks = 1..Height
    BY DEF ChainInv, ChainOK
  <2> HIDE DEF Height
  <2> QED
    BY <2>1, <2>2 DEF HeightFree
<1>4. blocks' = MapPut(blocks, Height + 1, req[r].block)
  BY <1>2, <1>3 DEF MinePut, PutBlock, Follows
<1>5. /\ Goto(r, [req[r] EXCEPT !.pc = "remove"]) /\ UNCHANGED opMu /\ UNCHANGED data
  BY <1>3 DEF MinePut
<1>6. Goto(r, [pc |-> "remove", block |-> req[r].block])
  BY <1>1, <1>5, MineMovesOn
<1> QED
  BY <1>1, <1>2, <1>4, <1>5, <1>6

LEMMA PutChain ==
    ASSUME Section, ChainInv, NEW r \in Requests, MinePut(r)
    PROVE  ChainInv'
<1> DEFINE b == req[r].block
           n == Height
<1>1. /\ r \in Mines /\ opMu = r /\ req[r].pc = "put" /\ Follows(b)
      /\ blocks' = MapPut(blocks, n + 1, b) /\ UNCHANGED data
      /\ Goto(r, [pc |-> "remove", block |-> b])
  BY NeverRefused
<1>2. ChainOK /\ n \in Nat
  BY DEF ChainInv, ChainOK
<1>3. /\ Height' = n + 1
      /\ blocks' = [h \in 1..(n + 1) |-> blocks'[h]]
      /\ blocks'[n + 1] = b
      /\ \A h \in 1..n : blocks'[h] = blocks[h]
      /\ \A h \in 0..n : StateAt(h)' = StateAt(h)
      /\ StateAt(Height)' = Replay(Append(History(n), b.Transactions))
  BY <1>1, <1>2, AppendBlock
<1>4. req'[r] = [pc |-> "remove", block |-> b] /\ \A p \in Mines \ {r} : req'[p] = req[p]
  BY <1>1, GotoStep DEF Requests
<1>5. data = Replay(Append(History(n), b.Transactions))
  BY <1>1 DEF ChainInv, StateMatchesChain, Applying, AppliedBy, At
<1>6. IsBody(b.Transactions)
  BY <1>1, MineAt
<1>7. /\ n = 0 => Latest = ZeroBlock
      /\ n > 0 => Latest = blocks[n]
  BY <1>2, LatestBlock
<1>8. /\ b.Header.Height = n + 1
      /\ b.Header.PrevHash = Latest.Hash
      /\ b.Header.TxRoot = MerkleRoot(b.Transactions)
      /\ b.Header.StateRoot = Root(data)
      /\ b.Hash # NoHash
  BY <1>1 DEF Follows
<1>9. \A h \in 1..n :
         /\ IsBody(blocks[h].Transactions)
         /\ blocks[h].Header.Height = h
         /\ h > 1 => blocks[h].Header.PrevHash = blocks[h-1].Hash
         /\ blocks[h].Header.TxRoot = MerkleRoot(blocks[h].Transactions)
         /\ blocks[h].Header.StateRoot = Root(StateAt(h))
         /\ blocks[h].Hash # NoHash
  BY <1>2 DEF ChainOK
<1> HIDE DEF n, b
<1>10. ASSUME NEW h \in 1..(n + 1)
       PROVE /\ IsBody(blocks'[h].Transactions)
             /\ blocks'[h].Header.Height = h
             /\ h > 1 => blocks'[h].Header.PrevHash = blocks'[h-1].Hash
             /\ blocks'[h].Header.TxRoot = MerkleRoot(blocks'[h].Transactions)
             /\ blocks'[h].Header.StateRoot = Root(StateAt(h)')
             /\ blocks'[h].Hash # NoHash
  <2>1. CASE h = n + 1
    <3>1. StateAt(h)' = StateAt(Height)'
      BY <1>3, <2>1 DEF StateAt, History
    <3>2. blocks'[h] = b /\ Root(StateAt(h)') = Root(data)
      BY <1>3, <1>5, <2>1, <3>1
    <3>3. h > 1 => blocks'[h-1] = Latest
      BY <1>2, <1>3, <1>7, <2>1
    <3> QED
      BY <1>6, <1>8, <2>1, <3>2, <3>3
  <2>2. CASE h \in 1..n
    <3>1. blocks'[h] = blocks[h] /\ StateAt(h)' = StateAt(h)
      BY <1>2, <1>3, <2>2
    <3>2. h > 1 => blocks'[h-1] = blocks[h-1]
      BY <1>2, <1>3, <2>2
    <3> QED
      BY <1>9, <2>2, <3>1, <3>2
  <2> QED
    BY <1>2, <2>1, <2>2
<1>11. ChainOK'
  BY <1>2, <1>3, <1>10 DEF ChainOK
<1>12. MineLocals' /\ Applying' = {}
  BY <1>1, <1>2, <1>3, <1>4, OneMiner DEF At
<1>13. StateMatchesChain'
  BY <1>1, <1>3, <1>5, <1>12 DEF StateMatchesChain
<1> QED
  BY <1>11, <1>12, <1>13 DEF ChainInv

LEMMA ChainInit == NodeInit => ChainInv
<1> SUFFICES ASSUME NodeInit PROVE ChainInv
  OBVIOUS
<1>1. blocks = EmptyMap /\ data = EmptyMap /\ req = [r \in Requests |-> [pc |-> "start"]]
  BY DEF NodeInit, RepoInit, StateInit
<1>2. DOMAIN blocks = {} /\ Height = 0
  BY <1>1, FS_EmptySet DEF EmptyMap, Height
<1>3. ChainOK
  BY <1>1, <1>2 DEF ChainOK, EmptyMap
<1>4. \A r \in Mines : req[r].pc = "start"
  BY <1>1 DEF Requests
<1>5. MineLocals
  BY <1>4 DEF MineLocals, At
<1>6. Applying = {}
  BY <1>4 DEF Applying, At
<1>7. History(Height) = <<>>
  BY <1>2 DEF History
<1>8. StateMatchesChain
  BY <1>1, <1>6, <1>7, ReplayNothing DEF StateMatchesChain, StateAt
<1> QED
  BY <1>3, <1>5, <1>8 DEF ChainInv

LEMMA ChainNext == Control /\ ChainInv /\ [NodeNext]_NodeVars => ChainInv'
<1> SUFFICES ASSUME Section, ChainInv, [NodeNext]_NodeVars PROVE ChainInv'
  BY DEF Control
<1> QED
  BY ChainSteps, QuietChain, LatestChain, ApplyChain, BuildChain, PutChain

\* Every block follows the one before it and has the root of its state, every
\* request to mine works on the latest block, and the state is what the chain
\* and the block under way write.
THEOREM ChainInvariant == NodeSpec => []ChainInv
<1>1. NodeInit => ChainInv
  BY ChainInit
<1>2. Control /\ ChainInv /\ [NodeNext]_NodeVars => ChainInv'
  BY ChainNext
<1> QED
  BY <1>1, <1>2, ControlInvariant, PTL DEF NodeSpec

\* The state is what the committed blocks and the applied part of the block
\* being mined write, whatever requests run at once (node.go:143-160).
THEOREM StateIsReplayed == NodeSpec => []StateMatchesChain
<1>1. ChainInv => StateMatchesChain
  BY DEF ChainInv
<1> QED
  BY <1>1, ChainInvariant, PTL

\* VerifyChain accepts the stored blocks at every moment, and their heights
\* have no gap (node.go:146-156, retention.go:21-37).
THEOREM ChainIsValid == NodeSpec => []ChainVerifies
<1>1. ChainInv => ChainVerifies
  BY ChainLinked, LinkedVerifies DEF ChainInv, ChainVerifies
<1> QED
  BY <1>1, ChainInvariant, PTL
-----------------------------------------------------------------------------
(* Snapshots and versions.                                                  *)

\* s is of a height of the chain, with that height's state and root.
Authentic(s) ==
    /\ s.Height \in 0..Height
    /\ s.Data = StateAt(s.Height)
    /\ s.Root = Root(s.Data)

\* What a goroutine that makes or verifies a snapshot has gathered of it.
SnapLocals ==
    /\ \A r \in Snapshots :
         /\ req[r].pc \in {"root", "data"} => req[r].height = Height
         /\ req[r].pc = "data" => req[r].root = Root(data)
         /\ req[r].pc \in {"putsnap", "version", "created"} =>
              Authentic(req[r].snap) /\ req[r].snap.Height = Height
    /\ \A r \in Verifies :
         req[r].pc \in {"compare", "putback"} => Authentic(req[r].snap)

Stored ==
    /\ \A id \in DOMAIN snaps : snaps[id].ID = id /\ Authentic(snaps[id])
    /\ \A h \in DOMAIN versions : h \in 0..Height /\ versions[h] = StateAt(h)

SnapInv == SnapLocals /\ Stored

\* Blocks are only ever appended: what earlier heights lead to stays.
LEMMA ChainGrows ==
    ASSUME Section, ChainInv, [NodeNext]_NodeVars
    PROVE  /\ \A h \in 0..Height : h \in 0..Height' /\ StateAt(h)' = StateAt(h)
           /\ \A s : Authentic(s) => Authentic(s)'
<1>1. Height \in Nat /\ ChainOK
  BY DEF ChainInv, ChainOK
<1>2. \A h \in 0..Height : h \in 0..Height' /\ StateAt(h)' = StateAt(h)
  <2>1. CASE UNCHANGED blocks
    BY <2>1, SameChain
  <2>2. ASSUME NEW r \in Requests, MinePut(r)
        PROVE  \A h \in 0..Height : h \in 0..Height' /\ StateAt(h)' = StateAt(h)
    <3>1. Follows(req[r].block) /\ blocks' = MapPut(blocks, Height + 1, req[r].block)
      BY <2>2, NeverRefused
    <3>2. Height' = Height + 1 /\ \A h \in 0..Height : StateAt(h)' = StateAt(h)
      BY <1>1, <3>1, AppendBlock
    <3> QED
      BY <1>1, <3>2
  <2>3. UNCHANGED blocks \/ \E r \in Requests : MinePut(r)
    BY ChainSteps DEF MineLatest, MineApply, MineBuild, Components
  <2> QED
    BY <2>1, <2>2, <2>3
<1>3. ASSUME NEW s, Authentic(s) PROVE Authentic(s)'
  BY <1>2, <1>3 DEF Authentic
<1> QED
  BY <1>2, <1>3

\* The chain and the state rest while another goroutine holds opMu.
LEMMA HeldSteps ==
    ASSUME Section, [NodeNext]_NodeVars, opMu \notin Mines
    PROVE  UNCHANGED <<blocks, data>>
<1>1. ASSUME NEW r \in Requests
      PROVE  ~(MineLatest(r) \/ MineApply(r) \/ MineBuild(r) \/ MinePut(r))
  BY MineAt DEF MineLatest, MineApply, MineBuild, MinePut, At
<1> QED
  BY <1>1, ChainSteps

\* Outside the critical sections of mine the state is that of the last block.
LEMMA RestingState ==
    ASSUME Section, ChainInv, opMu \notin Mines
    PROVE  data = StateAt(Height)
<1>1. ASSUME NEW r \in Mines, req[r].pc \in {"apply", "put"} PROVE FALSE
  <2>1. r \in Requests
    BY DEF Requests
  <2> QED
    BY <1>1, <2>1, MineAt
<1>2. Applying = {}
  BY <1>1 DEF Applying, At
<1> QED
  BY <1>2 DEF ChainInv, StateMatchesChain

\* Steps that make or verify no snapshot.
LEMMA OtherSnaps ==
    ASSUME Section, ChainInv, SnapInv, [NodeNext]_NodeVars,
           UNCHANGED <<snaps, versions>>,
           \A p \in Snapshots \cup Verifies :
              req'[p] = req[p] \/ req'[p].pc \in {"height", "get"}
    PROVE  SnapInv'
<1>1. Stored'
  BY ChainGrows DEF SnapInv, Stored
<1>2. ASSUME NEW r \in Verifies, req'[r].pc \in {"compare", "putback"}
      PROVE  Authentic(req[r].snap)'
  <2>1. req'[r] = req[r]
    BY <1>2
  <2>2. Authentic(req[r].snap)
    BY <1>2, <2>1 DEF SnapInv, SnapLocals
  <2>3. PICK s : s = req[r].snap
    OBVIOUS
  <2>4. Authentic(s)'
    BY <2>2, <2>3, ChainGrows
  <2> QED
    BY <2>1, <2>3, <2>4 DEF Authentic
<1>3. ASSUME NEW r \in Snapshots,
             req'[r].pc \in {"root", "data", "putsnap", "version", "created"}
      PROVE  /\ req'[r].pc \in {"root", "data"} => req'[r].height = Height'
             /\ req'[r].pc = "data" => req'[r].root = Root(data')
             /\ req'[r].pc \in {"putsnap", "version", "created"} =>
                  Authentic(req[r].snap)' /\ req'[r].snap.Height = Height'
  <2>1. req'[r] = req[r]
    BY <1>3
  <2>2. opMu = r
    BY <1>3, <2>1, SnapAt DEF Requests
  <2>3. UNCHANGED <<blocks, data>>
    BY <2>2, HeldSteps, RequestsAssumption
  <2>4. Height' = Height
    BY <2>3 DEF Height
  <2>5. req[r].pc \in {"putsnap", "version", "created"} => Authentic(req[r].snap)'
    <3> SUFFICES ASSUME req[r].pc \in {"putsnap", "version", "created"}
                 PROVE  Authentic(req[r].snap)'
      OBVIOUS
    <3>1. PICK s : s = req[r].snap
      OBVIOUS
    <3>2. Authentic(s)
      BY <3>1 DEF SnapInv, SnapLocals
    <3>3. Authentic(s)'
      BY <3>2, ChainGrows
    <3> QED
      BY <2>1, <3>1, <3>3 DEF Authentic
  <2> QED
    BY <1>3, <2>1, <2>3, <2>4, <2>5 DEF SnapInv, SnapLocals
<1>4. SnapLocals'
  BY <1>2, <1>3 DEF SnapLocals
<1> QED
  BY <1>1, <1>4 DEF SnapInv

\* The claims about r alone carry over to all, if r holds opMu.
LEMMA OneSnapper ==
    ASSUME Section, NEW r \in Requests, opMu = r,
           \A p \in Requests \ {r} : p \notin ProofReads => req'[p] = req[p],
           r \in Snapshots =>
             /\ req'[r].pc \in {"root", "data"} => req'[r].height = Height'
             /\ req'[r].pc = "data" => req'[r].root = Root(data')
             /\ req'[r].pc \in {"putsnap", "version", "created"} =>
                  Authentic(req[r].snap)' /\ req'[r].snap.Height = Height',
           r \in Verifies =>
             (req'[r].pc \in {"compare", "putback"} => Authentic(req[r].snap)')
    PROVE  SnapLocals'
<1>1. ASSUME NEW p \in Snapshots \cup Verifies, p # r
      PROVE  req'[p].pc \in Outside
  <2>1. p \in Requests /\ p \notin ProofReads
    BY RequestsAssumption DEF Requests
  <2> QED
    BY <1>1, <2>1 DEF Section
<1> QED
  BY <1>1 DEF SnapLocals, Outside

LEMMA SnapBodySnaps ==
    ASSUME PoolInv, Section, ChainInv, SnapInv, [NodeNext]_NodeVars,
           NEW r \in Requests, SnapBody(r)
    PROVE  SnapInv'
<1>1. r \in Snapshots /\ opMu = r /\ r \notin Mines /\ r \notin Verifies
  BY SnapSteps, RequestsAssumption
<1>2. UNCHANGED <<blocks, data>> /\ data = StateAt(Height)
  BY <1>1, HeldSteps, RestingState
<1>3. /\ Height' = Height /\ StateAt(Height)' = StateAt(Height)
      /\ \A h : StateAt(h)' = StateAt(h)
  BY <1>2, SameChain DEF StateAt, History
<1>4. \A p \in Requests \ {r} : p \notin ProofReads => req'[p] = req[p]
  BY OtherFrames DEF Step
<1>5. ChainOK /\ Height \in Nat
  BY DEF ChainInv, ChainOK
<1>6. \A s : Authentic(s) <=> Authentic(s)'
  BY <1>3 DEF Authentic
<1>7. UNCHANGED <<snaps, versions>> => Stored'
  BY <1>3, <1>6 DEF SnapInv, Stored
<1>8. CASE SnapHeight(r)
  <2>1. /\ Goto(r, [pc |-> "root", id |-> now, height |-> Latest.Header.Height])
        /\ UNCHANGED <<snaps, versions>>
    BY <1>8 DEF SnapHeight, Components
  <2>2. req'[r] = [pc |-> "root", id |-> now, height |-> Height]
    BY <1>5, <2>1, GotoStep, LatestBlock
  <2>3. SnapLocals'
    BY <1>1, <1>3, <1>4, <2>2, OneSnapper
  <2> QED
    BY <1>7, <2>1, <2>3 DEF SnapInv
<1>9. CASE SnapRoot(r)
  <2>1. /\ Goto(r, [pc |-> "data", id |-> req[r].id, height |-> req[r].height,
                    root |-> Root(data)])
        /\ UNCHANGED <<snaps, versions>> /\ req[r].pc = "root"
    BY <1>9 DEF SnapRoot, Components, At
  <2>2. req[r].height = Height
    BY <1>1, <2>1 DEF SnapInv, SnapLocals
  <2>3. req'[r] = [pc |-> "data", id |-> req[r].id, height |-> Height,
                   root |-> Root(data)]
    BY <2>1, <2>2, GotoStep
  <2>4. SnapLocals'
    BY <1>1, <1>2, <1>3, <1>4, <2>3, OneSnapper
  <2> QED
    BY <1>7, <2>1, <2>4 DEF SnapInv
<1>10. CASE SnapData(r)
  <2> DEFINE s == [ID |-> req[r].id, Height |-> req[r].height, Root |-> req[r].root,
                   Data |-> data, Verified |-> FALSE]
  <2>1. /\ Goto(r, [pc |-> "putsnap", snap |-> s])
        /\ UNCHANGED <<snaps, versions>> /\ req[r].pc = "data"
    BY <1>10 DEF SnapData, Components, At
  <2>2. req[r].height = Height /\ req[r].root = Root(data)
    BY <1>1, <2>1 DEF SnapInv, SnapLocals
  <2>3. s.Height = Height /\ s.Data = data /\ s.Root = Root(data)
    BY <2>2
  <2> HIDE DEF s
  <2>4. req'[r] = [pc |-> "putsnap", snap |-> s]
    BY <2>1, GotoStep
  <2>5. Authentic(req[r].snap)' /\ req'[r].snap.Height = Height'
    <3>1. req'[r].snap = s
      BY <2>4
    <3>2. /\ Height' \in 0..Height'
          /\ data = StateAt(Height)'
      BY <1>2, <1>3, <1>5
    <3>3. s.Data = StateAt(req[r].snap.Height)'
      BY <1>3, <2>3, <3>1, <3>2 DEF StateAt, History
    <3> QED
      BY <1>3, <2>3, <3>1, <3>2, <3>3 DEF Authentic
  <2>6. SnapLocals'
    BY <1>1, <1>4, <2>4, <2>5, OneSnapper
  <2> QED
    BY <1>7, <2>1, <2>6 DEF SnapInv
<1>11. ASSUME req[r].pc \in {"putsnap", "version"}, NEW step \in {"version", "created"},
              req' = [req EXCEPT ![r].pc = step]
       PROVE  SnapLocals' /\ Authentic(req[r].snap) /\ req[r].snap.Height = Height
  <2>1. Goto(r, [pc |-> step, snap |-> req[r].snap])
    BY <1>11, SnapMovesOn
  <2>2. req'[r] = [pc |-> step, snap |-> req[r].snap]
    BY <2>1, GotoStep
  <2>3. Authentic(req[r].snap) /\ req[r].snap.Height = Height
    BY <1>1, <1>11 DEF SnapInv, SnapLocals
  <2>4. PICK s : s = req[r].snap
    OBVIOUS
  <2>5. Authentic(s)' /\ s.Height = Height'
    BY <1>3, <1>6, <2>3, <2>4
  <2>6. Authentic(req[r].snap)' /\ req'[r].snap.Height = Height'
    BY <2>2, <2>4, <2>5 DEF Authentic
  <2>7. req'[r].pc \notin {"root", "data"}
    BY <2>2
  <2> QED
    BY <1>1, <1>4, <2>3, <2>6, <2>7, OneSnapper
<1>12. CASE SnapPut(r)
  <2> DEFINE s == req[r].snap
  <2>1. /\ req[r].pc = "putsnap" /\ snaps' = MapPut(snaps, s.ID, s)
        /\ req' = [req EXCEPT ![r].pc = "version"] /\ UNCHANGED versions
    BY <1>12 DEF SnapPut, PutSnapshot, At
  <2>2. SnapLocals' /\ Authentic(s)
    BY <1>11, <2>1
  <2> HIDE DEF s
  <2>3. \A id \in DOMAIN snaps' : snaps'[id].ID = id /\ Authentic(snaps'[id])
    BY <2>1, <2>2 DEF SnapInv, Stored, MapPut
  <2>4. Stored'
    BY <1>3, <1>6, <2>1, <2>3 DEF SnapInv, Stored, Authentic
  <2> QED
    BY <2>2, <2>4 DEF SnapInv
<1>13. CASE SnapVersion(r)
  <2>1. /\ req[r].pc = "version" /\ UNCHANGED snaps
        /\ versions' = MapPut(versions, req[r].snap.Height, data)
        /\ req' = [req EXCEPT ![r].pc = "created"]
    BY <1>13 DEF SnapVersion, Snapshot, At
  <2>2. SnapLocals' /\ req[r].snap.Height = Height
    BY <1>11, <2>1
  <2>3. \A h \in DOMAIN versions' : h \in 0..Height /\ versions'[h] = StateAt(h)
    BY <1>2, <1>5, <2>1, <2>2 DEF SnapInv, Stored, MapPut
  <2>4. Stored'
    BY <1>3, <1>6, <2>1, <2>3 DEF SnapInv, Stored
  <2> QED
    BY <2>2, <2>4 DEF SnapInv
<1>14. CASE SnapAudit(r)
  <2>1. Goto(r, [pc |-> "done", code |-> 201]) /\ UNCHANGED <<snaps, versions>>
    BY <1>14 DEF SnapAudit, Return, Components
  <2>2. req'[r] = [pc |-> "done", code |-> 201]
    BY <2>1, GotoStep
  <2>3. SnapLocals'
    BY <1>1, <1>4, <2>2, OneSnapper
  <2> QED
    BY <1>7, <2>1, <2>3 DEF SnapInv
<1> QED
  BY <1>8, <1>9, <1>10, <1>12, <1>13, <1>14 DEF SnapBody

LEMMA VerifyBodySnaps ==
    ASSUME SnapsTyped, Section, ChainInv, SnapInv, [NodeNext]_NodeVars,
           NEW r \in Requests, VerifyBody(r)
    PROVE  SnapInv'
<1>1. r \in Verifies /\ opMu = r /\ r \notin Mines /\ r \notin Snapshots
  BY VerifySteps, RequestsAssumption
<1>2. UNCHANGED <<blocks, data>>
  BY <1>1, HeldSteps
<1>3. Height' = Height /\ \A h : StateAt(h)' = StateAt(h)
  BY <1>2, SameChain
<1>4. \A p \in Requests \ {r} : p \notin ProofReads => req'[p] = req[p]
  BY OtherFrames DEF Step
<1>5. \A s : Authentic(s) <=> Authentic(s)'
  BY <1>3 DEF Authentic
<1>6. UNCHANGED <<snaps, versions>> => Stored'
  BY <1>3, <1>5 DEF SnapInv, Stored
<1>7. ASSUME NEW s, Authentic(s), NEW step, req'[r] = [pc |-> step, snap |-> s]
      PROVE  SnapLocals'
  <2>1. Authentic(s)' /\ req'[r].snap = s
    BY <1>5, <1>7
  <2>2. Authentic(req[r].snap)'
    BY <2>1 DEF Authentic
  <2> QED
    BY <1>1, <1>4, <2>2, OneSnapper
<1>8. ASSUME NEW code, req'[r] = [pc |-> "done", code |-> code] PROVE SnapLocals'
  BY <1>1, <1>4, <1>8, OneSnapper
<1>9. CASE VerifyGet(r)
  <2>1. PICK id \in 0..MaxTime :
          IF id \in DOMAIN snaps
          THEN Goto(r, [pc |-> "compare", snap |-> snaps[id]])
          ELSE Goto(r, [pc |-> "done", code |-> 404])
    BY <1>9 DEF VerifyGet, Return
  <2>2. UNCHANGED <<snaps, versions>>
    BY <1>9 DEF VerifyGet, Components
  <2>3. CASE id \in DOMAIN snaps
    <3>1. Authentic(snaps[id])
      BY <2>3 DEF SnapInv, Stored
    <3>2. req'[r] = [pc |-> "compare", snap |-> snaps[id]]
      BY <2>1, <2>3, GotoStep
    <3> QED
      BY <1>6, <1>7, <2>2, <3>1, <3>2 DEF SnapInv
  <2>4. CASE id \notin DOMAIN snaps
    <3>1. req'[r] = [pc |-> "done", code |-> 404]
      BY <2>1, <2>4, GotoStep
    <3> QED
      BY <1>6, <1>8, <2>2, <3>1 DEF SnapInv
  <2> QED
    BY <2>3, <2>4
<1>10. CASE VerifyCompare(r)
  <2> DEFINE s == req[r].snap
             v == (s.Root = Root(data))
             t == [s EXCEPT !.Verified = v]
  <2>1. IsSnap(s) /\ req[r].pc = "compare"
    BY <1>10, VerifyAt DEF VerifyCompare, At
  <2>2. Authentic(s)
    BY <1>1, <2>1 DEF SnapInv, SnapLocals
  <2>3. t = [ID |-> s.ID, Height |-> s.Height, Root |-> s.Root, Data |-> s.Data,
             Verified |-> v]
    BY <2>1, VerdictIsSnap, Zenon
  <2>4. Goto(r, [pc |-> "putback", snap |-> t])
    BY <1>10, Zenon DEF VerifyCompare
  <2>5. UNCHANGED <<snaps, versions>>
    BY <1>10 DEF VerifyCompare, Components
  <2> HIDE DEF s, v, t
  <2>6. t.Height = s.Height /\ t.Root = s.Root /\ t.Data = s.Data
    BY <2>3
  <2>7. Authentic(t)
    BY <2>2, <2>6 DEF Authentic
  <2>8. req'[r] = [pc |-> "putback", snap |-> t]
    BY <2>4, GotoStep
  <2> QED
    BY <1>6, <1>7, <2>5, <2>7, <2>8 DEF SnapInv
<1>11. CASE VerifyPut(r)
  <2> DEFINE s == req[r].snap
  <2>1. /\ req[r].pc = "putback" /\ snaps' = MapPut(snaps, s.ID, s)
        /\ Goto(r, [pc |-> "done", code |-> 200]) /\ UNCHANGED versions
    BY <1>11 DEF VerifyPut, PutSnapshot, At, Return
  <2>2. Authentic(s)
    BY <1>1, <2>1 DEF SnapInv, SnapLocals
  <2> HIDE DEF s
  <2>3. \A id \in DOMAIN snaps' : snaps'[id].ID = id /\ Authentic(snaps'[id])
    BY <2>1, <2>2 DEF SnapInv, Stored, MapPut
  <2>4. Stored'
    BY <1>3, <1>5, <2>1, <2>3 DEF SnapInv, Stored, Authentic
  <2>5. req'[r] = [pc |-> "done", code |-> 200]
    BY <2>1, GotoStep
  <2> QED
    BY <1>8, <2>4, <2>5 DEF SnapInv
<1> QED
  BY <1>9, <1>10, <1>11 DEF VerifyBody

LEMMA SnapNext ==
    Control /\ ChainInv /\ SnapInv /\ [NodeNext]_NodeVars => SnapInv'
<1> SUFFICES ASSUME PoolInv, Section, SnapsTyped, ChainInv, SnapInv, [NodeNext]_NodeVars
             PROVE  SnapInv'
  BY DEF Control
<1> DEFINE Others == Snapshots \cup Verifies
<1>1. Others \subseteq Requests /\ Others \cap (Submits \cup Mines \cup ProofReads) = {}
  BY RequestsAssumption DEF Requests
<1>2. ASSUME NEW r \in Requests, TxH(r) \/ MineBody(r) \/ ProofBody(r)
      PROVE  SnapInv'
  <2>1. r \notin Others
    BY <1>1, <1>2, ProofSteps, MineAt, ZenonT(60)
       DEF TxH, TxAdd, TxAudit, MineBody, MineList, MineLatest, MineApply, MineBuild,
           MinePut, MineRemove, MineCount, MineAudit, At
  <2>2. \A p \in Others : req'[p] = req[p]
    BY <1>1, <1>2, <2>1, OtherFrames DEF Step
  <2>3. UNCHANGED <<snaps, versions>>
    BY <1>2 DEF TxH, TxAdd, TxAudit, MineBody, MineList, MineLatest, MineApply, MineBuild,
           MinePut, MineRemove, MineCount, MineAudit, ProofBody, ProofGet, ProofData,
           ProofRoot, Components
  <2> QED
    BY <2>2, <2>3, OtherSnaps, SMTT(40)
<1>3. ASSUME NEW r \in Requests, Locking(r) PROVE SnapInv'
  <2>1. \A p \in Others \ {r} : req'[p] = req[p]
    BY <1>1, <1>3, OtherFrames
  <2>2. r \in Others => req'[r].pc \in {"height", "get"}
    BY <1>1, <1>3, GotoStep DEF Locking, MineLock, SnapLock, VerifyLock
  <2>3. UNCHANGED <<snaps, versions>>
    BY <1>3 DEF Locking, MineLock, SnapLock, VerifyLock, Components
  <2> QED
    BY <2>1, <2>2, <2>3, OtherSnaps
<1>4. ASSUME Clock \/ UNCHANGED NodeVars PROVE SnapInv'
  <2>1. UNCHANGED <<snaps, versions, req>>
    BY <1>4 DEF Clock, NodeVars, Components
  <2> QED
    BY <2>1, OtherSnaps
<1>5. ASSUME NEW r \in Requests, Step(r) PROVE SnapInv'
  BY <1>2, <1>5, SnapBodySnaps, VerifyBodySnaps DEF Step
<1> QED
  BY <1>3, <1>4, <1>5 DEF NodeNext, Quiet

LEMMA SnapInit == NodeInit => SnapInv
<1> SUFFICES ASSUME NodeInit PROVE SnapInv
  OBVIOUS
<1>1. DOMAIN snaps = {} /\ DOMAIN versions = {}
  BY DEF NodeInit, RepoInit, StateInit, EmptyMap
<1>2. \A r \in Requests : req[r].pc = "start"
  BY DEF NodeInit
<1> QED
  BY <1>1, <1>2 DEF SnapInv, SnapLocals, Stored, Requests

\* Snapshots, kept versions and what goroutines gather for them are authentic.
LEMMA SnapInvariant == NodeSpec => []SnapInv
<1>1. NodeInit => SnapInv
  BY SnapInit
<1>2. Control /\ ChainInv /\ SnapInv /\ [NodeNext]_NodeVars => SnapInv'
  BY SnapNext
<1> QED
  BY <1>1, <1>2, ControlInvariant, ChainInvariant, PTL DEF NodeSpec

\* A snapshot and a kept version are the state right after the block of their
\* height, whatever else runs while they are gathered, put back after a
\* verification, or replaced (node.go:179-184, 189-203).
THEOREM SnapshotsAreAuthentic == NodeSpec => []SnapshotsAuthentic
<1>1. SnapInv => SnapshotsAuthentic
  BY DEF SnapInv, Stored, Authentic, SnapshotsAuthentic
<1> QED
  BY <1>1, SnapInvariant, PTL
-----------------------------------------------------------------------------
(* The node implements the ledger.                                          *)

\* The ledger's chain, and the definitions of Ledger in terms of the node's.
LedgerChain ==
    [h \in 1..Height |-> [txs |-> blocks[h].Transactions,
                          root |-> blocks[h].Header.StateRoot]]

LEMMA LedgerWritten ==
    ASSUME ChainOK
    PROVE  /\ LedgerChain \in Seq({LedgerChain[h] : h \in 1..Height})
           /\ Len(LedgerChain) = Height
           /\ [h \in 1..Len(LedgerChain) |-> LedgerChain[h].txs] = History(Height)
<1>1. Height \in Nat
  BY DEF ChainOK
<1> HIDE DEF Height
<1>2. /\ LedgerChain \in Seq({LedgerChain[h] : h \in 1..Height})
      /\ Len(LedgerChain) = Height
  BY <1>1 DEF LedgerChain
<1>3. \A h \in 1..Height : LedgerChain[h].txs = blocks[h].Transactions
  BY DEF LedgerChain
<1> QED
  BY <1>2, <1>3 DEF History

\* A function one longer than a sequence, which agrees with it, extends it.
LEMMA Extends ==
    ASSUME NEW S, NEW s \in Seq(S), NEW n, n = Len(s), NEW e,
           NEW V, NEW f \in [1..(n + 1) -> V],
           \A h \in 1..n : f[h] = s[h],
           f[n + 1] = e
    PROVE  f = Append(s, e)
<1> DEFINE a == Append(s, e)
<1>1. a \in Seq(S \cup {e}) /\ Len(a) = Len(s) + 1 /\ Len(s) \in Nat
  OBVIOUS
<1>2. (\A h \in 1..Len(s) : a[h] = s[h]) /\ a[Len(s) + 1] = e
  OBVIOUS
<1> HIDE DEF a
<1>3. a = [h \in 1..(Len(s) + 1) |-> a[h]]
  BY <1>1
<1>4. ASSUME NEW h \in 1..(Len(s) + 1) PROVE f[h] = a[h]
  <2>1. h \in 1..n \/ h = n + 1
    BY <1>1
  <2> QED
    BY <1>2, <2>1
<1>5. f = a
  BY <1>3, <1>4
<1> QED
  BY <1>5 DEF a

\* MinePut commits a block of the ledger.
LEMMA PutCommits ==
    ASSUME Section, ChainInv, NEW r \in Requests, MinePut(r)
    PROVE  \E txs \in Bodies :
             LedgerChain' = Append(LedgerChain,
               [txs |-> txs, root |-> Root(Replay(Append(History(Height), txs)))])
<1> DEFINE b == req[r].block
           n == Height
           txs == b.Transactions
           e == [txs |-> txs, root |-> Root(Replay(Append(History(Height), txs)))]
<1>1. /\ r \in Mines /\ req[r].pc = "put" /\ Follows(b)
      /\ blocks' = MapPut(blocks, n + 1, b)
  BY NeverRefused
<1>2. ChainOK /\ n \in Nat
  BY DEF ChainInv, ChainOK
<1>3. /\ Height' = n + 1 /\ blocks'[n + 1] = b
      /\ \A h \in 1..n : blocks'[h] = blocks[h]
  BY <1>1, <1>2, AppendBlock
<1>4. data = Replay(Append(History(Height), txs))
  BY <1>1 DEF ChainInv, StateMatchesChain, Applying, AppliedBy, At
<1>5. txs \in Bodies
  BY <1>1, MineAt DEF IsBody
<1>6. b.Header.StateRoot = Root(Replay(Append(History(Height), txs)))
  BY <1>1, <1>4 DEF Follows
<1>7. e = [txs |-> b.Transactions, root |-> b.Header.StateRoot]
  BY <1>6
<1>8. LedgerChain' = Append(LedgerChain, e)
  <2> DEFINE C == [h \in 1..n |-> [txs |-> blocks[h].Transactions,
                                   root |-> blocks[h].Header.StateRoot]]
             D == [h \in 1..(n + 1) |-> [txs |-> blocks'[h].Transactions,
                                         root |-> blocks'[h].Header.StateRoot]]
  <2> HIDE DEF n, e, b
  <2>1. C \in Seq({C[h] : h \in 1..n}) /\ Len(C) = n
    BY <1>2
  <2>2. D = Append(C, e)
    <3> USE DEF b
    <3>1. \A h \in 1..n : D[h] = C[h]
      BY <1>2, <1>3
    <3>2. D[n + 1] = e
      BY <1>2, <1>3, <1>7
    <3> HIDE DEF C, b
    <3> DEFINE S == {C[h] : h \in 1..n}
               V == {D[h] : h \in 1..(n + 1)}
    <3>3. C \in Seq(S) /\ n = Len(C) /\ D \in [1..(n + 1) -> V]
      BY <2>1
    <3> HIDE DEF D, S, V
    <3> QED
      BY <3>1, <3>2, <3>3, Extends
  <2>3. LedgerChain' = D
    BY <1>3 DEF LedgerChain
  <2>4. LedgerChain = C
    BY DEF LedgerChain, n
  <2> QED
    BY <2>2, <2>3, <2>4
<1> QED
  BY <1>5, <1>8

\* The definitions of Ledger, seen through the refinement mapping.
LEMMA LedgerMeans ==
    /\ \A d : LedgerView!Root(d) = Root(d)
    /\ \A hist : LedgerView!Replay(hist) = Replay(hist)
    /\ LedgerView!EmptyMap = EmptyMap
    /\ \A m, k, v : LedgerView!MapPut(m, k, v) = MapPut(m, k, v)
<1>1. \A d : LedgerView!Root(d) = Root(d)
  <2>1. \A K : LedgerView!InOrder(K) = InOrder(K)
    BY DEF LedgerView!InOrder, InOrder
  <2> QED
    BY <2>1 DEF LedgerView!Root, Root, LedgerView!SHA256, SHA256
<1>2. \A hist : LedgerView!Replay(hist) = Replay(hist)
  BY DEF LedgerView!Replay, Replay, LedgerView!LastWrite, LastWrite, LedgerView!Writes,
         Writes, LedgerView!Later, Later, LedgerView!Keys, Keys, LedgerView!Applies, Applies
<1> QED
  BY <1>1, <1>2 DEF LedgerView!EmptyMap, EmptyMap, LedgerView!MapPut, MapPut

\* The steps the ledger sees.
LEMMA LedgerStep ==
    ASSUME PoolInv, Section, ChainInv, SnapInv, [NodeNext]_NodeVars
    PROVE  \/ \E r \in Requests : MinePut(r) /\ UNCHANGED versions
           \/ /\ versions' = MapPut(versions, Height, StateAt(Height))
              /\ LedgerChain' = LedgerChain
           \/ UNCHANGED versions /\ LedgerChain' = LedgerChain
<1>1. (\E r \in Requests : MinePut(r)) \/ UNCHANGED blocks
  BY ChainSteps DEF MineLatest, MineApply, MineBuild, Components
<1>2. UNCHANGED blocks => LedgerChain' = LedgerChain
  BY DEF LedgerChain, Height
<1>3. (\E r \in Requests : SnapVersion(r)) \/ UNCHANGED versions
  BY ZenonT(60) DEF NodeNext, Step, TxH, TxAdd, TxAudit, MineBody, MineList, MineLatest,
         MineApply, MineBuild, MinePut, MineRemove, MineCount, MineAudit,
         SnapBody, SnapHeight, SnapRoot, SnapData, SnapPut, SnapAudit,
         VerifyBody, VerifyGet, VerifyCompare, VerifyPut,
         ProofBody, ProofGet, ProofData, ProofRoot,
         Locking, MineLock, SnapLock, VerifyLock, Clock, Quiet, NodeVars, Components
<1>4. ASSUME NEW r \in Requests, SnapVersion(r)
      PROVE  /\ versions' = MapPut(versions, Height, StateAt(Height))
             /\ LedgerChain' = LedgerChain
  <2>1. /\ req[r].pc = "version" /\ UNCHANGED blocks
        /\ versions' = MapPut(versions, req[r].snap.Height, data)
    BY <1>4 DEF SnapVersion, Snapshot, At
  <2>2. r \in Snapshots /\ opMu = r
    BY <2>1, SnapAt
  <2>3. req[r].snap.Height = Height
    BY <2>1, <2>2 DEF SnapInv, SnapLocals
  <2>4. data = StateAt(Height)
    BY <2>2, RestingState, RequestsAssumption
  <2> QED
    BY <1>2, <2>1, <2>3, <2>4
<1>5. ASSUME NEW r \in Requests, MinePut(r) PROVE UNCHANGED versions
  BY <1>5 DEF MinePut
<1> QED
  BY <1>1, <1>2, <1>3, <1>4, <1>5

\* The node implements the ledger: whatever its requests do at once, to an
\* observer of the blocks and the kept versions whole blocks are appended, each
\* with the root of the state it leads to, and versions are kept of the present
\* height only (node.go:142-187).
THEOREM NodeImplementsLedger == NodeSpec => ImplementsLedger
<1>1. NodeInit => LedgerView!LInit
  <2> SUFFICES ASSUME NodeInit PROVE LedgerView!LInit
    OBVIOUS
  <2>1. blocks = EmptyMap /\ versions = EmptyMap
    BY DEF NodeInit, RepoInit, StateInit
  <2>2. Height = 0
    BY <2>1, FS_EmptySet DEF EmptyMap, Height
  <2>3. LedgerChain = <<>>
    BY <2>2 DEF LedgerChain
  <2> QED
    BY <2>1, <2>3, LedgerMeans DEF LedgerView!LInit, LedgerChain
<1>2. ASSUME Control, ChainInv, SnapInv, [NodeNext]_NodeVars
      PROVE  [LedgerView!Commit \/ LedgerView!Keep]_<<LedgerChain, versions>>
  <2>1. ChainOK /\ Height \in Nat
    BY <1>2 DEF ChainInv, ChainOK
  <2>2. /\ LedgerChain \in Seq({LedgerChain[h] : h \in 1..Height})
        /\ Len(LedgerChain) = Height
        /\ [h \in 1..Len(LedgerChain) |-> LedgerChain[h].txs] = History(Height)
    BY <2>1, LedgerWritten
  <2>3. LedgerView!Written = History(Height)
    BY <2>2 DEF LedgerView!Written, LedgerChain
  <2>4. ASSUME NEW r \in Requests, MinePut(r), UNCHANGED versions
        PROVE  LedgerView!Commit
    <3>1. PICK txs \in Bodies :
            LedgerChain' = Append(LedgerChain,
              [txs |-> txs, root |-> Root(Replay(Append(History(Height), txs)))])
      BY <1>2, <2>4, PutCommits DEF Control
    <3>2. Len(LedgerChain') = Len(LedgerChain) + 1
      <4> DEFINE S == {LedgerChain[h] : h \in 1..Height}
                 e == [txs |-> txs, root |-> Root(Replay(Append(History(Height), txs)))]
      <4>1. LedgerChain \in Seq(S) /\ LedgerChain' = Append(LedgerChain, e)
        BY <2>2, <3>1
      <4> HIDE DEF S, e
      <4> QED
        BY <4>1
    <3>3. LedgerChain' = Append(LedgerChain,
            [txs |-> txs,
             root |-> LedgerView!Root(LedgerView!Replay(Append(LedgerView!Written, txs)))])
      BY <2>3, <3>1, LedgerMeans
    <3> QED
      BY <2>4, <3>2, <3>3 DEF LedgerView!Commit, LedgerChain, Bodies
  <2>5. ASSUME versions' = MapPut(versions, Height, StateAt(Height)),
               LedgerChain' = LedgerChain
        PROVE  LedgerView!Keep
    <3>1. versions' = LedgerView!MapPut(versions, Len(LedgerChain),
                                        LedgerView!Replay(LedgerView!Written))
      BY <2>2, <2>3, <2>5, LedgerMeans DEF StateAt
    <3> QED
      BY <2>5, <3>1 DEF LedgerView!Keep, LedgerChain
  <2> QED
    BY <1>2, <2>4, <2>5, LedgerStep DEF Control
<1> QED
  BY <1>1, <1>2, ControlInvariant, ChainInvariant, SnapInvariant, PTL
     DEF NodeSpec, ImplementsLedger, LedgerView!LSpec, LedgerChain
-----------------------------------------------------------------------------
(* Proofs of the state.                                                     *)

\* The siblings of a key are the leaves of the other keys; without a sibling
\* the leaf differs from the root, which is a hash of one pair and not of two
\* parts.
LEMMA SiblingsAre ==
    ASSUME NEW d, DOMAIN d \subseteq Keys, NEW k \in DOMAIN d
    PROVE  /\ {Siblings(k, d)[i] : i \in 1..Len(Siblings(k, d))}
                = {ItemLeaf(x, d[x]) : x \in DOMAIN d \ {k}}
           /\ Siblings(k, d) = <<>> => ItemLeaf(k, d[k]) # Root(d)
<1> DEFINE others == InOrder(DOMAIN d \ {k})
           all == InOrder(DOMAIN d)
           S == Siblings(k, d)
<1>1. others \in Seq(Keys) /\ {others[i] : i \in 1..Len(others)} = DOMAIN d \ {k}
  <2>1. DOMAIN d \ {k} \in SUBSET Keys
    OBVIOUS
  <2> QED
    BY <2>1, InOrderIs
<1>2. /\ all \in Seq(Keys) /\ {all[i] : i \in 1..Len(all)} = DOMAIN d
      /\ \A i, j \in 1..Len(all) : all[i] = all[j] => i = j
  <2>1. DOMAIN d \in SUBSET Keys
    OBVIOUS
  <2> QED
    BY <2>1, InOrderIs
<1>3. S = [i \in 1..Len(others) |-> ItemLeaf(others[i], d[others[i]])]
  BY DEF Siblings
<1>4. Root(d) = SHA256([i \in 1..Len(all) |-> <<all[i], d[all[i]]>>])
  BY DEF Root
<1> HIDE DEF others, all, S
<1>5. Len(others) \in Nat /\ Len(all) \in Nat
  BY <1>1, <1>2
<1>6. Len(S) = Len(others)
  BY <1>3, <1>5
<1>7. {S[i] : i \in 1..Len(S)} = {ItemLeaf(x, d[x]) : x \in DOMAIN d \ {k}}
  <2>1. \A i \in 1..Len(S) : S[i] = ItemLeaf(others[i], d[others[i]])
    BY <1>3, <1>6
  <2> QED
    BY <1>1, <1>6, <2>1
<1>8. ASSUME S = <<>>, ItemLeaf(k, d[k]) = Root(d) PROVE FALSE
  <2> DEFINE pairs == [i \in 1..Len(all) |-> <<all[i], d[all[i]]>>]
  <2>1. DOMAIN d \ {k} = {}
    BY <1>1, <1>5, <1>6, <1>8
  <2>2. pairs = <<k, "=", d[k]>>
    <3> HIDE DEF pairs
    <3>1. SHA256(<<k, "=", d[k]>>) = SHA256(pairs)
      BY <1>4, <1>8 DEF ItemLeaf, pairs
    <3> QED
      BY <3>1 DEF SHA256
  <2>3. DOMAIN pairs = 1..Len(all) /\ DOMAIN <<k, "=", d[k]>> = 1..3
    OBVIOUS
  <2>4. 1..Len(all) = 1..3
    BY <2>2, <2>3
  <2>5. 1 \in 1..Len(all) /\ 2 \in 1..Len(all)
    BY <2>4
  <2>6. all[1] = k /\ all[2] = k
    BY <1>2, <2>1, <2>5
  <2> QED
    BY <1>2, <2>5, <2>6
<1> QED
  BY <1>7, <1>8 DEF S

\* The keys of a replayed state are keys in use.
LEMMA StateKeys == \A h : DOMAIN StateAt(h) \subseteq Keys
BY DEF StateAt, Replay

\* The item is read from the state d, apart from its root.
ReadFrom(item, d) == item.Key \in DOMAIN d /\ item.Value = d[item.Key]

\* The item proves its pair in the state of a stored block.
Proven(item) ==
    \E h \in 1..Height :
        /\ item.Root = Root(StateAt(h))
        /\ ReadFrom(item, StateAt(h))
        /\ item.Path = Siblings(item.Key, StateAt(h))

\* What is claimed of the frame f of a proof, when the state is d: as long as
\* the proof is not disturbed its parts are of the state of the last block,
\* and when it ends it is of a stored block.
ProofHolds(f, d) ==
    /\ (f.pc \in {"proofdata", "proofroot"} /\ f.calm = TRUE) =>
         /\ d = StateAt(Height)
         /\ ReadFrom(f.item, d)
         /\ f.pc = "proofroot" => f.path = Siblings(f.item.Key, d)
    /\ (f.pc = "done" /\ "item" \in DOMAIN f /\ f.calm = TRUE) => Proven(f.item)

ProofInv == \A p \in ProofReads : ProofHolds(req[p], data)

\* A block applied marks every proof that is being built, and no other.
LEMMA ApplyMarks ==
    ASSUME Section, NEW r \in Requests, MineApply(r), NEW p \in ProofReads
    PROVE  \/ /\ req[p].pc \in {"proofdata", "proofroot"}
              /\ req'[p].pc = req[p].pc /\ req'[p].calm = FALSE
           \/ /\ req[p].pc \notin {"proofdata", "proofroot"}
              /\ req'[p] = req[p]
<1>1. p \in Requests /\ p # r
  BY MineAt, RequestsAssumption DEF MineApply, At, Requests
<1>2. req' = [Disturbed EXCEPT ![r].done = @ + 1]
  BY DEF MineApply
<1>3. req'[p] = Disturbed[p]
  BY <1>1, <1>2 DEF Disturbed
<1>4. CASE req[p].pc = "proofdata"
  <2>1. req'[p] = [req[p] EXCEPT !.calm = FALSE]
    BY <1>1, <1>3, <1>4 DEF Disturbed, At
  <2>2. req[p] = [pc |-> "proofdata", calm |-> req[p].calm, item |-> req[p].item]
    BY <1>1, <1>4, ProofAt DEF At
  <2>3. req'[p] = [pc |-> "proofdata", calm |-> FALSE, item |-> req[p].item]
    BY <2>1, <2>2, MarkedFrame
  <2> QED
    BY <1>4, <2>3
<1>5. CASE req[p].pc = "proofroot"
  <2>1. req'[p] = [req[p] EXCEPT !.calm = FALSE]
    BY <1>1, <1>3, <1>5 DEF Disturbed, At
  <2>2. req[p] = [pc |-> "proofroot", calm |-> req[p].calm, item |-> req[p].item,
                  path |-> req[p].path]
    BY <1>1, <1>5, ProofAt DEF At
  <2>3. req'[p] = [pc |-> "proofroot", calm |-> FALSE, item |-> req[p].item,
                   path |-> req[p].path]
    BY <2>1, <2>2, MarkedFrame, ZenonT(60)
  <2> QED
    BY <1>5, <2>3
<1>6. CASE req[p].pc \notin {"proofdata", "proofroot"}
  <2>1. req'[p] = req[p]
    BY <1>1, <1>3, <1>6 DEF Disturbed, At
  <2> QED
    BY <1>6, <2>1
<1> QED
  BY <1>4, <1>5, <1>6

\* An item that was proven stays so: blocks are only appended.
LEMMA ProvenStays ==
    ASSUME Section, ChainInv, [NodeNext]_NodeVars, NEW item, Proven(item)
    PROVE  Proven(item)'
<1>1. PICK h \in 1..Height :
        /\ item.Root = Root(StateAt(h))
        /\ ReadFrom(item, StateAt(h))
        /\ item.Path = Siblings(item.Key, StateAt(h))
  BY DEF Proven
<1>2. h \in 0..Height /\ h # 0
  BY DEF ChainInv, ChainOK
<1>3. h \in 0..Height' /\ StateAt(h)' = StateAt(h)
  BY <1>2, ChainGrows
<1>4. h \in 1..Height'
  BY <1>2, <1>3
<1>5. PICK d : d = StateAt(h)
  OBVIOUS
<1>6. item.Root = Root(d) /\ ReadFrom(item, d) /\ item.Path = Siblings(item.Key, d)
  BY <1>1, <1>5
<1>7. StateAt(h)' = d
  BY <1>3, <1>5
<1> QED
  BY <1>4, <1>6, <1>7 DEF Proven

\* A step that applies no transaction keeps the state at the last block's.
LEMMA StateStays ==
    ASSUME Section, ChainInv, ChainInv', [NodeNext]_NodeVars,
           \A r \in Requests : ~MineApply(r)
    PROVE  /\ data' = data
           /\ data = StateAt(Height) => data' = StateAt(Height)'
<1>1. CASE UNCHANGED <<blocks, data>>
  <2>1. StateAt(Height)' = StateAt(Height)
    BY <1>1 DEF StateAt, History, Height
  <2> QED
    BY <1>1, <2>1
<1>2. ASSUME NEW r \in Requests, MinePut(r)
      PROVE  data' = data /\ data' = StateAt(Height)'
  <2>1. data' = data /\ r \in Mines /\ opMu = r /\ req[r].pc = "put"
    BY <1>2, MineAt DEF MinePut, At
  <2>2. req'[r].pc \in {"remove", "done"}
    <3>1. (\E f : Goto(r, f) /\ f.pc \in {"remove", "done"})
      <4>1. \/ Goto(r, [req[r] EXCEPT !.pc = "remove"])
            \/ Goto(r, [pc |-> "done", code |-> 409])
        BY <1>2 DEF MinePut, Return
      <4>2. [req[r] EXCEPT !.pc = "remove"].pc = "remove"
        <5>1. req[r] = [pc |-> req[r].pc, block |-> req[r].block]
          BY <2>1, MineAt
        <5> QED
          BY <5>1
      <4>3. CASE Goto(r, [req[r] EXCEPT !.pc = "remove"])
        BY <4>2, <4>3
      <4>4. CASE Goto(r, [pc |-> "done", code |-> 409])
        BY <4>4
      <4> QED
        BY <4>1, <4>3, <4>4
    <3> QED
      BY <3>1, GotoStep
  <2>3. \A p \in Mines \ {r} : req'[p] = req[p] /\ req[p].pc \in {"start", "done"}
    <3>1. ~MineApply(r) /\ Step(r)
      BY <1>2 DEF Step, MineBody
    <3> QED
      BY <2>1, <3>1, OthersRest, OthersWait DEF Requests
  <2>4. Applying' = {}
    BY <2>2, <2>3 DEF Applying, At
  <2> QED
    BY <2>1, <2>4 DEF ChainInv, StateMatchesChain
<1>3. ASSUME NEW r \in Requests, MineLatest(r) \/ MineBuild(r)
      PROVE  UNCHANGED <<blocks, data>>
  BY <1>3 DEF MineLatest, MineBuild, Components
<1> QED
  BY <1>1, <1>2, <1>3, ChainSteps

\* The claim about a frame that did not change, when no transaction was
\* applied.
LEMMA FrameHolds ==
    ASSUME Section, ChainInv, ChainInv', [NodeNext]_NodeVars,
           \A r \in Requests : ~MineApply(r), NEW f, ProofHolds(f, data)
    PROVE  ProofHolds(f, data)'
<1>1. PICK d : d = data
  OBVIOUS
<1>2. data' = d /\ (d = StateAt(Height) => d = StateAt(Height)')
  BY <1>1, StateStays
<1>3. ASSUME f.pc \in {"proofdata", "proofroot"}, f.calm = TRUE
      PROVE  /\ d = StateAt(Height)'
             /\ ReadFrom(f.item, d)
             /\ f.pc = "proofroot" => f.path = Siblings(f.item.Key, d)
  BY <1>1, <1>2, <1>3 DEF ProofHolds
<1>4. ASSUME f.pc = "done", "item" \in DOMAIN f, f.calm = TRUE
      PROVE  Proven(f.item)'
  <2>1. PICK i : i = f.item
    OBVIOUS
  <2>2. Proven(i)
    BY <1>4, <2>1 DEF ProofHolds
  <2>3. Proven(i)'
    BY <2>2, ProvenStays
  <2> QED
    BY <2>1, <2>3 DEF Proven
<1> QED
  BY <1>2, <1>3, <1>4 DEF ProofHolds

\* The three reads of Build.
LEMMA ProofBodyHolds ==
    ASSUME Section, ChainInv, ProofInv, NEW r \in Requests, ProofBody(r)
    PROVE  ProofHolds(req[r], data)'
<1>1. r \in ProofReads
  BY ProofSteps
<1>2. UNCHANGED <<blocks, data>>
  BY DEF ProofBody, ProofGet, ProofData, ProofRoot, Components
<1>3. Height' = Height /\ \A h : StateAt(h)' = StateAt(h)
  BY <1>2, SameChain
<1>4. SUFFICES ASSUME NEW f, Goto(r, f), ProofHolds(f, data)
               PROVE  ProofHolds(f, data)'
  <2>1. \E f : Goto(r, f) /\ ProofHolds(f, data)
    <3>1. CASE ProofGet(r)
      <4>1. PICK k \in Keys :
              \/ /\ k \in DOMAIN data
                 /\ Goto(r, [pc |-> "proofdata", calm |-> Applying = {},
                             item |-> [Key |-> k, Value |-> data[k]]])
              \/ Goto(r, [pc |-> "done", code |-> 200])
        BY <3>1, Zenon DEF ProofGet, Return
      <4>2. PICK c \in BOOLEAN : c = (Applying = {})
        BY Zenon
      <4> DEFINE f == [pc |-> "proofdata", calm |-> c,
                       item |-> [Key |-> k, Value |-> data[k]]]
                 g == [pc |-> "done", code |-> 200]
      <4>3. (k \in DOMAIN data /\ Goto(r, f)) \/ Goto(r, g)
        BY <4>1, <4>2, Zenon
      <4>4. c = TRUE => data = StateAt(Height)
        <5>1. c = TRUE => Applying = {}
          BY <4>2, Zenon
        <5> QED
          BY <5>1 DEF ChainInv, StateMatchesChain
      <4>5. k \in DOMAIN data => ProofHolds(f, data)
        BY <4>4 DEF ProofHolds, ReadFrom
      <4>6. ProofHolds(g, data)
        BY DEF ProofHolds
      <4> HIDE DEF f, g
      <4> QED
        BY <4>3, <4>5, <4>6
    <3>2. CASE ProofData(r)
      <4> DEFINE f == [pc |-> "proofroot", calm |-> req[r].calm, item |-> req[r].item,
                       path |-> Siblings(req[r].item.Key, data)]
      <4>1. Goto(r, f) /\ req[r].pc = "proofdata"
        BY <3>2 DEF ProofData, At
      <4>2. ProofHolds(req[r], data)
        BY <1>1 DEF ProofInv
      <4>3. req[r].calm = TRUE => data = StateAt(Height) /\ ReadFrom(req[r].item, data)
        BY <4>1, <4>2 DEF ProofHolds
      <4>4. ProofHolds(f, data)
        BY <4>3 DEF ProofHolds
      <4> QED
        BY <4>1, <4>4
    <3>3. CASE ProofRoot(r)
      <4> DEFINE i == [Key |-> req[r].item.Key, Value |-> req[r].item.Value,
                       Root |-> Root(data), Path |-> req[r].path]
                 f == [pc |-> "done", code |-> 200, calm |-> req[r].calm, item |-> i]
      <4>1. Goto(r, f) /\ req[r].pc = "proofroot"
        BY <3>3 DEF ProofRoot, At
      <4>2. ProofHolds(req[r], data)
        BY <1>1 DEF ProofInv
      <4>3. req[r].calm = TRUE =>
              /\ data = StateAt(Height) /\ ReadFrom(req[r].item, data)
              /\ req[r].path = Siblings(req[r].item.Key, data)
        BY <4>1, <4>2 DEF ProofHolds
      <4>4. ASSUME req[r].calm = TRUE PROVE Proven(i)
        <5>1. Height # 0
          <6>1. StateAt(0) = EmptyMap
            <7>1. History(0) = <<>>
              BY DEF History
            <7> QED
              BY <7>1, ReplayNothing DEF StateAt
          <6>2. DOMAIN data # {}
            BY <4>3, <4>4 DEF ReadFrom
          <6> QED
            BY <4>3, <4>4, <6>1, <6>2 DEF EmptyMap
        <5>2. Height \in 1..Height
          BY <5>1 DEF ChainInv, ChainOK
        <5>3. ReadFrom(i, StateAt(Height))
          BY <4>3, <4>4 DEF ReadFrom
        <5>4. i.Root = Root(StateAt(Height)) /\ i.Path = Siblings(i.Key, StateAt(Height))
          BY <4>3, <4>4
        <5> HIDE DEF i
        <5> QED
          BY <5>2, <5>3, <5>4 DEF Proven
      <4>5. ProofHolds(f, data)
        <5> HIDE DEF i
        <5> QED
          BY <4>4 DEF ProofHolds
      <4> HIDE DEF f
      <4> QED
        BY <4>1, <4>5
    <3> QED
      BY <3>1, <3>2, <3>3 DEF ProofBody
  <2>2. PICK f : Goto(r, f) /\ ProofHolds(f, data)
    BY <2>1
  <2>3. ProofHolds(f, data)'
    BY <2>2, <1>4
  <2>4. req'[r] = f
    BY <2>2, GotoStep
  <2> QED
    BY <2>3, <2>4 DEF ProofHolds
<1>5. PICK d : d = data
  OBVIOUS
<1>6. data' = d /\ StateAt(Height)' = StateAt(Height)
  BY <1>2, <1>3, <1>5 DEF StateAt, History, Height
<1>7. Proven(f.item) => Proven(f.item)'
  BY <1>3 DEF Proven
<1> QED
  BY <1>4, <1>5, <1>6, <1>7 DEF ProofHolds

LEMMA ProofNext ==
    Control /\ ChainInv /\ ChainInv' /\ ProofInv /\ [NodeNext]_NodeVars => ProofInv'
<1> SUFFICES ASSUME Section, ChainInv, ChainInv', ProofInv, [NodeNext]_NodeVars,
                    NEW p \in ProofReads
             PROVE  ProofHolds(req[p], data)'
  BY DEF Control, ProofInv
<1>1. p \in Requests /\ ProofHolds(req[p], data)
  BY DEF ProofInv, Requests
<1>2. ASSUME NEW r \in Requests, MineApply(r) PROVE ProofHolds(req[p], data)'
  <2>1. CASE req[p].pc \in {"proofdata", "proofroot"}
    <3>1. req'[p].pc \in {"proofdata", "proofroot"} /\ req'[p].calm = FALSE
      BY <1>2, <2>1, ApplyMarks
    <3> QED
      BY <3>1 DEF ProofHolds
  <2>2. CASE req[p].pc \notin {"proofdata", "proofroot"}
    <3>1. req'[p] = req[p]
      BY <1>2, <2>2, ApplyMarks
    <3>2. PICK i : i = req[p].item
      OBVIOUS
    <3>3. Proven(i) => Proven(i)'
      BY ProvenStays
    <3>4. (req[p].pc = "done" /\ "item" \in DOMAIN req[p] /\ req[p].calm = TRUE)
            => Proven(i)
      BY <1>1, <3>2 DEF ProofHolds
    <3> QED
      BY <2>2, <3>1, <3>2, <3>3, <3>4 DEF ProofHolds, Proven
  <2> QED
    BY <2>1, <2>2
<1>3. ASSUME \A r \in Requests : ~MineApply(r), req'[p] = req[p]
      PROVE  ProofHolds(req[p], data)'
  <2>1. PICK f : f = req[p]
    OBVIOUS
  <2>2. ProofHolds(f, data)
    BY <1>1, <2>1
  <2>3. ProofHolds(f, data)'
    BY <1>3, <2>2, FrameHolds
  <2> QED
    BY <1>3, <2>1, <2>3 DEF ProofHolds
<1>4. ASSUME \A r \in Requests : ~MineApply(r), req'[p] # req[p]
      PROVE  ProofBody(p)
  <2>1. PICK r \in Requests : Locking(r) \/ Step(r)
    BY <1>4 DEF NodeNext, Clock, Quiet, NodeVars
  <2>2. p = r
    BY <1>1, <1>4, <2>1, OthersRest
  <2>3. ~Locking(p) /\ ~TxH(p) /\ ~MineBody(p) /\ ~SnapBody(p) /\ ~VerifyBody(p)
    <3>1. p \notin Mines \cup Snapshots \cup Verifies \cup Submits
      BY RequestsAssumption
    <3>2. ~Locking(p) /\ ~TxH(p)
      BY <3>1 DEF Locking, MineLock, SnapLock, VerifyLock, TxH, TxAdd, TxAudit
    <3>3. ~MineBody(p)
      BY <1>1, <3>1, MineAt DEF MineBody, MineList, MineLatest, MineApply, MineBuild,
           MinePut, MineRemove, MineCount, MineAudit, At
    <3>4. ~SnapBody(p)
      BY <1>1, <3>1, SnapAt DEF SnapBody, SnapHeight, SnapRoot, SnapData, SnapPut,
           SnapVersion, SnapAudit, At
    <3>5. ~VerifyBody(p)
      BY <1>1, <3>1, VerifyAt DEF VerifyBody, VerifyGet, VerifyCompare, VerifyPut, At
    <3> QED
      BY <3>2, <3>3, <3>4, <3>5
  <2> QED
    BY <2>1, <2>2, <2>3 DEF Step
<1> QED
  BY <1>1, <1>2, <1>3, <1>4, ProofBodyHolds

\* A proof during which no transaction was applied is of a stored block:
\* its root is in that block's header, its value and siblings are of that
\* block's state, and Verify accepts it exactly if it has a sibling, although
\* Build reads the state three times without opMu (node.go:210-213,
\* proof.go:16-46).
THEOREM ProofsAreCoherent == NodeSpec => []ProofCoherent
<1>1. NodeInit => ProofInv
  BY DEF NodeInit, ProofInv, ProofHolds, Requests
<1>2. Control /\ ChainInv /\ ChainInv' /\ ProofInv /\ [NodeNext]_NodeVars => ProofInv'
  BY ProofNext
<1>3. ChainInv /\ ProofInv => ProofCoherent
  <2> SUFFICES ASSUME ChainInv, ProofInv, NEW r \in ProofReads, At(r, "done"),
                      "item" \in DOMAIN req[r], req[r].calm
               PROVE  LET item == req[r].item
                      IN /\ \E h \in DOMAIN blocks :
                              /\ item.Root = blocks[h].Header.StateRoot
                              /\ item.Key \in DOMAIN StateAt(h)
                              /\ item.Value = StateAt(h)[item.Key]
                              /\ {item.Path[i] : i \in 1..Len(item.Path)} =
                                   {ItemLeaf(k, StateAt(h)[k]) :
                                      k \in DOMAIN StateAt(h) \ {item.Key}}
                         /\ VerifyItem(item) <=> item.Path # <<>>
    BY DEF ProofCoherent
  <2> DEFINE item == req[r].item
  <2>1. Proven(item)
    BY DEF ProofInv, ProofHolds, At
  <2> HIDE DEF item
  <2>2. PICK h \in 1..Height :
          /\ item.Root = Root(StateAt(h))
          /\ ReadFrom(item, StateAt(h))
          /\ item.Path = Siblings(item.Key, StateAt(h))
    BY <2>1 DEF Proven
  <2>3. h \in DOMAIN blocks /\ blocks[h].Header.StateRoot = Root(StateAt(h))
    BY DEF ChainInv, ChainOK
  <2>4. PICK d : d = StateAt(h)
    OBVIOUS
  <2>5. DOMAIN d \subseteq Keys /\ item.Key \in DOMAIN d /\ item.Value = d[item.Key]
    BY <2>2, <2>4, StateKeys DEF ReadFrom
  <2>6. /\ {item.Path[i] : i \in 1..Len(item.Path)} =
             {ItemLeaf(k, d[k]) : k \in DOMAIN d \ {item.Key}}
        /\ item.Path = <<>> => ItemLeaf(item.Key, item.Value) # item.Root
    <3>1. PICK k : k = item.Key
      OBVIOUS
    <3>2. k \in DOMAIN d /\ DOMAIN d \subseteq Keys
      BY <2>5, <3>1
    <3>3. /\ {Siblings(k, d)[i] : i \in 1..Len(Siblings(k, d))}
               = {ItemLeaf(x, d[x]) : x \in DOMAIN d \ {k}}
          /\ Siblings(k, d) = <<>> => ItemLeaf(k, d[k]) # Root(d)
      BY <3>2, SiblingsAre
    <3>4. item.Path = Siblings(k, d) /\ item.Root = Root(d) /\ item.Value = d[k]
      BY <2>2, <2>4, <2>5, <3>1
    <3> QED
      BY <3>1, <3>3, <3>4, ZenonT(60)
  <2>7. VerifyItem(item) <=> item.Path # <<>>
    BY <2>5, <2>6, KeyOrderAssumption DEF VerifyItem
  <2>8. \E g \in DOMAIN blocks :
          /\ item.Root = blocks[g].Header.StateRoot
          /\ item.Key \in DOMAIN StateAt(g)
          /\ item.Value = StateAt(g)[item.Key]
          /\ {item.Path[i] : i \in 1..Len(item.Path)} =
               {ItemLeaf(k, StateAt(g)[k]) : k \in DOMAIN StateAt(g) \ {item.Key}}
    BY <2>2, <2>3, <2>4, <2>5, <2>6, ZenonT(60)
  <2> QED
    BY <2>7, <2>8 DEF item
<1> QED
  BY <1>1, <1>2, <1>3, ControlInvariant, ChainInvariant, PTL DEF NodeSpec
-----------------------------------------------------------------------------
(* A chain that is cut and grown again.                                     *)

\* How many blocks from height from on Range has found when it is past h.
Found(from, h) ==
    IF h < Height THEN h - from + 1
    ELSE IF from <= Height THEN Height - from + 1 ELSE 0

\* They are the blocks of these heights.
Part(from, h) == [i \in 1..Found(from, h) |-> blocks[from + i - 1]]

LEMMA RangeIs ==
    ASSUME Linked, NEW from \in Nat, from # 0, NEW to \in Nat
    PROVE  RepoRange(from, to) = IF from <= to THEN Part(from, to) ELSE <<>>
<1> SUFFICES ASSUME from <= to PROVE RepoRange(from, to) = Part(from, to)
  BY DEF RepoRange
<1> DEFINE D == (from - 1)..to
           P(f) == f = [h \in D |->
                          IF h = from - 1 THEN <<>>
                          ELSE IF h \in DOMAIN blocks THEN Append(f[h-1], blocks[h])
                          ELSE f[h-1]]
           c == CHOOSE f : P(f)
           g == [h \in D |-> Part(from, h)]
<1>1. PICK n \in Nat : n = Height /\ DOMAIN blocks = 1..n
  BY DEF Linked
<1>2. Part(from, from - 1) = <<>>
  <2>1. Found(from, from - 1) = 0
    BY <1>1 DEF Found
  <2> QED
    BY <2>1 DEF Part
<1>3. ASSUME NEW h \in from..to
      PROVE  Part(from, h) = IF h \in DOMAIN blocks THEN Append(Part(from, h-1), blocks[h])
                             ELSE Part(from, h-1)
  <2>1. CASE h \in DOMAIN blocks
    <3>1. PICK k \in Nat : k = h - from
      OBVIOUS
    <3>2. Found(from, h) = k + 1 /\ Found(from, h-1) = k
      BY <1>1, <2>1, <3>1 DEF Found
    <3> DEFINE s == [i \in 1..k |-> blocks[from + i - 1]]
               t == [i \in 1..(k+1) |-> blocks[from + i - 1]]
    <3>3. s \in Seq({blocks[x] : x \in Nat}) /\ Len(s) = k
      BY <3>1
    <3>4. blocks[from + (k + 1) - 1] = blocks[h]
      BY <3>1
    <3>5. t = Append(s, blocks[h])
      BY <3>1, <3>3, <3>4
    <3> QED
      BY <2>1, <3>2, <3>5 DEF Part
  <2>2. CASE h \notin DOMAIN blocks
    <3>1. Found(from, h) = Found(from, h-1)
      BY <1>1, <2>2 DEF Found
    <3> QED
      BY <2>2, <3>1 DEF Part
  <2> QED
    BY <2>1, <2>2
<1>4. \A h \in D : h = from - 1 \/ (h \in from..to /\ h - 1 \in D)
  OBVIOUS
<1>5. P(g)
  <2> HIDE DEF D
  <2> QED
    BY <1>2, <1>3, <1>4
<1>6. P(c)
  <2> HIDE DEF P, g
  <2> QED
    BY <1>5
<1>7. RepoRange(from, to) = c[to]
  BY DEF RepoRange
<1> HIDE DEF c
<1>8. \A h \in D : c[h] = Part(from, h)
  <2> SUFFICES ASSUME NEW b \in D, c[b] # Part(from, b) PROVE FALSE
    OBVIOUS
  <2> DEFINE W == {h \in D : c[h] # Part(from, h)}
  <2>1. PICK m \in W : \A x \in W : m <= x
    <3>1. W \in SUBSET Nat /\ W # {}
      OBVIOUS
    <3> HIDE DEF W
    <3> QED
      BY <3>1, Least
  <2>2. c[from - 1] = <<>>
    BY <1>6
  <2>3. m # from - 1
    BY <1>2, <2>1, <2>2
  <2>4. m \in from..to /\ m - 1 \in D /\ ~(m <= m - 1)
    BY <1>4, <2>3
  <2>5. m - 1 \notin W
    <3> HIDE DEF W
    <3> QED
      BY <2>1, <2>4
  <2>6. c[m-1] = Part(from, m-1)
    BY <2>4, <2>5
  <2>7. c[m] = IF m \in DOMAIN blocks THEN Append(c[m-1], blocks[m]) ELSE c[m-1]
    BY <1>6, <2>3, <2>1
  <2> QED
    BY <1>3, <2>1, <2>4, <2>6, <2>7
<1>9. to \in D
  OBVIOUS
<1> QED
  BY <1>7, <1>8, <1>9

\* Growing the chain keeps it linked.
LEMMA GrowLinks == ASSUME Linked, NEW txs \in BlockTxs, Grow(txs) PROVE Linked'
<1> DEFINE hd == Header(Latest.Header.Height + 1, Latest.Hash, NoHash, MerkleRoot(txs), 0)
           b == [Header |-> hd, Transactions |-> txs, Hash |-> HeaderHash(hd)]
<1>1. PICK n \in Nat : n = Height /\ DOMAIN blocks = 1..n
  BY DEF Linked
<1>2. /\ Latest.Header.Height = n
      /\ n > 0 => Latest = blocks[n]
  BY <1>1, LatestLinked
<1>3. /\ b.Header.Height = n + 1 /\ b.Header.PrevHash = Latest.Hash
      /\ b.Header.TxRoot = MerkleRoot(b.Transactions)
      /\ b.Hash # NoHash
  BY <1>2 DEF Header, HeaderHash, SHA256, NoHash
<1>4. PutBlock(b)
  BY DEF Grow
<1> HIDE DEF b
<1>5. blocks' = MapPut(blocks, n + 1, b)
  BY <1>1, <1>3, <1>4 DEF PutBlock, HeightFree
<1>6. /\ DOMAIN blocks' = 1..(n + 1)
      /\ blocks' = [h \in 1..(n + 1) |-> blocks'[h]]
      /\ blocks'[n + 1] = b
      /\ \A h \in 1..n : blocks'[h] = blocks[h]
  BY <1>1, <1>5 DEF MapPut
<1>7. Height' = n + 1
  <2>1. Cardinality(1..(n + 1)) = n + 1
    BY FS_Interval
  <2> QED
    BY <1>6, <2>1 DEF Height
<1>8. ASSUME NEW h \in 1..(n + 1)
      PROVE  /\ blocks'[h].Header.Height = h
             /\ h > 1 => blocks'[h].Header.PrevHash = blocks'[h-1].Hash
             /\ blocks'[h].Header.TxRoot = MerkleRoot(blocks'[h].Transactions)
             /\ blocks'[h].Hash # NoHash
  <2>1. CASE h = n + 1
    <3>1. h > 1 => n > 0 /\ n \in 1..n /\ h - 1 = n
      BY <2>1
    <3> QED
      BY <1>2, <1>3, <1>6, <2>1, <3>1
  <2>2. CASE h # n + 1
    <3>1. h \in 1..n /\ (h > 1 => h - 1 \in 1..n)
      BY <2>2
    <3>2. /\ blocks[h].Header.Height = h
          /\ h > 1 => blocks[h].Header.PrevHash = blocks[h-1].Hash
          /\ blocks[h].Header.TxRoot = MerkleRoot(blocks[h].Transactions)
          /\ blocks[h].Hash # NoHash
      BY <1>1, <3>1 DEF Linked
    <3> QED
      BY <1>6, <3>1, <3>2
  <2> QED
    BY <2>1, <2>2
<1>9. n + 1 \in Nat
  OBVIOUS
<1> QED
  BY <1>6, <1>7, <1>8, <1>9 DEF Linked

\* Cutting it at a height it has, too.
LEMMA CutLinks == ASSUME Linked, NEW t \in Nat, RollBack(t) PROVE Linked'
<1>1. PICK n \in Nat : n = Height /\ DOMAIN blocks = 1..n
  BY DEF Linked
<1>2. t < n
  BY <1>1, LatestLinked DEF RollBack, ValidPlan
<1>3. blocks' = MapDelete(blocks, {x \in DOMAIN blocks : x > t})
  BY DEF RollBack, DeleteAbove
<1>4. DOMAIN blocks \ {x \in DOMAIN blocks : x > t} = 1..t
  BY <1>1, <1>2
<1>5. blocks' = [h \in 1..t |-> blocks[h]]
  BY <1>3, <1>4 DEF MapDelete
<1>6. Height' = t
  <2>1. Cardinality(1..t) = t
    BY FS_Interval
  <2> QED
    BY <1>5, <2>1 DEF Height
<1>7. \A h \in 1..t : h \in 1..n /\ (h > 1 => h - 1 \in 1..t)
  BY <1>2
<1>8. \A h \in 1..t :
        /\ blocks'[h].Header.Height = h
        /\ h > 1 => blocks'[h].Header.PrevHash = blocks'[h-1].Hash
        /\ blocks'[h].Header.TxRoot = MerkleRoot(blocks'[h].Transactions)
        /\ blocks'[h].Hash # NoHash
  BY <1>1, <1>5, <1>7 DEF Linked
<1>9. blocks' = [h \in 1..t |-> blocks'[h]]
  BY <1>5
<1> QED
  BY <1>6, <1>8, <1>9 DEF Linked

\* However often the chain is cut and grown again, VerifyChain accepts it, its
\* heights have no gap, and a Range of it is linked and ends at Latest
\* (retention.go:9-46, repo.go:18-43).
THEOREM RollbacksKeepChain == RollbackSpec => []RollbackKeepsChain
<1>1. RepoInit => Linked
  <2> SUFFICES ASSUME RepoInit PROVE Linked
    OBVIOUS
  <2>1. blocks = [h \in {} |-> h] /\ DOMAIN blocks = {}
    BY DEF RepoInit, EmptyMap
  <2>2. Height = 0 /\ 1..0 = {}
    BY <2>1, FS_EmptySet DEF Height
  <2> QED
    BY <2>1, <2>2 DEF Linked
<1>2. Linked /\ [RollbackNext]_<<blocks, snaps>> => Linked'
  <2>1. Linked /\ blocks' = blocks => Linked'
    BY DEF Linked, Height
  <2>2. 0..MaxChain \subseteq Nat
    BY ChainBoundAssumption
  <2> QED
    BY <2>1, <2>2, GrowLinks, CutLinks DEF RollbackNext
<1>3. ASSUME Linked PROVE RollbackKeepsChain
  <2>1. PICK n \in Nat : n = Height /\ DOMAIN blocks = 1..n
    BY <1>3 DEF Linked
  <2>2. Latest.Header.Height = n /\ (n > 0 => Latest = blocks[n])
    BY <1>3, <2>1, LatestLinked
  <2>3. ASSUME NEW from \in 1..MaxChain, NEW to \in 1..MaxChain
        PROVE  LET part == RepoRange(from, to)
               IN /\ \A i \in 1..(Len(part) - 1) : part[i+1].Header.PrevHash = part[i].Hash
                  /\ (part # <<>> /\ to >= Latest.Header.Height) => part[Len(part)] = Latest
    <3>1. from \in Nat /\ from # 0 /\ to \in Nat
      BY ChainBoundAssumption
    <3>2. PICK part : part = RepoRange(from, to)
      OBVIOUS
    <3>3. CASE from <= to
      <4>1. part = Part(from, to)
        BY <1>3, <3>1, <3>2, <3>3, RangeIs
      <4>2. PICK k \in Nat : k = Found(from, to) /\ (k # 0 => from + k - 1 <= n)
        <5>1. Found(from, to) = IF to < n THEN to - from + 1
                                ELSE IF from <= n THEN n - from + 1 ELSE 0
          BY <2>1 DEF Found
        <5>2. /\ Found(from, to) \in Nat
              /\ Found(from, to) # 0 => from + Found(from, to) - 1 <= n
          BY <3>1, <3>3, <5>1
        <5> QED
          BY <5>2
      <4>3. part = [i \in 1..k |-> blocks[from + i - 1]]
        BY <4>1, <4>2 DEF Part
      <4>4. Len(part) = k
        BY <4>3
      <4>5. \A i \in 1..(k - 1) : part[i+1].Header.PrevHash = part[i].Hash
        <5>1. \A i \in 1..(k - 1) : /\ from + i \in 1..n /\ from + i > 1
                                    /\ i \in 1..k /\ i + 1 \in 1..k
                                    /\ from + (i + 1) - 1 = from + i
                                    /\ (from + i) - 1 = from + i - 1
          BY <3>1, <4>2
        <5>2. \A h \in 1..n : h > 1 => blocks[h].Header.PrevHash = blocks[h-1].Hash
          BY <1>3, <2>1 DEF Linked
        <5> QED
          BY <4>3, <5>1, <5>2
      <4>6. (part # <<>> /\ to >= n) => part[k] = Latest
        <5> SUFFICES ASSUME part # <<>>, to >= n PROVE part[k] = Latest
          OBVIOUS
        <5>1. k # 0
          BY <4>3
        <5>2. k = n - from + 1 /\ n > 0
          BY <2>1, <3>1, <4>2, <5>1 DEF Found
        <5>3. from + k - 1 = n /\ k \in 1..k
          BY <3>1, <5>1, <5>2
        <5> QED
          BY <2>2, <4>3, <5>2, <5>3
      <4> QED
        BY <2>2, <3>2, <4>4, <4>5, <4>6
    <3>4. CASE ~(from <= to)
      <4>1. part = <<>>
        BY <1>3, <3>1, <3>2, <3>4, RangeIs
      <4> QED
        BY <3>2, <4>1
    <3> QED
      BY <3>1, <3>3, <3>4
  <2> QED
    BY <1>3, <2>1, <2>2, <2>3, LinkedVerifies DEF RollbackKeepsChain
<1> QED
  BY <1>1, <1>2, <1>3, PTL DEF RollbackSpec
=============================================================================
