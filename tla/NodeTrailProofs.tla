-------------------------- MODULE NodeTrailProofs --------------------------
(***************************************************************************)
(* Proofs about what app.Node leaves behind: the audit trail of the        *)
(* commits, the counter of blocks, and what becomes of the transactions it *)
(* admits.  They rest on the invariants of ChainNodeProofs.                *)
(***************************************************************************)
EXTENDS ChainNodeProofs

-----------------------------------------------------------------------------
(* The steps, as the trail sees them.                                       *)

\* A step of a request to mine, or one that leaves all of them where they are.
LEMMA MinerSteps ==
    ASSUME Section, [NodeNext]_NodeVars
    PROVE  \/ \E r \in Mines : MineLock(r) \/ MineBody(r)
           \/ /\ \A p \in Mines : req'[p] = req[p]
              /\ UNCHANGED <<blocks, data>>
              /\ \/ \E r \in Submits : TxAdd(r) \/ TxAudit(r)
                 \/ \E r \in Snapshots : SnapAudit(r)
                 \/ UNCHANGED <<tx, byAcct, auditLog, metrics>>
                    /\ \A p \in Submits : req'[p] = req[p]
<1>1. Mines \subseteq Requests /\ Submits \subseteq Requests
  BY DEF Requests
<1>2. ASSUME NEW r \in Requests, MineLock(r) \/ MineBody(r) PROVE r \in Mines
  BY <1>2, MineAt DEF MineLock, MineBody, MineList, MineLatest, MineApply, MineBuild,
                      MinePut, MineRemove, MineCount, MineAudit, At
<1>3. ASSUME NEW r \in Requests, TxH(r)
      PROVE  /\ r \in Submits
             /\ \A p \in Mines : req'[p] = req[p]
             /\ UNCHANGED <<blocks, data>>
  <2>1. r \in Submits /\ UNCHANGED <<blocks, data>>
    BY <1>3 DEF TxH, TxAdd, TxAudit, Components
  <2> QED
    BY <1>1, <1>3, <2>1, OtherFrames, RequestsAssumption DEF Step
<1>4. ASSUME NEW r \in Requests,
             SnapBody(r) \/ VerifyBody(r) \/ ProofBody(r) \/ SnapLock(r) \/ VerifyLock(r)
      PROVE  /\ r \notin Mines /\ r \notin Submits
             /\ \A p \in Mines \cup Submits : req'[p] = req[p]
             /\ UNCHANGED <<blocks, data, tx, byAcct, metrics>>
             /\ UNCHANGED auditLog \/ (r \in Snapshots /\ SnapAudit(r))
  <2>1. r \in Snapshots \cup Verifies \cup ProofReads
    BY <1>4, SnapAt, VerifyAt, ProofSteps
       DEF SnapBody, SnapHeight, SnapRoot, SnapData, SnapPut, SnapVersion, SnapAudit,
           VerifyBody, VerifyGet, VerifyCompare, VerifyPut, SnapLock, VerifyLock, At
  <2>2. r \notin Mines /\ r \notin Submits
    BY <2>1, RequestsAssumption
  <2>3. \A p \in Mines \cup Submits : req'[p] = req[p]
    BY <1>1, <1>4, <2>2, OtherFrames, RequestsAssumption DEF Step, Locking
  <2>4. UNCHANGED <<blocks, data, tx, byAcct, metrics>>
    BY <1>4 DEF SnapBody, SnapHeight, SnapRoot, SnapData, SnapPut, SnapVersion, SnapAudit,
           VerifyBody, VerifyGet, VerifyCompare, VerifyPut, SnapLock, VerifyLock,
           ProofBody, ProofGet, ProofData, ProofRoot, Components
  <2>5. UNCHANGED auditLog \/ SnapAudit(r)
    BY <1>4 DEF SnapBody, SnapHeight, SnapRoot, SnapData, SnapPut, SnapVersion,
           VerifyBody, VerifyGet, VerifyCompare, VerifyPut, SnapLock, VerifyLock,
           ProofBody, ProofGet, ProofData, ProofRoot
  <2>6. SnapAudit(r) => r \in Snapshots
    BY SnapAt DEF SnapAudit, At
  <2> QED
    BY <2>2, <2>3, <2>4, <2>5, <2>6
<1>5. ASSUME Clock \/ UNCHANGED NodeVars
      PROVE  UNCHANGED <<req, blocks, data, tx, byAcct, auditLog, metrics>>
  BY <1>5 DEF Clock, Tick, NodeVars, Components
<1> QED
  BY <1>2, <1>3, <1>4, <1>5 DEF NodeNext, Quiet, Step, Locking, TxH
-----------------------------------------------------------------------------
(* The audit trail.                                                         *)

Events == [Action : {"tx.accept", "block.commit", "snapshot.create"},
           Detail : TxIDs \cup Nat]

\* The requests that stored a block, and whether one has yet to record it.
Committed == {r \in Mines : req[r].pc \in {"remove", "count", "commit", "done"}}
Unrecorded == {r \in Mines : req[r].pc \in {"remove", "count", "commit"}}
Uncounted == {r \in Mines : req[r].pc \in {"remove", "count"}}

Recorded == Cardinality(CommitRecords(Len(auditLog)))

TrailInv ==
    /\ auditLog \in Seq(Events)
    /\ metrics = [Blocks |-> metrics.Blocks, Errors |-> metrics.Errors]
    /\ IsFiniteSet(Committed) /\ Height = Cardinality(Committed)
    /\ Height = IF Unrecorded = {} THEN Recorded ELSE Recorded + 1
    /\ metrics.Blocks = IF Uncounted = {} THEN Height ELSE Recorded
    /\ \A i \in CommitRecords(Len(auditLog)) :
         auditLog[i].Detail = Cardinality(CommitRecords(i))

LEMMA RecordedType ==
    ASSUME auditLog \in Seq(Events)
    PROVE  IsFiniteSet(CommitRecords(Len(auditLog))) /\ Recorded \in Nat
<1>1. Len(auditLog) \in Nat
  OBVIOUS
<1>2. IsFiniteSet(1..Len(auditLog))
  BY <1>1, FS_Interval
<1>3. CommitRecords(Len(auditLog)) \subseteq 1..Len(auditLog)
  BY DEF CommitRecords
<1>4. IsFiniteSet(CommitRecords(Len(auditLog)))
  BY <1>2, <1>3, FS_Subset
<1> QED
  BY <1>4, FS_CardinalityType DEF Recorded

\* A record appended to the log.
LEMMA AppendRecord ==
    ASSUME auditLog \in Seq(Events), NEW e \in Events, auditLog' = Append(auditLog, e)
    PROVE  /\ auditLog' \in Seq(Events)
           /\ Len(auditLog') = Len(auditLog) + 1
           /\ \A i \in 1..Len(auditLog) :
                auditLog'[i] = auditLog[i] /\ CommitRecords(i)' = CommitRecords(i)
           /\ auditLog'[Len(auditLog) + 1] = e
           /\ e.Action # "block.commit" =>
                /\ CommitRecords(Len(auditLog))' = CommitRecords(Len(auditLog))
                /\ Recorded' = Recorded
           /\ e.Action = "block.commit" =>
                /\ CommitRecords(Len(auditLog))'
                     = CommitRecords(Len(auditLog)) \cup {Len(auditLog) + 1}
                /\ Recorded' = Recorded + 1
<1> DEFINE k == Len(auditLog)
           R == CommitRecords(k)
<1>1. /\ auditLog' \in Seq(Events) /\ Len(auditLog') = k + 1 /\ k \in Nat
      /\ \A i \in 1..k : auditLog'[i] = auditLog[i]
      /\ auditLog'[k + 1] = e
  OBVIOUS
<1>2. ASSUME NEW i \in 1..k PROVE CommitRecords(i)' = CommitRecords(i)
  <2>1. \A j \in 1..i : j \in 1..k
    BY <1>1
  <2> QED
    BY <1>1, <2>1 DEF CommitRecords
<1>3. CommitRecords(Len(auditLog))' = {i \in 1..(k + 1) : auditLog'[i].Action = "block.commit"}
  BY <1>1 DEF CommitRecords
<1>4. R = {i \in 1..k : auditLog[i].Action = "block.commit"}
  BY DEF CommitRecords
<1>5. IsFiniteSet(R) /\ Recorded = Cardinality(R)
  BY RecordedType DEF Recorded
<1>6. Recorded' = Cardinality(CommitRecords(Len(auditLog))')
  BY DEF Recorded
<1> HIDE DEF k, R
<1>7. ASSUME e.Action # "block.commit"
      PROVE  CommitRecords(Len(auditLog))' = R
  BY <1>1, <1>3, <1>4, <1>7
<1>8. ASSUME e.Action = "block.commit"
      PROVE  CommitRecords(Len(auditLog))' = R \cup {k + 1}
  BY <1>1, <1>3, <1>4, <1>8
<1>9. Cardinality(R \cup {k + 1}) = Cardinality(R) + 1
  <2>1. k + 1 \notin R
    BY <1>1, <1>4
  <2> QED
    BY <1>5, <2>1, FS_AddElement
<1> QED
  BY <1>1, <1>2, <1>5, <1>6, <1>7, <1>8, <1>9 DEF k, R

\* While r holds opMu, the sets above depend on r alone.
LEMMA TrailSets ==
    ASSUME Section, NEW r \in Mines, opMu = r,
           \A p \in Mines \ {r} : req'[p] = req[p]
    PROVE  /\ Unrecorded = IF req[r].pc \in {"remove", "count", "commit"} THEN {r} ELSE {}
           /\ Uncounted = IF req[r].pc \in {"remove", "count"} THEN {r} ELSE {}
           /\ Unrecorded' = IF req'[r].pc \in {"remove", "count", "commit"} THEN {r} ELSE {}
           /\ Uncounted' = IF req'[r].pc \in {"remove", "count"} THEN {r} ELSE {}
           /\ Committed \ {r} = Committed' \ {r}
<1>1. r \in Requests
  BY DEF Requests
<1>2. \A p \in Mines \ {r} : req[p].pc \in {"start", "done"}
  BY <1>1, OthersWait
<1> QED
  BY <1>2 DEF Unrecorded, Uncounted, Committed

\* Steps that leave the log, the counter and the chain alone.
LEMMA QuietTrail ==
    ASSUME TrailInv, UNCHANGED <<auditLog, metrics, blocks>>,
           Unrecorded' = Unrecorded, Uncounted' = Uncounted, Committed' = Committed
    PROVE  TrailInv'
BY DEF TrailInv, Recorded, CommitRecords, Height

LEMMA MineTrail ==
    ASSUME Section, ChainInv, TrailInv, NEW r \in Mines, MineBody(r)
    PROVE  TrailInv'
<1>1. r \in Requests
  BY DEF Requests
<1>2. req[r].pc \in {"list", "latest", "apply", "put", "remove", "count", "commit"}
  BY DEF MineBody, MineList, MineLatest, MineApply, MineBuild, MinePut, MineRemove,
         MineCount, MineAudit, At
<1>3. opMu = r
  BY <1>1, <1>2, MineAt
<1>4. \A p \in Mines \ {r} : req'[p] = req[p]
  BY <1>1, OtherFrames, RequestsAssumption DEF Requests, Step
<1>5. /\ Unrecorded = IF req[r].pc \in {"remove", "count", "commit"} THEN {r} ELSE {}
      /\ Uncounted = IF req[r].pc \in {"remove", "count"} THEN {r} ELSE {}
      /\ Unrecorded' = IF req'[r].pc \in {"remove", "count", "commit"} THEN {r} ELSE {}
      /\ Uncounted' = IF req'[r].pc \in {"remove", "count"} THEN {r} ELSE {}
      /\ Committed \ {r} = Committed' \ {r}
  BY <1>3, <1>4, TrailSets
<1>6. /\ r \in Committed <=> req[r].pc \in {"remove", "count", "commit", "done"}
      /\ r \in Committed' <=> req'[r].pc \in {"remove", "count", "commit", "done"}
  BY DEF Committed
<1>7. /\ auditLog \in Seq(Events) /\ Recorded \in Nat
      /\ metrics = [Blocks |-> metrics.Blocks, Errors |-> metrics.Errors]
      /\ IsFiniteSet(Committed) /\ Height = Cardinality(Committed)
      /\ Height = IF Unrecorded = {} THEN Recorded ELSE Recorded + 1
      /\ metrics.Blocks = IF Uncounted = {} THEN Height ELSE Recorded
      /\ \A i \in CommitRecords(Len(auditLog)) :
           auditLog[i].Detail = Cardinality(CommitRecords(i))
  BY RecordedType DEF TrailInv
<1>8. ASSUME UNCHANGED <<auditLog, metrics, blocks>>,
             \/ /\ req[r].pc \notin {"remove", "count", "commit", "done"}
                /\ req'[r].pc \notin {"remove", "count", "commit", "done"}
             \/ /\ req[r].pc \in {"remove", "count"}
                /\ req'[r].pc \in {"remove", "count"}
      PROVE  TrailInv'
  <2>1. Unrecorded' = Unrecorded /\ Uncounted' = Uncounted
    BY <1>5, <1>8
  <2>2. Committed' = Committed
    BY <1>5, <1>6, <1>8
  <2> QED
    BY <1>8, <2>1, <2>2, QuietTrail
<1>9. CASE MineList(r)
  <2>1. PICK txs : Goto(r, [pc |-> "latest", txs |-> txs])
    BY <1>9 DEF MineList
  <2>2. req[r].pc = "list" /\ req'[r].pc = "latest"
    BY <1>1, <1>9, <2>1, GotoStep DEF MineList, At
  <2> QED
    BY <1>8, <1>9, <2>2 DEF MineList, Components
<1>10. CASE MineLatest(r)
  <2>1. req[r].pc = "latest" /\ req'[r].pc = "apply"
    BY <1>1, <1>10, GotoStep DEF MineLatest, At
  <2> QED
    BY <1>8, <1>10, <2>1 DEF MineLatest, Components
<1>11. CASE MineApply(r)
  <2>1. req[r].pc = "apply" /\ req'[r].pc = "apply"
    BY <1>1, <1>11, ApplyStep, ZenonT(60) DEF MineApply, At
  <2> QED
    BY <1>8, <1>11, <2>1 DEF MineApply
<1>12. CASE MineBuild(r)
  <2>1. req[r].pc = "apply" /\ req'[r].pc = "put"
    BY <1>1, <1>12, GotoStep DEF MineBuild, At
  <2> QED
    BY <1>8, <1>12, <2>1 DEF MineBuild, Components
<1>13. CASE MinePut(r)
  <2>1. /\ req[r].pc = "put" /\ Follows(req[r].block)
        /\ blocks' = MapPut(blocks, Height + 1, req[r].block)
        /\ Goto(r, [pc |-> "remove", block |-> req[r].block])
    BY <1>1, <1>13, NeverRefused
  <2>2. req'[r].pc = "remove"
    BY <1>1, <2>1, GotoStep
  <2>3. Height' = Height + 1
    BY <2>1, AppendBlock DEF ChainInv
  <2>4. Committed' = Committed \cup {r} /\ r \notin Committed
    BY <1>5, <1>6, <2>1, <2>2 DEF Committed
  <2>5. IsFiniteSet(Committed') /\ Cardinality(Committed') = Cardinality(Committed) + 1
    BY <1>7, <2>4, FS_AddElement
  <2>6. UNCHANGED <<auditLog, metrics>>
    BY <1>13 DEF MinePut
  <2>7. /\ Unrecorded = {} /\ Uncounted = {} /\ Unrecorded' = {r} /\ Uncounted' = {r}
    BY <1>5, <2>1, <2>2
  <2>8. /\ Recorded' = Recorded
        /\ \A i \in CommitRecords(Len(auditLog))' :
             auditLog'[i].Detail = Cardinality(CommitRecords(i))'
    BY <1>7, <2>6 DEF Recorded, CommitRecords
  <2> QED
    BY <1>7, <2>3, <2>5, <2>6, <2>7, <2>8 DEF TrailInv
<1>14. CASE MineRemove(r)
  <2>1. req[r].pc = "remove" /\ Goto(r, [pc |-> "count", block |-> req[r].block])
    BY <1>1, <1>14, MineMovesOn DEF MineRemove, At
  <2>2. req'[r].pc = "count"
    BY <1>1, <2>1, GotoStep
  <2> QED
    BY <1>8, <1>14, <2>1, <2>2 DEF MineRemove
<1>15. CASE MineCount(r)
  <2>1. req[r].pc = "count" /\ Goto(r, [pc |-> "commit", block |-> req[r].block])
    BY <1>1, <1>15, MineMovesOn DEF MineCount, At
  <2>2. req'[r].pc = "commit"
    BY <1>1, <2>1, GotoStep
  <2>3. /\ UNCHANGED <<auditLog, blocks>>
        /\ metrics' = [metrics EXCEPT !.Blocks = @ + 1]
    BY <1>15 DEF MineCount, Components
  <2>4. metrics' = [Blocks |-> metrics.Blocks + 1, Errors |-> metrics.Errors]
    BY <1>7, <2>3
  <2>5. Committed' = Committed
    <3>1. r \in Committed /\ r \in Committed'
      BY <1>6, <2>1, <2>2
    <3> QED
      BY <1>5, <3>1
  <2>6. /\ Unrecorded = {r} /\ Uncounted = {r} /\ Unrecorded' = {r} /\ Uncounted' = {}
    BY <1>5, <2>1, <2>2
  <2>7. /\ Recorded' = Recorded /\ Height' = Height
        /\ \A i \in CommitRecords(Len(auditLog))' :
             auditLog'[i].Detail = Cardinality(CommitRecords(i))'
    BY <1>7, <2>3 DEF Recorded, CommitRecords, Height
  <2> QED
    BY <1>7, <2>3, <2>4, <2>5, <2>6, <2>7 DEF TrailInv
<1>16. CASE MineAudit(r)
  <2> DEFINE b == req[r].block
             e == [Action |-> "block.commit", Detail |-> b.Header.Height]
             k == Len(auditLog)
  <2>1. /\ req[r].pc = "commit" /\ UNCHANGED <<metrics, blocks>>
        /\ auditLog' = Append(auditLog, e) /\ Goto(r, [pc |-> "done", code |-> 201])
    BY <1>16 DEF MineAudit, At, AppendAudit, Return, Components
  <2>2. req'[r].pc = "done"
    BY <1>1, <2>1, GotoStep
  <2>3. b = blocks[Height] /\ Height > 0
    BY <2>1 DEF ChainInv, MineLocals
  <2>4. b.Header.Height = Height /\ Height \in Nat
    BY <2>3 DEF ChainInv, ChainOK
  <2>5. Committed' = Committed
    <3>1. r \in Committed /\ r \in Committed'
      BY <1>6, <2>1, <2>2
    <3> QED
      BY <1>5, <3>1
  <2>6. /\ Unrecorded = {r} /\ Uncounted = {} /\ Unrecorded' = {} /\ Uncounted' = {}
    BY <1>5, <2>1, <2>2
  <2>7. Height' = Height
    BY <2>1 DEF Height
  <2>8. e \in Events /\ e.Action = "block.commit" /\ e.Detail = Height
    BY <2>4 DEF Events
  <2> HIDE DEF e
  <2>9. /\ auditLog' \in Seq(Events) /\ Len(auditLog') = k + 1
        /\ \A i \in 1..k :
             auditLog'[i] = auditLog[i] /\ CommitRecords(i)' = CommitRecords(i)
        /\ auditLog'[k + 1] = e
        /\ CommitRecords(Len(auditLog))' = CommitRecords(k) \cup {k + 1}
        /\ Recorded' = Recorded + 1
    BY <1>7, <2>1, <2>8, AppendRecord
  <2>10. ASSUME NEW i \in CommitRecords(Len(auditLog))'
         PROVE  auditLog'[i].Detail = Cardinality(CommitRecords(i))'
    <3>1. CASE i \in CommitRecords(k)
      <4>1. i \in 1..k
        BY <3>1 DEF CommitRecords
      <4> QED
        BY <1>7, <2>9, <3>1, <4>1
    <3>2. CASE i = k + 1
      <4>1. CommitRecords(i)' = CommitRecords(Len(auditLog))'
        BY <2>9, <3>2 DEF CommitRecords
      <4>2. Cardinality(CommitRecords(i))' = Recorded'
        BY <4>1 DEF Recorded
      <4> QED
        BY <1>7, <2>6, <2>8, <2>9, <3>2, <4>2
    <3> QED
      BY <2>9, <3>1, <3>2
  <2> QED
    BY <1>7, <2>1, <2>5, <2>6, <2>7, <2>9, <2>10 DEF TrailInv
<1> QED
  BY <1>9, <1>10, <1>11, <1>12, <1>13, <1>14, <1>15, <1>16 DEF MineBody

\* The steps of the other requests.
LEMMA OtherTrail ==
    ASSUME Section, SnapsTyped, TrailInv, UNCHANGED blocks,
           \A p \in Mines : req'[p] = req[p],
           \/ \E r \in Submits : TxAdd(r) \/ TxAudit(r)
           \/ \E r \in Snapshots : SnapAudit(r)
           \/ UNCHANGED <<auditLog, metrics>>
    PROVE  TrailInv'
<1>1. Unrecorded' = Unrecorded /\ Uncounted' = Uncounted /\ Committed' = Committed
  BY DEF Unrecorded, Uncounted, Committed
<1>2. Height' = Height
  BY DEF Height
<1>3. ASSUME NEW e \in Events, e.Action # "block.commit",
             auditLog' = Append(auditLog, e), UNCHANGED metrics
      PROVE  TrailInv'
  <2>1. /\ auditLog' \in Seq(Events) /\ Len(auditLog') = Len(auditLog) + 1
        /\ \A i \in 1..Len(auditLog) :
             auditLog'[i] = auditLog[i] /\ CommitRecords(i)' = CommitRecords(i)
        /\ CommitRecords(Len(auditLog))' = CommitRecords(Len(auditLog))
        /\ Recorded' = Recorded
    BY <1>3, AppendRecord DEF TrailInv
  <2>2. ASSUME NEW i \in CommitRecords(Len(auditLog))'
        PROVE  auditLog'[i].Detail = Cardinality(CommitRecords(i))'
    <3>1. i \in CommitRecords(Len(auditLog)) /\ i \in 1..Len(auditLog)
      BY <2>1 DEF CommitRecords
    <3> QED
      BY <2>1, <3>1 DEF TrailInv
  <2> QED
    BY <1>1, <1>2, <1>3, <2>1, <2>2 DEF TrailInv
<1>4. ASSUME NEW r \in Submits, TxAdd(r) PROVE TrailInv'
  <2>1. UNCHANGED auditLog
    BY <1>4 DEF TxAdd
  <2>2. metrics' = metrics \/ metrics' = [metrics EXCEPT !.Errors = @ + 1]
    BY <1>4 DEF TxAdd
  <2>3. metrics = [Blocks |-> metrics.Blocks, Errors |-> metrics.Errors]
    BY DEF TrailInv
  <2>4. /\ metrics' = [Blocks |-> metrics'.Blocks, Errors |-> metrics'.Errors]
        /\ metrics'.Blocks = metrics.Blocks
    BY <2>2, <2>3
  <2> QED
    BY <1>1, <1>2, <2>1, <2>4, ZenonT(60) DEF TrailInv, Recorded, CommitRecords
<1>5. ASSUME NEW r \in Submits, TxAudit(r) PROVE TrailInv'
  <2> DEFINE e == [Action |-> "tx.accept", Detail |-> req[r].tx.ID]
  <2>1. req[r].tx \in Txs
    BY <1>5, SubmitAt DEF TxAudit
  <2>2. req[r].tx.ID \in TxIDs
    BY <2>1, TxsAssumption, TxWritesAssumption
  <2>3. e \in Events /\ e.Action # "block.commit"
    BY <2>2 DEF Events
  <2>4. auditLog' = Append(auditLog, e) /\ UNCHANGED metrics
    BY <1>5 DEF TxAudit, AppendAudit
  <2> HIDE DEF e
  <2> QED
    BY <1>3, <2>3, <2>4
<1>6. ASSUME NEW r \in Snapshots, SnapAudit(r) PROVE TrailInv'
  <2> DEFINE e == [Action |-> "snapshot.create", Detail |-> req[r].snap.ID]
  <2>1. IsSnap(req[r].snap)
    BY <1>6, SnapAt DEF SnapAudit, At, Requests
  <2>2. req[r].snap.ID \in Nat
    BY <2>1, ClockAssumption DEF IsSnap
  <2>3. e \in Events /\ e.Action # "block.commit"
    BY <2>2 DEF Events
  <2>4. auditLog' = Append(auditLog, e) /\ UNCHANGED metrics
    BY <1>6 DEF SnapAudit, AppendAudit
  <2> HIDE DEF e
  <2> QED
    BY <1>3, <2>3, <2>4
<1>7. ASSUME UNCHANGED <<auditLog, metrics>> PROVE TrailInv'
  BY <1>1, <1>7, QuietTrail
<1> QED
  BY <1>4, <1>5, <1>6, <1>7

LEMMA TrailNext == Control /\ ChainInv /\ TrailInv /\ [NodeNext]_NodeVars => TrailInv'
<1> SUFFICES ASSUME Section, SnapsTyped, ChainInv, TrailInv, [NodeNext]_NodeVars
             PROVE  TrailInv'
  BY DEF Control
<1>1. ASSUME NEW r \in Mines, MineLock(r) PROVE TrailInv'
  <2>1. r \in Requests
    BY DEF Requests
  <2>2. req[r].pc = "start" /\ req'[r].pc = "list"
    BY <1>1, <2>1, GotoStep DEF MineLock, At
  <2>3. \A p \in Mines \ {r} : req'[p] = req[p]
    BY <1>1, <2>1, GotoStep DEF MineLock, Requests
  <2>4. Unrecorded' = Unrecorded /\ Uncounted' = Uncounted /\ Committed' = Committed
    BY <2>2, <2>3 DEF Unrecorded, Uncounted, Committed
  <2> QED
    BY <1>1, <2>4, QuietTrail DEF MineLock, Components
<1> QED
  BY <1>1, MinerSteps, MineTrail, OtherTrail

LEMMA TrailInit == NodeInit => TrailInv
<1> SUFFICES ASSUME NodeInit PROVE TrailInv
  OBVIOUS
<1>1. auditLog = <<>> /\ metrics = [Blocks |-> 0, Errors |-> 0] /\ blocks = EmptyMap
  BY DEF NodeInit, RepoInit
<1>2. \A r \in Mines : req[r].pc = "start"
  BY DEF NodeInit, Requests
<1>3. Unrecorded = {} /\ Uncounted = {} /\ Committed = {}
  BY <1>2 DEF Unrecorded, Uncounted, Committed
<1>4. Height = 0 /\ IsFiniteSet({}) /\ Cardinality({}) = 0
  BY <1>1, FS_EmptySet DEF Height, EmptyMap
<1>5. CommitRecords(Len(auditLog)) = {}
  BY <1>1 DEF CommitRecords
<1>6. Recorded = 0
  BY <1>4, <1>5 DEF Recorded
<1> QED
  BY <1>1, <1>3, <1>4, <1>5, <1>6 DEF TrailInv

\* Concurrent requests to mine commit one height each and none is refused, the
\* audit log records them in the order of their heights, and the counter runs
\* between the log and the chain (node.go:143-168).
THEOREM TrailIsFaithful == NodeSpec => []CommitTrail
<1>1. NodeInit => TrailInv
  BY TrailInit
<1>2. Control /\ ChainInv /\ TrailInv /\ [NodeNext]_NodeVars => TrailInv'
  BY TrailNext
<1>3. TrailInv => CommitTrail
  <2> SUFFICES ASSUME TrailInv PROVE CommitTrail
    OBVIOUS
  <2>1. Recorded \in Nat
    BY RecordedType DEF TrailInv
  <2>2. Committed = {r \in Mines : \E step \in {"remove", "count", "commit", "done"} :
                                     At(r, step)}
    BY DEF Committed, At
  <2>3. Height = Cardinality({r \in Mines :
                   \E step \in {"remove", "count", "commit", "done"} : At(r, step)})
    BY <2>2 DEF TrailInv
  <2>4. Uncounted \subseteq Unrecorded
    BY DEF Uncounted, Unrecorded
  <2>5. /\ Recorded <= metrics.Blocks /\ metrics.Blocks <= Height
        /\ Height <= Recorded + 1
    BY <2>1, <2>4 DEF TrailInv
  <2> QED
    BY <2>3, <2>5 DEF CommitTrail, TrailInv, Recorded
<1> QED
  BY <1>1, <1>2, <1>3, ControlInvariant, ChainInvariant, PTL DEF NodeSpec
-----------------------------------------------------------------------------
(* Admissions and commits.                                                  *)

SameAdmissions ==
    Admissions' = Admissions /\ \A r \in Admissions : req'[r].tx = req[r].tx

\* Which goroutines have a transaction that was admitted.
LEMMA AdmissionIs ==
    ASSUME NEW r \in Submits, NEW f, SubmitFrame(f)
    PROVE  /\ f.pc = "start" => "tx" \notin DOMAIN f
           /\ f.pc = "accepted" => "tx" \in DOMAIN f /\ f.tx \in Txs
           /\ "tx" \in DOMAIN f => f.tx \in Txs
BY DEF SubmitFrame

LEMMA AdmittedTx ==
    ASSUME Section, NEW r \in Admissions
    PROVE  r \in Submits /\ r \in Requests /\ req[r].tx \in Txs /\ req[r].tx.ID \in TxIDs
<1>1. r \in Submits /\ "tx" \in DOMAIN req[r]
  BY DEF Admissions
<1>2. req[r].tx \in Txs
  BY <1>1, SubmitAt, AdmissionIs
<1> QED
  BY <1>1, <1>2, TxsAssumption, TxWritesAssumption DEF Requests

\* TxAdd: the transaction is admitted to the pool and to Admissions, or
\* nothing changes there.
LEMMA AddStep ==
    ASSUME PoolInv, Section, NEW r \in Submits, TxAdd(r)
    PROVE  \/ UNCHANGED <<tx, byAcct>> /\ SameAdmissions
           \/ \E t \in Txs :
                /\ t.ID \in TxIDs /\ t.ID \notin DOMAIN tx
                /\ LET gone == IF Held(t) THEN {HeldBy(t)} ELSE {}
                   IN tx' = MapPut(MapDelete(tx, gone), t.ID, t)
                /\ Held(t) => /\ HeldBy(t) \in DOMAIN tx
                              /\ tx[HeldBy(t)].From = t.From
                              /\ tx[HeldBy(t)].Nonce = t.Nonce
                              /\ t.Fee > tx[HeldBy(t)].Fee
                /\ r \notin Admissions /\ Admissions' = Admissions \cup {r}
                /\ req'[r].tx = t
                /\ \A p \in Admissions : req'[p].tx = req[p].tx
<1>1. r \in Requests /\ req[r].pc = "start"
  BY DEF Requests, TxAdd, At
<1>2. r \notin Admissions
  BY <1>1, SubmitAt, AdmissionIs DEF Admissions
<1>3. \A p \in Submits \ {r} : req'[p] = req[p]
  BY <1>1, OtherFrames, RequestsAssumption DEF Requests, Step, TxH
<1>4. PICK t \in Txs :
        IF Accepts(t)
        THEN Add(t) /\ Goto(r, [pc |-> "accepted", tx |-> t])
        ELSE UNCHANGED <<tx, byAcct>> /\ Goto(r, [pc |-> "done", code |-> 409])
  BY PostedAssumption DEF TxAdd, Return
<1>5. CASE ~Accepts(t)
  <2>1. req'[r] = [pc |-> "done", code |-> 409]
    BY <1>1, <1>4, <1>5, GotoStep
  <2>2. "tx" \notin DOMAIN req'[r]
    BY <2>1
  <2>3. SameAdmissions
    BY <1>2, <1>3, <2>2 DEF SameAdmissions, Admissions
  <2> QED
    BY <1>4, <1>5, <2>3
<1>6. CASE Accepts(t)
  <2>1. req'[r] = [pc |-> "accepted", tx |-> t]
    BY <1>1, <1>4, <1>6, GotoStep
  <2>2. "tx" \in DOMAIN req'[r] /\ req'[r].tx = t
    BY <2>1
  <2>3. /\ Admissions' = Admissions \cup {r}
        /\ \A p \in Admissions : req'[p].tx = req[p].tx
    BY <1>2, <1>3, <2>2 DEF Admissions
  <2>4. t.ID # NoID /\ t.ID \in TxIDs /\ WithID(t) = t
    BY TxsAssumption, TxWritesAssumption DEF WithID
  <2>5. LET gone == IF Held(t) THEN {HeldBy(t)} ELSE {}
        IN tx' = MapPut(MapDelete(tx, gone), t.ID, t)
    BY <1>4, <1>6, <2>4 DEF Add
  <2>6. t.ID \notin DOMAIN tx
    BY <1>6 DEF Accepts
  <2>7. Held(t) => /\ HeldBy(t) \in DOMAIN tx
                   /\ tx[HeldBy(t)].From = t.From
                   /\ tx[HeldBy(t)].Nonce = t.Nonce
    BY DEF Held, HeldBy, Slots, EmptyMap, PoolInv, IndexAgrees
  <2>8. Held(t) => t.Fee > tx[HeldBy(t)].Fee
    BY <1>6, <2>7 DEF Accepts, FeeOf
  <2> QED
    BY <1>2, <2>2, <2>3, <2>4, <2>5, <2>6, <2>7, <2>8
<1> QED
  BY <1>5, <1>6

\* Every other step admits nothing.
LEMMA AuditStep ==
    ASSUME Section, NEW r \in Submits, TxAudit(r)
    PROVE  UNCHANGED <<tx, byAcct>> /\ SameAdmissions
<1>1. r \in Requests /\ req[r].pc = "accepted" /\ req[r].tx \in Txs
  BY SubmitAt DEF Requests, TxAudit, At
<1>2. "tx" \in DOMAIN req[r]
  BY <1>1, SubmitAt, AdmissionIs
<1>3. \A p \in Submits \ {r} : req'[p] = req[p]
  BY <1>1, OtherFrames, RequestsAssumption DEF Requests, Step, TxH
<1>4. req'[r] = [pc |-> "done", code |-> 202, tx |-> req[r].tx]
  BY <1>1, GotoStep DEF TxAudit
<1>5. "tx" \in DOMAIN req'[r] /\ req'[r].tx = req[r].tx
  BY <1>4
<1>6. SameAdmissions
  BY <1>2, <1>3, <1>5 DEF SameAdmissions, Admissions
<1> QED
  BY <1>6 DEF TxAudit, Components

LEMMA OtherAdmissions ==
    ASSUME \A p \in Submits : req'[p] = req[p]
    PROVE  SameAdmissions
BY DEF SameAdmissions, Admissions

\* All the steps, as the transactions see them.
LEMMA TxSteps ==
    ASSUME Section, [NodeNext]_NodeVars
    PROVE  \/ \E r \in Submits : TxAdd(r) /\ UNCHANGED blocks
                                 /\ \A p \in Mines : req'[p] = req[p]
           \/ \E r \in Mines : MineBody(r) /\ SameAdmissions
           \/ /\ UNCHANGED <<tx, blocks>> /\ SameAdmissions
              /\ \A p \in Mines :
                   \/ req'[p] = req[p]
                   \/ req[p].pc = "start" /\ req'[p].pc = "list"
<1>1. ASSUME NEW r \in Mines, MineLock(r) \/ MineBody(r)
      PROVE  SameAdmissions /\ \A p \in Mines \ {r} : req'[p] = req[p]
  <2>1. r \in Requests
    BY DEF Requests
  <2>2. \A p \in Submits : req'[p] = req[p]
    BY <1>1, <2>1, OtherFrames, RequestsAssumption DEF Requests, Step, Locking
  <2>3. \A p \in Mines \ {r} : req'[p] = req[p]
    BY <1>1, <2>1, OtherFrames, RequestsAssumption DEF Requests, Step, Locking
  <2> QED
    BY <2>2, <2>3, OtherAdmissions
<1>2. ASSUME NEW r \in Mines, MineLock(r)
      PROVE  UNCHANGED <<tx, blocks>> /\ req[r].pc = "start" /\ req'[r].pc = "list"
  BY <1>2, GotoStep DEF MineLock, At, Components, Requests
<1>3. ASSUME NEW r \in Snapshots, SnapAudit(r)
      PROVE  UNCHANGED tx /\ SameAdmissions
  <2>1. r \in Requests
    BY DEF Requests
  <2>2. \A p \in Submits : req'[p] = req[p]
    BY <1>3, <2>1, OtherFrames, RequestsAssumption DEF Requests, Step, SnapBody
  <2> QED
    BY <1>3, <2>2, OtherAdmissions DEF SnapAudit, Components
<1> QED
  BY <1>1, <1>2, <1>3, MinerSteps, AuditStep, OtherAdmissions

\* The positions of the transactions with an ID in the chain.
LEMMA CommitsAre ==
    ASSUME NEW id, NEW p
    PROVE  p \in Commits(id) <=>
             /\ p = <<p[1], p[2]>>
             /\ p[1] \in DOMAIN blocks
             /\ p[2] \in 1..Len(blocks[p[1]].Transactions)
             /\ blocks[p[1]].Transactions[p[2]].ID = id
BY DEF Commits

\* What is in the chain stays there.
LEMMA CommitsStay ==
    ASSUME Section, ChainInv, [NodeNext]_NodeVars
    PROVE  \A id : Commits(id) \subseteq Commits(id)'
<1>1. \A h \in DOMAIN blocks : h \in DOMAIN blocks' /\ blocks'[h] = blocks[h]
  <2>1. CASE UNCHANGED blocks
    BY <2>1
  <2>2. ASSUME NEW r \in Requests, MinePut(r)
        PROVE  \A h \in DOMAIN blocks : h \in DOMAIN blocks' /\ blocks'[h] = blocks[h]
    <3>1. blocks' = MapPut(blocks, Height + 1, req[r].block)
      BY <2>2, NeverRefused
    <3>2. DOMAIN blocks = 1..Height /\ Height \in Nat
      BY DEF ChainInv, ChainOK
    <3> HIDE DEF Height
    <3> QED
      BY <3>1, <3>2 DEF MapPut
  <2>3. UNCHANGED blocks \/ \E r \in Requests : MinePut(r)
    BY ChainSteps DEF MineLatest, MineApply, MineBuild, Components
  <2> QED
    BY <2>1, <2>2, <2>3
<1>2. ASSUME NEW id, NEW p \in Commits(id) PROVE p \in Commits(id)'
  <2>1. /\ p = <<p[1], p[2]>> /\ p[1] \in DOMAIN blocks
        /\ p[2] \in 1..Len(blocks[p[1]].Transactions)
        /\ blocks[p[1]].Transactions[p[2]].ID = id
    BY CommitsAre
  <2>2. p[1] \in DOMAIN blocks' /\ blocks'[p[1]] = blocks[p[1]]
    BY <1>1, <2>1
  <2> QED
    BY <2>1, <2>2 DEF Commits
<1> QED
  BY <1>2

\* Settled is for good.
LEMMA SettledStays ==
    ASSUME NEW t, Settled(t), Commits(t.ID) \subseteq Commits(t.ID)',
           Admissions \subseteq Admissions',
           \A p \in Admissions : req'[p].tx = req[p].tx
    PROVE  Settled(t)'
<1>1. CASE Commits(t.ID) # {}
  BY <1>1 DEF Settled
<1>2. CASE \E r \in Admissions : /\ req[r].tx.From = t.From /\ req[r].tx.Nonce = t.Nonce
                                 /\ req[r].tx.Fee > t.Fee
  <2>1. PICK r \in Admissions : /\ req[r].tx.From = t.From /\ req[r].tx.Nonce = t.Nonce
                                /\ req[r].tx.Fee > t.Fee
    BY <1>2
  <2>2. /\ r \in Admissions' /\ req'[r].tx.From = t.From
        /\ req'[r].tx.Nonce = t.Nonce /\ req'[r].tx.Fee > t.Fee
    BY <2>1
  <2> QED
    BY <2>2 DEF Settled
<1> QED
  BY <1>1, <1>2 DEF Settled

\* The IDs Remove takes are in the chain.
LEMMA RemovedAreCommitted ==
    ASSUME Section, ChainInv, NEW r \in Mines, MineRemove(r)
    PROVE  LET txs == req[r].block.Transactions
               ids == {txs[i].ID : i \in 1..Len(txs)}
           IN /\ tx' = MapDelete(tx, ids)
              /\ \A id \in ids : Commits(id) # {}
<1> DEFINE txs == req[r].block.Transactions
           ids == {txs[i].ID : i \in 1..Len(txs)}
<1>1. tx' = MapDelete(tx, ids)
  BY DEF MineRemove, Remove
<1>2. req[r].block = blocks[Height] /\ Height > 0
  BY DEF ChainInv, MineLocals, MineRemove, At
<1>3. Height \in DOMAIN blocks
  BY <1>2 DEF ChainInv, ChainOK
<1>4. ASSUME NEW i \in 1..Len(txs) PROVE Commits(txs[i].ID) # {}
  <2> DEFINE p == <<Height, i>>
  <2>1. /\ p[1] \in DOMAIN blocks /\ p[2] \in 1..Len(blocks[p[1]].Transactions)
        /\ blocks[p[1]].Transactions[p[2]].ID = txs[i].ID
    BY <1>2, <1>3
  <2>2. p \in Commits(txs[i].ID)
    BY <2>1, CommitsAre
  <2> QED
    BY <2>2
<1> QED
  BY <1>1, <1>4

LEMMA LostNext ==
    Control /\ ChainInv /\ NothingLost /\ [NodeNext]_NodeVars => NothingLost'
<1> SUFFICES ASSUME PoolInv, Section, ChainInv, NothingLost, [NodeNext]_NodeVars
             PROVE  NothingLost'
  BY DEF Control
<1>1. \A id : Commits(id) \subseteq Commits(id)'
  BY CommitsStay
<1>2. ASSUME SameAdmissions,
             \A p \in Admissions :
               Pending(req[p].tx) => \/ req[p].tx.ID \in DOMAIN tx' /\ tx'[req[p].tx.ID] = req[p].tx
                                     \/ Commits(req[p].tx.ID) # {}
      PROVE  NothingLost'
  <2>1. SUFFICES ASSUME NEW p \in Admissions PROVE (Pending(req[p].tx) \/ Settled(req[p].tx))'
    BY <1>2 DEF NothingLost, SameAdmissions
  <2>2. PICK t : t = req[p].tx
    OBVIOUS
  <2>3. Settled(t) => Settled(t)'
    BY <1>1, <1>2, SettledStays DEF SameAdmissions
  <2>4. Pending(t) => Pending(t)' \/ Settled(t)
    BY <1>2, <2>2 DEF Pending, Settled
  <2>5. Pending(t) \/ Settled(t)
    BY <2>2 DEF NothingLost
  <2>6. req'[p].tx = t
    BY <1>2, <2>2 DEF SameAdmissions
  <2>7. Pending(t)' \/ Settled(t)'
    BY <2>3, <2>4, <2>5
  <2> QED
    BY <2>6, <2>7 DEF Pending, Settled, Commits
<1>3. ASSUME UNCHANGED tx, SameAdmissions PROVE NothingLost'
  BY <1>2, <1>3 DEF Pending
<1>4. ASSUME NEW r \in Mines, MineBody(r), SameAdmissions PROVE NothingLost'
  <2>1. CASE MineRemove(r)
    <3> DEFINE txs == req[r].block.Transactions
               ids == {txs[i].ID : i \in 1..Len(txs)}
    <3>1. tx' = MapDelete(tx, ids) /\ \A id \in ids : Commits(id) # {}
      BY <2>1, RemovedAreCommitted
    <3> HIDE DEF ids
    <3>2. ASSUME NEW p \in Admissions, Pending(req[p].tx), Commits(req[p].tx.ID) = {}
          PROVE  req[p].tx.ID \in DOMAIN tx' /\ tx'[req[p].tx.ID] = req[p].tx
      BY <3>1, <3>2 DEF Pending, MapDelete
    <3> QED
      BY <1>2, <1>4, <3>2
  <2>2. CASE ~MineRemove(r)
    <3>1. UNCHANGED tx
      BY <1>4, <2>2 DEF MineBody, MineList, MineLatest, MineApply, MineBuild, MinePut,
                        MineCount, MineAudit, Components
    <3> QED
      BY <1>3, <1>4, <3>1
  <2> QED
    BY <2>1, <2>2
<1>5. ASSUME NEW r \in Submits, TxAdd(r) PROVE NothingLost'
  <2>1. CASE UNCHANGED <<tx, byAcct>> /\ SameAdmissions
    BY <1>3, <2>1
  <2>2. ASSUME NEW t \in Txs, t.ID \in TxIDs, t.ID \notin DOMAIN tx,
               tx' = MapPut(MapDelete(tx, IF Held(t) THEN {HeldBy(t)} ELSE {}), t.ID, t),
               Held(t) => /\ HeldBy(t) \in DOMAIN tx
                          /\ tx[HeldBy(t)].From = t.From
                          /\ tx[HeldBy(t)].Nonce = t.Nonce
                          /\ t.Fee > tx[HeldBy(t)].Fee,
               r \notin Admissions, Admissions' = Admissions \cup {r}, req'[r].tx = t,
               \A p \in Admissions : req'[p].tx = req[p].tx
        PROVE  NothingLost'
    <3>1. Pending(req[r].tx)'
      BY <2>2 DEF Pending, MapPut
    <3>2. ASSUME NEW p \in Admissions PROVE (Pending(req[p].tx) \/ Settled(req[p].tx))'
      <4>1. PICK u : u = req[p].tx
        OBVIOUS
      <4>2. req'[p].tx = u
        BY <2>2, <4>1
      <4>3. Pending(u) \/ Settled(u)
        BY <4>1 DEF NothingLost
      <4>4. Settled(u) => Settled(u)'
        BY <1>1, <2>2, SettledStays
      <4>5. ASSUME Pending(u) PROVE Pending(u)' \/ Settled(u)'
        <5>1. u.ID \in DOMAIN tx /\ tx[u.ID] = u
          BY <4>5 DEF Pending
        <5>2. CASE Held(t) /\ u.ID = HeldBy(t)
          <6>1. t.From = u.From /\ t.Nonce = u.Nonce /\ t.Fee > u.Fee
            BY <2>2, <5>1, <5>2
          <6> QED
            BY <2>2, <6>1 DEF Settled
        <5>3. CASE ~(Held(t) /\ u.ID = HeldBy(t))
          <6>1. u.ID \in DOMAIN tx' /\ tx'[u.ID] = u
            BY <2>2, <5>1, <5>3 DEF MapPut, MapDelete
          <6> QED
            BY <6>1 DEF Pending
        <5> QED
          BY <5>2, <5>3
      <4>6. Pending(u)' \/ Settled(u)'
        BY <4>3, <4>4, <4>5
      <4> QED
        BY <4>2, <4>6 DEF Pending, Settled, Commits
    <3> QED
      BY <2>2, <3>1, <3>2 DEF NothingLost
  <2> QED
    BY <1>5, <2>1, <2>2, AddStep
<1> QED
  BY <1>3, <1>4, <1>5, TxSteps

\* A transaction answered with 202 does not vanish: it waits in the pool, its
\* ID is in a block, or a better paying one took its slot, whichever requests
\* submit, mine and remove at once (node.go:120, 145, 160; pool.go:39-46).
THEOREM NoTransactionIsLost == NodeSpec => []NothingLost
<1>1. NodeInit => NothingLost
  <2> SUFFICES ASSUME NodeInit PROVE NothingLost
    OBVIOUS
  <2>1. \A r \in Submits : req[r] = [pc |-> "start"]
    BY DEF NodeInit, Requests
  <2>2. Admissions = {}
    BY <2>1 DEF Admissions
  <2> QED
    BY <2>2 DEF NothingLost
<1>2. Control /\ ChainInv /\ NothingLost /\ [NodeNext]_NodeVars => NothingLost'
  BY LostNext
<1> QED
  BY <1>1, <1>2, ControlInvariant, ChainInvariant, PTL DEF NodeSpec
-----------------------------------------------------------------------------
(* No transaction is committed more often than it was admitted.  An ID that *)
(* waits in the pool, or is listed for a block that is not stored yet, may  *)
(* still be committed once: this is set off against an admission that no    *)
(* commit has used.                                                         *)

IDsOf(txs) == {txs[i].ID : i \in 1..Len(txs)}

\* The IDs listed for a block, and those of a stored block not yet removed.
InFlight ==
    UNION {IF req[r].pc \in {"latest", "apply"} THEN IDsOf(req[r].txs)
           ELSE IF req[r].pc = "put" THEN IDsOf(req[r].block.Transactions)
           ELSE {} : r \in Mines}
ToRemove ==
    UNION {IF req[r].pc = "remove" THEN IDsOf(req[r].block.Transactions)
           ELSE {} : r \in Mines}

\* One more commit of id may come without another admission.
Owed(id) == id \in InFlight \/ (id \in DOMAIN tx /\ id \notin ToRemove)

AdmissionsOf(id) == {r \in Admissions : req[r].tx.ID = id}

CommitInv ==
    \A id \in TxIDs :
        /\ IsFiniteSet(Commits(id)) /\ IsFiniteSet(AdmissionsOf(id))
        /\ Cardinality(Commits(id)) + (IF Owed(id) THEN 1 ELSE 0)
             <= Cardinality(AdmissionsOf(id))

\* While r holds opMu, only its own list counts.
LEMMA OneList ==
    ASSUME Section, NEW r \in Mines, opMu = r,
           \A p \in Mines \ {r} : req'[p] = req[p]
    PROVE  /\ InFlight = IF req[r].pc \in {"latest", "apply"} THEN IDsOf(req[r].txs)
                         ELSE IF req[r].pc = "put" THEN IDsOf(req[r].block.Transactions)
                         ELSE {}
           /\ ToRemove = IF req[r].pc = "remove" THEN IDsOf(req[r].block.Transactions)
                         ELSE {}
           /\ InFlight' = IF req'[r].pc \in {"latest", "apply"} THEN IDsOf(req'[r].txs)
                          ELSE IF req'[r].pc = "put" THEN IDsOf(req'[r].block.Transactions)
                          ELSE {}
           /\ ToRemove' = IF req'[r].pc = "remove" THEN IDsOf(req'[r].block.Transactions)
                          ELSE {}
<1>1. r \in Requests
  BY DEF Requests
<1>2. \A p \in Mines \ {r} : req[p].pc \in {"start", "done"}
  BY <1>1, OthersWait
<1>3. \A p \in Mines \ {r} : req'[p].pc \in {"start", "done"}
  BY <1>2
<1>4. InFlight = IF req[r].pc \in {"latest", "apply"} THEN IDsOf(req[r].txs)
                 ELSE IF req[r].pc = "put" THEN IDsOf(req[r].block.Transactions)
                 ELSE {}
  BY <1>2 DEF InFlight
<1>5. ToRemove = IF req[r].pc = "remove" THEN IDsOf(req[r].block.Transactions) ELSE {}
  BY <1>2 DEF ToRemove
<1>6. InFlight' = IF req'[r].pc \in {"latest", "apply"} THEN IDsOf(req'[r].txs)
                  ELSE IF req'[r].pc = "put" THEN IDsOf(req'[r].block.Transactions)
                  ELSE {}
  BY <1>3 DEF InFlight, IDsOf
<1>7. ToRemove' = IF req'[r].pc = "remove" THEN IDsOf(req'[r].block.Transactions) ELSE {}
  BY <1>3 DEF ToRemove, IDsOf
<1> QED
  BY <1>4, <1>5, <1>6, <1>7

\* The cardinalities are numbers.
LEMMA CommitCounts ==
    ASSUME CommitInv, NEW id \in TxIDs
    PROVE  /\ Cardinality(Commits(id)) \in Nat
           /\ Cardinality(AdmissionsOf(id)) \in Nat
BY FS_CardinalityType DEF CommitInv

\* Steps that commit nothing, admit nothing and owe no more than before.
LEMMA QuietCommits ==
    ASSUME CommitInv, UNCHANGED blocks, SameAdmissions,
           \A id \in TxIDs : Owed(id)' => Owed(id)
    PROVE  CommitInv'
<1>1. ASSUME NEW id \in TxIDs
      PROVE  Commits(id)' = Commits(id) /\ AdmissionsOf(id)' = AdmissionsOf(id)
  BY DEF Commits, AdmissionsOf, SameAdmissions
<1>2. ASSUME NEW id \in TxIDs
      PROVE  /\ IsFiniteSet(Commits(id))' /\ IsFiniteSet(AdmissionsOf(id))'
             /\ Cardinality(Commits(id))' + (IF Owed(id)' THEN 1 ELSE 0)
                  <= Cardinality(AdmissionsOf(id))'
  BY <1>1, CommitCounts DEF CommitInv
<1> QED
  BY <1>2 DEF CommitInv

\* Every transaction with an ID in a block that is stored, once.
LEMMA PutCommitsOnce ==
    ASSUME Section, ChainInv, NEW r \in Mines, MinePut(r), NEW id \in TxIDs
    PROVE  LET txs == req[r].block.Transactions
           IN /\ id \notin IDsOf(txs) => Commits(id)' = Commits(id)
              /\ id \in IDsOf(txs) =>
                   \E p : p \notin Commits(id) /\ Commits(id)' = Commits(id) \cup {p}
<1> DEFINE b == req[r].block
           txs == b.Transactions
           n == Height
<1>1. r \in Requests /\ req[r].pc = "put" /\ blocks' = MapPut(blocks, n + 1, b)
  BY NeverRefused DEF Requests
<1>2. DOMAIN blocks = 1..n /\ n \in Nat
  BY DEF ChainInv, ChainOK
<1>3. /\ DOMAIN blocks' = 1..(n + 1) /\ blocks'[n + 1] = b
      /\ \A h \in 1..n : blocks'[h] = blocks[h]
  <2> HIDE DEF n
  <2> QED
    BY <1>1, <1>2 DEF MapPut
<1>4. IsBody(txs) /\ Len(txs) \in Nat
  BY <1>1, MineAt, BodyFacts
<1>5. ASSUME NEW p
      PROVE  p \in Commits(id)' <=>
               \/ p \in Commits(id)
               \/ /\ p = <<n + 1, p[2]>> /\ p[2] \in 1..Len(txs)
                  /\ txs[p[2]].ID = id
  <2>1. p \in Commits(id)' <=>
          /\ p = <<p[1], p[2]>> /\ p[1] \in DOMAIN blocks'
          /\ p[2] \in 1..Len(blocks'[p[1]].Transactions)
          /\ blocks'[p[1]].Transactions[p[2]].ID = id
    BY DEF Commits
  <2>2. p \in Commits(id) <=>
          /\ p = <<p[1], p[2]>> /\ p[1] \in DOMAIN blocks
          /\ p[2] \in 1..Len(blocks[p[1]].Transactions)
          /\ blocks[p[1]].Transactions[p[2]].ID = id
    BY CommitsAre
  <2> HIDE DEF n, b
  <2>3. CASE p[1] \in 1..n
    BY <1>2, <1>3, <2>1, <2>2, <2>3
  <2>4. CASE p[1] = n + 1
    BY <1>2, <1>3, <2>1, <2>2, <2>4
  <2>5. CASE p[1] \notin 1..(n + 1)
    BY <1>2, <1>3, <2>1, <2>2, <2>5
  <2> QED
    BY <1>2, <2>3, <2>4, <2>5
<1>6. ASSUME id \notin IDsOf(txs) PROVE Commits(id)' = Commits(id)
  BY <1>5, <1>6 DEF IDsOf
<1>7. ASSUME id \in IDsOf(txs)
      PROVE  \E p : p \notin Commits(id) /\ Commits(id)' = Commits(id) \cup {p}
  <2>1. PICK i \in 1..Len(txs) : txs[i].ID = id
    BY <1>7 DEF IDsOf
  <2>2. \A j \in 1..Len(txs) : txs[j].ID = id => j = i
    BY <1>4, <2>1 DEF IsBody
  <2> DEFINE q == <<n + 1, i>>
  <2>3. q \notin Commits(id)
    <3>1. q[1] = n + 1 /\ n + 1 \notin DOMAIN blocks
      BY <1>2
    <3> QED
      BY <3>1, CommitsAre
  <2>4. ASSUME NEW p PROVE p \in Commits(id)' <=> p \in Commits(id) \cup {q}
    BY <1>5, <2>1, <2>2
  <2>5. Commits(id)' = Commits(id) \cup {q}
    BY <2>4
  <2> QED
    BY <2>3, <2>5
<1> QED
  BY <1>6, <1>7

LEMMA MineCommits ==
    ASSUME PoolInv, Section, ChainInv, CommitInv, SameAdmissions,
           NEW r \in Mines, MineBody(r)
    PROVE  CommitInv'
<1>1. r \in Requests
  BY DEF Requests
<1>2. req[r].pc \in {"list", "latest", "apply", "put", "remove", "count", "commit"}
  BY DEF MineBody, MineList, MineLatest, MineApply, MineBuild, MinePut, MineRemove,
         MineCount, MineAudit, At
<1>3. opMu = r
  BY <1>1, <1>2, MineAt
<1>4. \A p \in Mines \ {r} : req'[p] = req[p]
  BY <1>1, OtherFrames, RequestsAssumption DEF Requests, Step
<1>5. /\ InFlight = IF req[r].pc \in {"latest", "apply"} THEN IDsOf(req[r].txs)
                    ELSE IF req[r].pc = "put" THEN IDsOf(req[r].block.Transactions)
                    ELSE {}
      /\ ToRemove = IF req[r].pc = "remove" THEN IDsOf(req[r].block.Transactions)
                    ELSE {}
      /\ InFlight' = IF req'[r].pc \in {"latest", "apply"} THEN IDsOf(req'[r].txs)
                     ELSE IF req'[r].pc = "put" THEN IDsOf(req'[r].block.Transactions)
                     ELSE {}
      /\ ToRemove' = IF req'[r].pc = "remove" THEN IDsOf(req'[r].block.Transactions)
                     ELSE {}
  BY <1>3, <1>4, OneList
<1>6. ASSUME UNCHANGED <<tx, blocks>>, InFlight' = InFlight, ToRemove' = ToRemove
      PROVE  CommitInv'
  BY <1>6, QuietCommits DEF Owed
<1>7. CASE MineList(r)
  <2>1. PICK txs \in Listings(now) : Goto(r, [pc |-> "latest", txs |-> txs])
    BY <1>7 DEF MineList
  <2>2. req'[r] = [pc |-> "latest", txs |-> txs] /\ req[r].pc = "list"
    BY <1>1, <1>7, <2>1, GotoStep DEF MineList, At
  <2>3. InFlight = {} /\ ToRemove = {} /\ InFlight' = IDsOf(txs) /\ ToRemove' = {}
    BY <1>5, <2>2
  <2>4. UNCHANGED <<tx, blocks>>
    BY <1>7 DEF MineList, Components
  <2>5. ASSUME NEW id \in IDsOf(txs) PROVE id \in DOMAIN tx
    <3>1. PICK i \in 1..Len(txs) : txs[i].ID = id
      BY <2>5 DEF IDsOf
    <3>2. IsBody(txs)
      BY ListingIsBody
    <3>3. DOMAIN txs = 1..Len(txs)
      BY <3>2, BodyFacts
    <3>4. txs[i] \in Visible(now)
      BY <3>1, <3>3 DEF Listings
    <3> QED
      BY <3>1, <3>4 DEF Visible, PoolInv, IndexAgrees
  <2>6. \A id \in TxIDs : Owed(id)' => Owed(id)
    BY <2>3, <2>4, <2>5 DEF Owed
  <2> QED
    BY <2>4, <2>6, QuietCommits
<1>8. CASE MineLatest(r)
  <2>1. /\ req'[r] = [pc |-> "apply", txs |-> req[r].txs, prev |-> Latest, done |-> 0]
        /\ req[r].pc = "latest"
    BY <1>1, <1>8, GotoStep DEF MineLatest, At
  <2>2. InFlight' = InFlight /\ ToRemove' = ToRemove
    BY <1>5, <2>1
  <2> QED
    BY <1>6, <1>8, <2>2 DEF MineLatest, Components
<1>9. CASE MineApply(r)
  <2>1. /\ req'[r] = [pc |-> "apply", txs |-> req[r].txs, prev |-> req[r].prev,
                      done |-> req[r].done + 1]
        /\ req[r].pc = "apply"
    BY <1>1, <1>9, ApplyStep DEF MineApply, At
  <2>2. req'[r].pc = "apply" /\ req'[r].txs = req[r].txs
    BY <2>1
  <2>3. InFlight' = InFlight /\ ToRemove' = ToRemove
    BY <1>5, <2>1, <2>2
  <2> QED
    BY <1>6, <1>9, <2>3 DEF MineApply
<1>10. CASE MineBuild(r)
  <2> DEFINE b == NewBlock(req[r].txs, req[r].prev, Root(data), now)
  <2>1. Goto(r, [pc |-> "put", block |-> b]) /\ req[r].pc = "apply"
    BY <1>10 DEF MineBuild, At
  <2>2. b.Transactions = req[r].txs
    BY DEF NewBlock
  <2> HIDE DEF b
  <2>3. req'[r] = [pc |-> "put", block |-> b]
    BY <1>1, <2>1, GotoStep
  <2>4. InFlight' = InFlight /\ ToRemove' = ToRemove
    BY <1>5, <2>1, <2>2, <2>3
  <2> QED
    BY <1>6, <1>10, <2>4 DEF MineBuild, Components
<1>11. CASE MinePut(r)
  <2> DEFINE txs == req[r].block.Transactions
  <2>1. req[r].pc = "put" /\ Goto(r, [pc |-> "remove", block |-> req[r].block])
    BY <1>1, <1>11, NeverRefused
  <2>2. req'[r] = [pc |-> "remove", block |-> req[r].block]
    BY <1>1, <2>1, GotoStep
  <2>3. /\ InFlight = IDsOf(txs) /\ ToRemove = {}
        /\ InFlight' = {} /\ ToRemove' = IDsOf(txs)
    BY <1>5, <2>1, <2>2
  <2>4. UNCHANGED tx
    BY <1>11 DEF MinePut
  <2>5. \A id \in TxIDs : AdmissionsOf(id)' = AdmissionsOf(id)
    BY DEF AdmissionsOf, SameAdmissions
  <2>6. ASSUME NEW id \in TxIDs
        PROVE  /\ IsFiniteSet(Commits(id))' /\ IsFiniteSet(AdmissionsOf(id))'
               /\ Cardinality(Commits(id))' + (IF Owed(id)' THEN 1 ELSE 0)
                    <= Cardinality(AdmissionsOf(id))'
    <3>1. /\ IsFiniteSet(Commits(id)) /\ IsFiniteSet(AdmissionsOf(id))
          /\ Cardinality(Commits(id)) + (IF Owed(id) THEN 1 ELSE 0)
               <= Cardinality(AdmissionsOf(id))
          /\ Cardinality(Commits(id)) \in Nat /\ Cardinality(AdmissionsOf(id)) \in Nat
      BY CommitCounts DEF CommitInv
    <3>2. CASE id \in IDsOf(txs)
      <4>1. PICK p : p \notin Commits(id) /\ Commits(id)' = Commits(id) \cup {p}
        BY <1>11, <3>2, PutCommitsOnce
      <4>2. /\ IsFiniteSet(Commits(id)')
            /\ Cardinality(Commits(id)') = Cardinality(Commits(id)) + 1
        BY <3>1, <4>1, FS_AddElement
      <4>3. Owed(id) /\ ~Owed(id)'
        BY <2>3, <3>2 DEF Owed
      <4> QED
        BY <2>5, <3>1, <4>2, <4>3
    <3>3. CASE id \notin IDsOf(txs)
      <4>1. Commits(id)' = Commits(id)
        BY <1>11, <3>3, PutCommitsOnce
      <4>2. Owed(id)' => Owed(id)
        BY <2>3, <2>4, <3>3 DEF Owed
      <4> QED
        BY <2>5, <3>1, <4>1, <4>2
    <3> QED
      BY <3>2, <3>3
  <2> QED
    BY <2>6 DEF CommitInv
<1>12. CASE MineRemove(r)
  <2> DEFINE txs == req[r].block.Transactions
  <2>1. req[r].pc = "remove" /\ Goto(r, [pc |-> "count", block |-> req[r].block])
    BY <1>1, <1>12, MineMovesOn DEF MineRemove, At
  <2>2. req'[r].pc = "count"
    BY <1>1, <2>1, GotoStep
  <2>3. /\ InFlight = {} /\ ToRemove = IDsOf(txs) /\ InFlight' = {} /\ ToRemove' = {}
    BY <1>5, <2>1, <2>2
  <2>4. tx' = MapDelete(tx, IDsOf(txs)) /\ UNCHANGED blocks
    BY <1>12 DEF MineRemove, Remove, IDsOf
  <2>5. \A id \in TxIDs : Owed(id)' => Owed(id)
    BY <2>3, <2>4 DEF Owed, MapDelete
  <2> QED
    BY <2>4, <2>5, QuietCommits
<1>13. CASE MineCount(r)
  <2>1. req[r].pc = "count" /\ Goto(r, [pc |-> "commit", block |-> req[r].block])
    BY <1>1, <1>13, MineMovesOn DEF MineCount, At
  <2>2. req'[r].pc = "commit"
    BY <1>1, <2>1, GotoStep
  <2>3. InFlight' = InFlight /\ ToRemove' = ToRemove
    BY <1>5, <2>1, <2>2
  <2> QED
    BY <1>6, <1>13, <2>3 DEF MineCount, Components
<1>14. CASE MineAudit(r)
  <2>1. req[r].pc = "commit" /\ req'[r].pc = "done"
    BY <1>1, <1>14, GotoStep DEF MineAudit, At, Return
  <2>2. InFlight' = InFlight /\ ToRemove' = ToRemove
    BY <1>5, <2>1
  <2> QED
    BY <1>6, <1>14, <2>2 DEF MineAudit, Components
<1> QED
  BY <1>7, <1>8, <1>9, <1>10, <1>11, <1>12, <1>13, <1>14 DEF MineBody

LEMMA AddCommits ==
    ASSUME PoolInv, Section, CommitInv, UNCHANGED blocks,
           \A p \in Mines : req'[p] = req[p], NEW r \in Submits, TxAdd(r)
    PROVE  CommitInv'
<1>1. InFlight' = InFlight /\ ToRemove' = ToRemove
  BY SMTT(40) DEF InFlight, ToRemove, IDsOf
<1>2. CASE UNCHANGED <<tx, byAcct>> /\ SameAdmissions
  BY <1>1, <1>2, QuietCommits DEF Owed
<1>3. ASSUME NEW t \in Txs, NEW gone, t.ID \in TxIDs, t.ID \notin DOMAIN tx,
             tx' = MapPut(MapDelete(tx, gone), t.ID, t),
             r \notin Admissions, Admissions' = Admissions \cup {r}, req'[r].tx = t,
             \A p \in Admissions : req'[p].tx = req[p].tx
      PROVE  CommitInv'
  <2>1. ASSUME NEW id \in TxIDs
        PROVE  /\ IsFiniteSet(Commits(id))' /\ IsFiniteSet(AdmissionsOf(id))'
               /\ Cardinality(Commits(id))' + (IF Owed(id)' THEN 1 ELSE 0)
                    <= Cardinality(AdmissionsOf(id))'
    <3>1. /\ IsFiniteSet(Commits(id)) /\ IsFiniteSet(AdmissionsOf(id))
          /\ Cardinality(Commits(id)) + (IF Owed(id) THEN 1 ELSE 0)
               <= Cardinality(AdmissionsOf(id))
          /\ Cardinality(Commits(id)) \in Nat /\ Cardinality(AdmissionsOf(id)) \in Nat
      BY CommitCounts DEF CommitInv
    <3>2. Commits(id)' = Commits(id)
      BY DEF Commits
    <3>3. CASE id = t.ID
      <4>1. AdmissionsOf(id)' = AdmissionsOf(id) \cup {r} /\ r \notin AdmissionsOf(id)
        BY <1>3, <3>3 DEF AdmissionsOf
      <4>2. /\ IsFiniteSet(AdmissionsOf(id)')
            /\ Cardinality(AdmissionsOf(id)') = Cardinality(AdmissionsOf(id)) + 1
        BY <3>1, <4>1, FS_AddElement
      <4> QED
        BY <3>1, <3>2, <4>2
    <3>4. CASE id # t.ID
      <4>1. AdmissionsOf(id)' = AdmissionsOf(id)
        BY <1>3, <3>4 DEF AdmissionsOf
      <4>2. Owed(id)' => Owed(id)
        BY <1>1, <1>3, <3>4 DEF Owed, MapPut, MapDelete
      <4> QED
        BY <3>1, <3>2, <4>1, <4>2
    <3> QED
      BY <3>3, <3>4
  <2> QED
    BY <2>1 DEF CommitInv
<1> QED
  BY <1>2, <1>3, AddStep

LEMMA CommitNext ==
    Control /\ ChainInv /\ CommitInv /\ [NodeNext]_NodeVars => CommitInv'
<1> SUFFICES ASSUME PoolInv, Section, ChainInv, CommitInv, [NodeNext]_NodeVars
             PROVE  CommitInv'
  BY DEF Control
<1>1. ASSUME UNCHANGED <<tx, blocks>>, SameAdmissions,
             \A p \in Mines : \/ req'[p] = req[p]
                              \/ req[p].pc = "start" /\ req'[p].pc = "list"
      PROVE  CommitInv'
  <2>1. \A p \in Mines :
          /\ (IF req'[p].pc \in {"latest", "apply"} THEN IDsOf(req'[p].txs)
              ELSE IF req'[p].pc = "put" THEN IDsOf(req'[p].block.Transactions) ELSE {})
             = (IF req[p].pc \in {"latest", "apply"} THEN IDsOf(req[p].txs)
                ELSE IF req[p].pc = "put" THEN IDsOf(req[p].block.Transactions) ELSE {})
          /\ (IF req'[p].pc = "remove" THEN IDsOf(req'[p].block.Transactions) ELSE {})
             = (IF req[p].pc = "remove" THEN IDsOf(req[p].block.Transactions) ELSE {})
    BY <1>1
  <2>2. InFlight' = InFlight
    BY <2>1, ZenonT(60) DEF InFlight, IDsOf
  <2>3. ToRemove' = ToRemove
    BY <2>1 DEF ToRemove, IDsOf
  <2> QED
    BY <1>1, <2>2, <2>3, QuietCommits DEF Owed
<1> QED
  BY <1>1, TxSteps, MineCommits, AddCommits

\* A transaction is committed at most as often as it was admitted: a block
\* under way is never listed again by the next one, and a replaced or reused
\* ID brings its own admission (node.go:145, 160; pool.go:27-46).
THEOREM CommittedOnce == NodeSpec => []NoDoubleCommit
<1>1. NodeInit => CommitInv
  <2> SUFFICES ASSUME NodeInit PROVE CommitInv
    OBVIOUS
  <2>1. \A r \in Requests : req[r] = [pc |-> "start"]
    BY DEF NodeInit
  <2>2. blocks = EmptyMap /\ tx = EmptyMap
    BY DEF NodeInit, RepoInit, PoolInit
  <2>3. Admissions = {}
    BY <2>1 DEF Admissions, Requests
  <2>4. InFlight = {} /\ DOMAIN tx = {}
    BY <2>1, <2>2 DEF InFlight, Requests, EmptyMap
  <2>5. ASSUME NEW id \in TxIDs
        PROVE  Commits(id) = {} /\ AdmissionsOf(id) = {} /\ ~Owed(id)
    BY <2>2, <2>3, <2>4 DEF Commits, AdmissionsOf, Owed, EmptyMap
  <2>6. IsFiniteSet({}) /\ Cardinality({}) = 0
    BY FS_EmptySet
  <2> QED
    BY <2>5, <2>6 DEF CommitInv
<1>2. Control /\ ChainInv /\ CommitInv /\ [NodeNext]_NodeVars => CommitInv'
  BY CommitNext
<1>3. CommitInv => NoDoubleCommit
  <2> SUFFICES ASSUME CommitInv, NEW id \in TxIDs
               PROVE  Cardinality(Commits(id)) <= Cardinality(AdmissionsOf(id))
    BY DEF NoDoubleCommit, AdmissionsOf
  <2> QED
    BY CommitCounts DEF CommitInv
<1> QED
  BY <1>1, <1>2, <1>3, ControlInvariant, ChainInvariant, PTL DEF NodeSpec
=============================================================================
