--------------------------- MODULE ExecutorProofs ---------------------------
(***************************************************************************)
(* Proofs about what is done with a key/value state.  state_machine.       *)
(* Executor: batches of any callers, any length and any transactions are   *)
(* all or nothing when nothing overlaps them, and never use more gas than  *)
(* the limit.  proof.Proof: a proof of any entry of a state of any size    *)
(* verifies, and no proof binds an entry the state does not have.          *)
(***************************************************************************)
EXTENDS Executor, MerkleProof, KVStateProofs, SequenceTheorems

\* A transaction of a batch.
BatchTxs ==
    [Gas : Nat, Key : Keys \cup {NoKey}, Value : Values, WellFormed : BOOLEAN]

\* A map is a function.
IsFun(m) == m = [x \in DOMAIN m |-> m[x]]

\* The map old with the entries of new written over it.
Over(old, new) ==
    [k \in DOMAIN old \cup DOMAIN new |-> IF k \in DOMAIN new THEN new[k] ELSE old[k]]

\* Nothing written over a map leaves it.
LEMMA OverNothing ==
    ASSUME NEW d, IsFun(d) PROVE Over(d, Replay(<< <<>> >>)) = d
<1>1. Replay(<< <<>> >>) = EmptyMap
  <2>1. << <<>> >> = Append(<<>>, <<>>)
    OBVIOUS
  <2>2. Replay(Append(<<>>, <<>>)) = Replay(<<>>)
    <3>1. <<>> \in Seq(Seq(BatchTxs))
      OBVIOUS
    <3> QED
      BY <3>1, ReplayEmptyBlock
  <2> QED
    BY <2>1, <2>2, ReplayNothing
<1>2. Over(d, EmptyMap) = [k \in DOMAIN d |-> d[k]]
  BY DEF Over, EmptyMap
<1> QED
  BY <1>1, <1>2 DEF IsFun

\* A transaction applied to what a batch has made of a state is applied to the
\* batch's own writes.
LEMMA OverStep ==
    ASSUME NEW old, NEW new, NEW t
    PROVE  AppliedTo(Over(old, new), t) = Over(old, AppliedTo(new, t))
<1>1. CASE ~Applies(t)
  BY <1>1 DEF AppliedTo
<1>2. CASE Applies(t)
  <2> DEFINE L == MapPut(Over(old, new), t.Key, t.Value)
             R == Over(old, MapPut(new, t.Key, t.Value))
  <2>1. DOMAIN L = DOMAIN R
    BY DEF MapPut, Over
  <2>2. ASSUME NEW k \in DOMAIN L PROVE L[k] = R[k]
    BY <2>1 DEF MapPut, Over
  <2>3. L = [k \in DOMAIN L |-> L[k]] /\ R = [k \in DOMAIN R |-> R[k]]
    BY DEF MapPut, Over
  <2>4. L = R
    <3> HIDE DEF L, R
    <3> QED
      BY <2>1, <2>2, <2>3
  <2> QED
    BY <1>2, <2>4 DEF AppliedTo
<1> QED
  BY <1>1, <1>2

\* The writes of the first n transactions, and of one more.
Written(txs, n) == Replay(<<SubSeq(txs, 1, n)>>)

LEMMA WrittenStep ==
    ASSUME NEW txs \in Seq(BatchTxs), NEW n \in Nat, n < Len(txs)
    PROVE  Written(txs, n + 1) = AppliedTo(Written(txs, n), txs[n + 1])
<1> DEFINE b == SubSeq(txs, 1, n)
           t == txs[n + 1]
<1>1. b \in Seq(BatchTxs) /\ t \in BatchTxs
  OBVIOUS
<1>2. SubSeq(txs, 1, n + 1) = Append(b, t)
  <2>1. Len(b) = n /\ \A i \in 1..n : b[i] = txs[i]
    OBVIOUS
  <2>2. Len(SubSeq(txs, 1, n + 1)) = n + 1 /\ \A i \in 1..(n + 1) : SubSeq(txs, 1, n + 1)[i] = txs[i]
    OBVIOUS
  <2>3. SubSeq(txs, 1, n + 1) \in Seq(BatchTxs) /\ Append(b, t) \in Seq(BatchTxs)
    BY <1>1
  <2>4. Len(Append(b, t)) = n + 1 /\ \A i \in 1..(n + 1) : Append(b, t)[i] = txs[i]
    BY <1>1, <2>1
  <2> QED
    BY <2>2, <2>3, <2>4, SeqEqual
<1>3. Storable(t)
  BY <1>1 DEF BatchTxs, Storable
<1>4. Replay(Append(<<>>, Append(b, t))) = AppliedTo(Replay(Append(<<>>, b)), t)
  <2>1. <<>> \in Seq(Seq(BatchTxs))
    OBVIOUS
  <2> HIDE DEF b, t
  <2> QED
    BY <1>1, <1>3, <2>1, ReplayStep, ZenonT(60)
<1>5. Append(<<>>, Append(b, t)) = <<Append(b, t)>> /\ Append(<<>>, b) = <<b>>
  OBVIOUS
<1> QED
  BY <1>2, <1>4, <1>5 DEF Written
-----------------------------------------------------------------------------
(* The inductive invariant.                                                 *)

Counts == [Applied : Nat, Failed : Nat, GasUsed : 0..MaxGas]

\* The fields of a caller's locals at each of its steps.
BatchLocals(c) ==
    LET b == batch[c]
    IN /\ b.pc \in {"start", "lock", "execute", "decide", "returned"}
       /\ "pc" \in DOMAIN b
       /\ Busy(c) => /\ {"h", "txs", "before", "alone"} \subseteq DOMAIN b
                     /\ b.txs \in Batches
                     /\ b.alone \in BOOLEAN
                     /\ IsFun(b.before)
       /\ b.pc \in {"execute", "decide"} =>
             /\ {"done", "res"} \subseteq DOMAIN b
             /\ b.done \in 0..Len(b.txs)
             /\ b.res \in Counts
             /\ b.res.Failed = 0 => b.res.Applied = b.done
       /\ b.pc = "decide" => b.done = Len(b.txs)

\* What a call that nothing overlaps knows of the state: its version is the
\* state it found, and while nothing has failed the state is that one with the
\* writes of the transactions so far over it.
Undisturbed(c) ==
    LET b == batch[c]
    IN /\ b.h \in DOMAIN versions
       /\ versions[b.h] = b.before
       /\ b.pc = "lock" => data = b.before
       /\ (b.pc \in {"execute", "decide"} /\ b.res.Failed = 0) =>
             data = Over(b.before, Written(b.txs, b.done))

ExecInv ==
    /\ DOMAIN batch = Batchers
    /\ IsFun(data) /\ \A h \in DOMAIN versions : IsFun(versions[h])
    /\ \A c \in Batchers : BatchLocals(c)
    /\ \A c \in Batchers : Busy(c) /\ batch[c].alone =>
          /\ Undisturbed(c)
          /\ \A d \in Batchers : d # c => ~Busy(d)

\* Before any call the invariant holds.
LEMMA ExecInitInv == ExecInit => ExecInv
BY DEF ExecInit, StateInit, ExecInv, BatchLocals, Busy, IsFun, EmptyMap

\* A map that is applied to stays a function.
LEMMA AppliedIsFun == ASSUME NEW d, NEW t, IsFun(d) PROVE IsFun(AppliedTo(d, t))
BY DEF IsFun, AppliedTo, MapPut

\* Another's first step leaves a caller's locals, but for alone.
LEMMA OverlapKeeps ==
    ASSUME ExecInv, NEW c \in Batchers, NEW d \in Batchers, c # d
    PROVE  LET new == Overlapped(c)[d]
           IN /\ DOMAIN new = DOMAIN batch[d]
              /\ new.pc = batch[d].pc
              /\ \A x \in DOMAIN new \ {"alone"} : new[x] = batch[d][x]
              /\ Busy(d) => new.alone = FALSE
              /\ ~Busy(d) => new = batch[d]
<1>1. CASE Busy(d)
  <2>1. Overlapped(c)[d] = [batch[d] EXCEPT !.alone = FALSE]
    BY <1>1 DEF Overlapped
  <2>2. "pc" \in DOMAIN batch[d] /\ "alone" \in DOMAIN batch[d]
    BY <1>1 DEF ExecInv, BatchLocals
  <2> QED
    BY <1>1, <2>1, <2>2
<1>2. CASE ~Busy(d)
  BY <1>2 DEF Overlapped
<1> QED
  BY <1>1, <1>2

\* A call that is under way and goes on: what it has to keep for itself is
\* enough, because whoever is not alone is owed nothing.
LEMMA GoingOn ==
    ASSUME ExecInv, NEW c \in Batchers, Busy(c),
           DOMAIN batch' = Batchers,
           \A d \in Batchers : d # c => batch'[d] = batch[d],
           IsFun(data'), versions' = versions,
           BatchLocals(c)',
           Busy(c)' => batch'[c].alone = batch[c].alone,
           (Busy(c)' /\ batch[c].alone) => Undisturbed(c)'
    PROVE  ExecInv'
<1>1. ASSUME NEW d \in Batchers PROVE BatchLocals(d)'
  <2>1. CASE d = c
    BY <2>1
  <2>2. CASE d # c
    <3>1. batch'[d] = batch[d] /\ BatchLocals(d)
      BY <2>2 DEF ExecInv
    <3> QED
      BY <3>1 DEF BatchLocals, Busy
  <2> QED
    BY <2>1, <2>2
<1>2. ASSUME NEW d \in Batchers, d # c, Busy(d)', batch'[d].alone PROVE FALSE
  <2>1. Busy(d) /\ batch[d].alone
    BY <1>2 DEF Busy
  <2> QED
    BY <1>2, <2>1 DEF ExecInv
<1>3. ASSUME Busy(c)', batch'[c].alone, NEW d \in Batchers, d # c PROVE ~Busy(d)'
  <2>1. batch[c].alone
    BY <1>3
  <2>2. ~Busy(d)
    BY <1>3, <2>1 DEF ExecInv
  <2> QED
    BY <1>3, <2>2 DEF Busy
<1>4. \A h \in DOMAIN versions' : IsFun(versions'[h])
  BY DEF ExecInv
<1>5. ASSUME NEW d \in Batchers, Busy(d)', batch'[d].alone
      PROVE  Undisturbed(d)' /\ \A e \in Batchers : e # d => ~Busy(e)'
  <2>1. d = c
    BY <1>2, <1>5
  <2>2. Undisturbed(c)'
    BY <1>5, <2>1
  <2> QED
    BY <1>3, <1>5, <2>1, <2>2
<1> QED
  BY <1>1, <1>4, <1>5 DEF ExecInv

\* The first step: a snapshot, whose caller is alone if nobody else is busy.
LEMMA SnapshotFirstInv ==
    ASSUME ExecInv, NEW c \in Batchers, SnapshotFirst(c) PROVE ExecInv'
<1>1. PICK h \in VersionHeights, txs \in Batches :
        /\ versions' = MapPut(versions, h, data)
        /\ batch' = [Overlapped(c) EXCEPT ![c] =
                       [pc |-> "lock", h |-> h, txs |-> txs, before |-> data,
                        alone |-> \A d \in Batchers : ~Busy(d)]]
  BY DEF SnapshotFirst, Snapshot
<1>2. PICK v \in BOOLEAN : v = (\A d \in Batchers : ~Busy(d))
  OBVIOUS
<1>3. batch' = [Overlapped(c) EXCEPT ![c] =
                  [pc |-> "lock", h |-> h, txs |-> txs, before |-> data, alone |-> v]]
  BY <1>1, <1>2, Zenon
<1>4. DOMAIN batch' = Batchers
  BY <1>3 DEF Overlapped, IsFun
<1>5. batch'[c] = [pc |-> "lock", h |-> h, txs |-> txs, before |-> data, alone |-> v]
  BY <1>3 DEF Overlapped
<1>6. ASSUME NEW d \in Batchers, d # c
      PROVE  /\ DOMAIN batch'[d] = DOMAIN batch[d]
             /\ batch'[d].pc = batch[d].pc
             /\ \A x \in DOMAIN batch[d] \ {"alone"} : batch'[d][x] = batch[d][x]
             /\ Busy(d) => batch'[d].alone = FALSE
             /\ ~Busy(d) => batch'[d] = batch[d]
  <2>1. batch'[d] = Overlapped(c)[d]
    BY <1>3, <1>6 DEF Overlapped
  <2>2. PICK new : new = Overlapped(c)[d]
    OBVIOUS
  <2>3. /\ DOMAIN new = DOMAIN batch[d]
        /\ new.pc = batch[d].pc
        /\ \A x \in DOMAIN new \ {"alone"} : new[x] = batch[d][x]
        /\ Busy(d) => new.alone = FALSE
        /\ ~Busy(d) => new = batch[d]
    BY <1>6, <2>2, OverlapKeeps
  <2> QED
    BY <2>1, <2>2, <2>3
<1>7. data' = data /\ IsFun(data)
  BY DEF SnapshotFirst, ExecInv
<1>8. \A x \in DOMAIN versions' : IsFun(versions'[x])
  BY <1>1, <1>7 DEF ExecInv, MapPut
<1>9. ASSUME NEW d \in Batchers, d # c PROVE BatchLocals(d)' /\ ~(Busy(d)' /\ batch'[d].alone)
  <2>1. CASE ~Busy(d)
    <3>1. batch'[d] = batch[d] /\ BatchLocals(d)
      BY <1>6, <1>9, <2>1 DEF ExecInv
    <3> QED
      BY <3>1, <2>1 DEF BatchLocals, Busy
  <2>2. CASE Busy(d)
    <3>1. BatchLocals(d)
      BY DEF ExecInv
    <3>2. /\ batch'[d].h = batch[d].h /\ batch'[d].txs = batch[d].txs
          /\ batch'[d].before = batch[d].before /\ batch'[d].alone = FALSE
          /\ batch'[d].pc = batch[d].pc
          /\ DOMAIN batch'[d] = DOMAIN batch[d]
      BY <1>6, <1>9, <2>2, <3>1, ZenonT(60) DEF BatchLocals
    <3>3. batch[d].pc \in {"execute", "decide"} =>
            batch'[d].done = batch[d].done /\ batch'[d].res = batch[d].res
      BY <1>6, <1>9, <3>1 DEF BatchLocals
    <3>4. BatchLocals(d)'
      BY <3>1, <3>2, <3>3 DEF BatchLocals, Busy
    <3> QED
      BY <3>2, <3>4
  <2> QED
    BY <2>1, <2>2
<1>10. BatchLocals(c)' /\ Undisturbed(c)'
  <2>1. h \in DOMAIN versions' /\ versions'[h] = data
    BY <1>1 DEF MapPut
  <2>2. /\ batch'[c].pc = "lock" /\ batch'[c].h = h /\ batch'[c].txs = txs
        /\ batch'[c].before = data /\ batch'[c].alone = v
        /\ DOMAIN batch'[c] = {"pc", "h", "txs", "before", "alone"}
    BY <1>5
  <2>3. BatchLocals(c)'
    BY <2>2, <1>7 DEF BatchLocals
  <2> QED
    BY <2>1, <2>2, <2>3, <1>7 DEF Undisturbed
<1>11. ASSUME batch'[c].alone, NEW d \in Batchers, d # c PROVE ~Busy(d)'
  <2>1. v
    BY <1>5, <1>11
  <2>2. ~Busy(d)
    BY <1>2, <2>1
  <2> QED
    BY <1>6, <1>11, <2>2 DEF Busy
<1>12. ASSUME NEW d \in Batchers, Busy(d)', batch'[d].alone
       PROVE  Undisturbed(d)' /\ \A e \in Batchers : e # d => ~Busy(e)'
  <2>1. d = c
    BY <1>9, <1>12
  <2> QED
    BY <1>10, <1>11, <1>12, <2>1
<1>13. \A d \in Batchers : BatchLocals(d)'
  BY <1>9, <1>10
<1> QED
  BY <1>4, <1>7, <1>8, <1>12, <1>13 DEF ExecInv

\* Execute begins with nothing done, and the state as it is.
LEMMA ExecuteLockInv ==
    ASSUME ExecInv, NEW c \in Batchers, ExecuteLock(c) PROVE ExecInv'
<1> DEFINE zero == [Applied |-> 0, Failed |-> 0, GasUsed |-> 0]
<1>1. Busy(c) /\ batch[c].pc = "lock" /\ BatchLocals(c)
  BY DEF ExecuteLock, Busy, ExecInv
<1>2. batch' = [batch EXCEPT ![c] =
                  [pc |-> "execute", h |-> batch[c].h, txs |-> batch[c].txs,
                   before |-> batch[c].before, alone |-> batch[c].alone,
                   done |-> 0, res |-> zero]]
  BY DEF ExecuteLock, EnterBatch
<1>3. /\ DOMAIN batch' = Batchers
      /\ \A d \in Batchers : d # c => batch'[d] = batch[d]
  BY <1>2 DEF ExecInv, IsFun
<1>4. /\ batch'[c].pc = "execute" /\ batch'[c].h = batch[c].h
      /\ batch'[c].txs = batch[c].txs /\ batch'[c].before = batch[c].before
      /\ batch'[c].alone = batch[c].alone
      /\ batch'[c].done = 0 /\ batch'[c].res = zero
      /\ DOMAIN batch'[c] = {"pc", "h", "txs", "before", "alone", "done", "res"}
  BY <1>2 DEF ExecInv
<1>5. data' = data /\ versions' = versions /\ IsFun(data)
  BY DEF ExecuteLock, ExecInv
<1>6. BatchLocals(c)'
  <2>1. zero \in Counts /\ zero.Failed = 0 /\ zero.Applied = 0
    BY GasAssumption DEF Counts
  <2>2. /\ batch[c].txs \in Batches /\ batch[c].alone \in BOOLEAN
        /\ IsFun(batch[c].before)
    BY <1>1 DEF BatchLocals
  <2>3. Len(batch[c].txs) \in Nat
    BY <2>2, BatchesAssumption
  <2> HIDE DEF zero
  <2> QED
    BY <1>4, <2>1, <2>2, <2>3 DEF BatchLocals
<1>7. ASSUME batch[c].alone PROVE Undisturbed(c)'
  <2>1. Undisturbed(c)
    BY <1>1, <1>7 DEF ExecInv
  <2>2. IsFun(batch[c].before) /\ batch[c].txs \in Batches
    BY <1>1 DEF BatchLocals
  <2>3. Over(batch[c].before, Written(batch[c].txs, 0)) = batch[c].before
    <3>1. SubSeq(batch[c].txs, 1, 0) = <<>>
      BY <2>2, BatchesAssumption
    <3> QED
      BY <2>2, <3>1, OverNothing DEF Written
  <2> HIDE DEF zero
  <2> QED
    BY <1>1, <1>4, <1>5, <2>1, <2>3 DEF Undisturbed
<1> QED
  BY <1>1, <1>3, <1>4, <1>5, <1>6, <1>7, GoingOn

\* One transaction.  What is left of the gas is never negative, so the test
\* before a transaction keeps the limit.
LEMMA ExecuteTxInv ==
    ASSUME ExecInv, NEW c \in Batchers, ExecuteTx(c) PROVE ExecInv'
<1> DEFINE b == batch[c]
           t == b.txs[b.done + 1]
           tried == Fits(t, b.res.GasUsed) /\ ValidateTx(t)
           ok == tried /\ Applies(t)
<1>1. /\ b.pc = "execute" /\ b.done < Len(b.txs)
      /\ data' = IF tried THEN AppliedTo(data, t) ELSE data
      /\ batch' = IF ok
                  THEN [batch EXCEPT ![c].done = @ + 1,
                                     ![c].res.Applied = @ + 1,
                                     ![c].res.GasUsed = @ + t.Gas]
                  ELSE [batch EXCEPT ![c].done = @ + 1,
                                     ![c].res.Failed = @ + 1]
      /\ versions' = versions
  BY DEF ExecuteTx, Apply
<1>2. Busy(c) /\ BatchLocals(c) /\ DOMAIN batch = Batchers /\ IsFun(data)
  BY <1>1 DEF Busy, ExecInv
<1>3. /\ {"pc", "h", "txs", "before", "alone", "done", "res"} \subseteq DOMAIN b
      /\ b.txs \in Seq(BatchTxs) /\ b.txs \in Batches /\ b.done \in Nat /\ b.res \in Counts
      /\ b.alone \in BOOLEAN /\ IsFun(b.before)
      /\ b.res.Failed = 0 => b.res.Applied = b.done
  <2>1. {"pc", "h", "txs", "before", "alone", "done", "res"} \subseteq DOMAIN b
    BY <1>1, <1>2 DEF BatchLocals
  <2>2. b.txs \in Batches /\ b.done \in 0..Len(b.txs)
    BY <1>1, <1>2 DEF BatchLocals
  <2>3. /\ b.res \in Counts /\ b.alone \in BOOLEAN /\ IsFun(b.before)
        /\ b.res.Failed = 0 => b.res.Applied = b.done
    BY <1>1, <1>2 DEF BatchLocals
  <2>4. Batches \subseteq Seq(BatchTxs)
    BY BatchesAssumption DEF BatchTxs
  <2>5. b.txs \in Seq(BatchTxs) /\ b.done \in Nat
    BY <2>2, <2>4
  <2> QED
    BY <2>1, <2>2, <2>3, <2>5
<1>4. t \in BatchTxs
  BY <1>1, <1>3
<1>5. t.Gas \in Nat /\ b.res.GasUsed \in 0..MaxGas /\ b.res.Applied \in Nat /\ b.res.Failed \in Nat
      /\ DOMAIN b.res = {"Applied", "Failed", "GasUsed"}
  BY <1>3, <1>4 DEF BatchTxs, Counts
<1> DEFINE NewRes == IF ok
                     THEN [Applied |-> b.res.Applied + 1, Failed |-> b.res.Failed,
                           GasUsed |-> b.res.GasUsed + t.Gas]
                     ELSE [Applied |-> b.res.Applied, Failed |-> b.res.Failed + 1,
                           GasUsed |-> b.res.GasUsed]
<1>6. /\ DOMAIN batch' = Batchers
      /\ \A d \in Batchers : d # c => batch'[d] = batch[d]
  <2> HIDE DEF ok, t, b
  <2>1. DOMAIN batch' = Batchers
    BY <1>1, <1>2
  <2>2. ASSUME NEW d \in Batchers, d # c PROVE batch'[d] = batch[d]
    BY <1>1, <1>2, <2>2
  <2> QED
    BY <2>1, <2>2
<1>7. /\ batch'[c].pc = b.pc /\ batch'[c].h = b.h /\ batch'[c].txs = b.txs
      /\ batch'[c].before = b.before /\ batch'[c].alone = b.alone
      /\ batch'[c].done = b.done + 1 /\ DOMAIN batch'[c] = DOMAIN b
      /\ batch'[c].res.Applied = NewRes.Applied
      /\ batch'[c].res.Failed = NewRes.Failed
      /\ batch'[c].res.GasUsed = NewRes.GasUsed
  <2> HIDE DEF ok, t
  <2>1. CASE ok
    BY <1>1, <1>2, <1>3, <1>5, <2>1
  <2>2. CASE ~ok
    BY <1>1, <1>2, <1>3, <1>5, <2>2
  <2> QED
    BY <2>1, <2>2
<1>8. ASSUME ok PROVE b.res.GasUsed + t.Gas \in 0..MaxGas
  <2>1. t.Gas <= MaxGas - b.res.GasUsed
    BY <1>8 DEF Fits
  <2> HIDE DEF ok, t
  <2> QED
    BY <1>5, <2>1, GasAssumption
<1>9. batch'[c].res \in Counts
  <2> HIDE DEF t
  <2>1. CASE ok
    <3> HIDE DEF ok
    <3> QED
      BY <1>1, <1>2, <1>3, <1>5, <1>8, <2>1, SMTT(40) DEF Counts
  <2>2. CASE ~ok
    <3> HIDE DEF ok
    <3> QED
      BY <1>1, <1>2, <1>3, <1>5, <2>2 DEF Counts
  <2> QED
    BY <2>1, <2>2
<1>10. IsFun(data')
  BY <1>1, <1>2, AppliedIsFun, SMTT(40)
<1>11. BatchLocals(c)'
  <2>1. b.done + 1 \in 0..Len(b.txs) /\ Len(b.txs) \in Nat
    BY <1>1, <1>3
  <2>2. NewRes.Failed = 0 => NewRes.Applied = b.done + 1
    <3> HIDE DEF ok, t
    <3> QED
      BY <1>3, <1>5, SMTT(40)
  <2> HIDE DEF NewRes
  <2> QED
    BY <1>1, <1>3, <1>7, <1>9, <2>1, <2>2, ZenonT(60) DEF BatchLocals, Busy
<1>12. ASSUME b.alone PROVE Undisturbed(c)'
  <2>1. Undisturbed(c)
    BY <1>2, <1>12 DEF ExecInv
  <2>2. ASSUME NewRes.Failed = 0
        PROVE  data' = Over(b.before, Written(b.txs, b.done + 1))
    <3>1. ok /\ b.res.Failed = 0
      <4> HIDE DEF ok, t
      <4> QED
        BY <1>5, <2>2
    <3>2. data' = AppliedTo(data, t)
      BY <1>1, <3>1, SMTT(40)
    <3>3. data = Over(b.before, Written(b.txs, b.done))
      BY <1>1, <2>1, <3>1 DEF Undisturbed
    <3>4. Written(b.txs, b.done + 1) = AppliedTo(Written(b.txs, b.done), t)
      BY <1>1, <1>3, WrittenStep
    <3> HIDE DEF b, t, ok
    <3> QED
      BY <3>2, <3>3, <3>4, OverStep
  <2> HIDE DEF NewRes
  <2> QED
    BY <1>1, <1>7, <2>1, <2>2 DEF Undisturbed
<1>13. batch'[c].alone = batch[c].alone
  BY <1>7
<1> QED
  <2>1. versions' = versions
    BY <1>1
  <2> HIDE DEF b, t, tried, ok, NewRes
  <2> QED
    BY <1>2, <1>6, <1>10, <1>11, <1>12, <1>13, <2>1, GoingOn DEF b

\* Execute returns with every transaction done.
LEMMA ExecuteEndInv ==
    ASSUME ExecInv, NEW c \in Batchers, ExecuteEnd(c) PROVE ExecInv'
<1>1. Busy(c) /\ batch[c].pc = "execute" /\ BatchLocals(c)
      /\ batch[c].done = Len(batch[c].txs)
      /\ batch' = [batch EXCEPT ![c].pc = "decide"]
      /\ data' = data /\ versions' = versions /\ IsFun(data)
  BY DEF ExecuteEnd, Busy, ExecInv
<1>2. /\ DOMAIN batch' = Batchers
      /\ \A d \in Batchers : d # c => batch'[d] = batch[d]
  BY <1>1 DEF ExecInv, IsFun
<1>3. {"pc", "h", "txs", "before", "alone", "done", "res"} \subseteq DOMAIN batch[c]
  BY <1>1 DEF BatchLocals
<1>4. /\ batch'[c].pc = "decide" /\ batch'[c].h = batch[c].h
      /\ batch'[c].txs = batch[c].txs /\ batch'[c].before = batch[c].before
      /\ batch'[c].alone = batch[c].alone
      /\ batch'[c].done = batch[c].done /\ batch'[c].res = batch[c].res
      /\ DOMAIN batch'[c] = DOMAIN batch[c]
  BY <1>1, <1>3 DEF ExecInv
<1>5. BatchLocals(c)'
  BY <1>1, <1>4 DEF BatchLocals, Busy
<1>6. ASSUME batch[c].alone PROVE Undisturbed(c)'
  <2>1. Undisturbed(c)
    BY <1>1, <1>6 DEF ExecInv
  <2> QED
    BY <1>1, <1>4, <2>1 DEF Undisturbed
<1> QED
  BY <1>1, <1>2, <1>4, <1>5, <1>6, GoingOn

\* The call returns, and nothing more is owed to it.
LEMMA RollbackLastInv ==
    ASSUME ExecInv, NEW c \in Batchers, RollbackLast(c) PROVE ExecInv'
<1>1. Busy(c) /\ batch[c].pc = "decide" /\ BatchLocals(c)
      /\ batch' = [batch EXCEPT ![c].pc = "returned"] /\ versions' = versions
  BY DEF RollbackLast, Busy, ExecInv
<1>2. /\ DOMAIN batch' = Batchers
      /\ \A d \in Batchers : d # c => batch'[d] = batch[d]
  BY <1>1 DEF ExecInv, IsFun
<1>3. batch'[c].pc = "returned" /\ DOMAIN batch'[c] = DOMAIN batch[c]
  BY <1>1 DEF ExecInv, BatchLocals
<1>4. BatchLocals(c)' /\ ~Busy(c)'
  BY <1>1, <1>3 DEF BatchLocals, Busy
<1>5. IsFun(data')
  BY DEF RollbackLast, Rollback, ExecInv
<1> QED
  BY <1>1, <1>2, <1>4, <1>5, GoingOn

\* Every step keeps the invariant.
LEMMA ExecNextInv == ExecInv /\ [ExecNext]_ExecVars => ExecInv'
<1> SUFFICES ASSUME ExecInv, [ExecNext]_ExecVars PROVE ExecInv'
  OBVIOUS
<1>1. CASE UNCHANGED ExecVars
  BY <1>1 DEF ExecVars, ExecInv, BatchLocals, Undisturbed, Busy
<1>2. ASSUME NEW c \in Batchers, SnapshotFirst(c) \/ Proceed(c) PROVE ExecInv'
  BY <1>2, SnapshotFirstInv, ExecuteLockInv, ExecuteTxInv, ExecuteEndInv,
     RollbackLastInv DEF Proceed
<1> QED
  BY <1>1, <1>2 DEF ExecNext

\* A batch that no other call overlaps is all or nothing, and no batch has
\* used more gas than the limit: of any callers, batches and heights
\* (executor.go:27-80, state.go:60-72).
THEOREM BatchesAreAtomic == ExecSpec => AllOrNothing
<1> DEFINE Atomic ==
      \A c \in Batchers :
         (batch[c].pc = "decide" /\ batch'[c].pc = "returned") =>
            LET old == batch[c].before
                new == Replay(<<batch[c].txs>>)
            IN /\ batch[c].res.GasUsed <= MaxGas
               /\ batch[c].alone =>
                    IF batch[c].res.Failed > 0 THEN data' = old
                    ELSE /\ batch[c].res.Applied = Len(batch[c].txs)
                         /\ data' = [k \in DOMAIN old \cup DOMAIN new |->
                                        IF k \in DOMAIN new THEN new[k] ELSE old[k]]
<1>1. ASSUME ExecInv, ExecNext, NEW c \in Batchers,
             batch[c].pc = "decide", batch'[c].pc = "returned"
      PROVE  RollbackLast(c)
  <2>1. ASSUME NEW d \in Batchers, d # c, SnapshotFirst(d) PROVE FALSE
    <3>1. batch'[c] = Overlapped(d)[c]
      BY <1>1, <2>1 DEF SnapshotFirst, Overlapped
    <3>2. PICK new : new = Overlapped(d)[c]
      OBVIOUS
    <3>3. new.pc = batch[c].pc
      BY <1>1, <2>1, <3>2, OverlapKeeps
    <3> QED
      BY <1>1, <3>1, <3>2, <3>3
  <2>2. ASSUME NEW d \in Batchers, d # c, Proceed(d) PROVE FALSE
    <3>1. batch'[c] = batch[c]
      BY <1>1, <2>2 DEF Proceed, ExecuteLock, ExecuteTx, ExecuteEnd, RollbackLast,
                        EnterBatch, ExecInv
    <3> QED
      BY <1>1, <3>1
  <2>3. ~(UNCHANGED ExecVars)
    BY <1>1 DEF ExecVars
  <2>4. PICK d \in Batchers : SnapshotFirst(d) \/ Proceed(d)
    BY <1>1, <2>3 DEF ExecNext
  <2>5. d = c
    BY <2>1, <2>2, <2>4
  <2> QED
    BY <1>1, <2>4, <2>5 DEF SnapshotFirst, Proceed, ExecuteLock, ExecuteTx, ExecuteEnd
<1>2. ASSUME ExecInv, ExecNext PROVE Atomic
  <2> SUFFICES ASSUME NEW c \in Batchers,
                      batch[c].pc = "decide", batch'[c].pc = "returned"
               PROVE  /\ batch[c].res.GasUsed <= MaxGas
                      /\ batch[c].alone =>
                           IF batch[c].res.Failed > 0 THEN data' = batch[c].before
                           ELSE /\ batch[c].res.Applied = Len(batch[c].txs)
                                /\ data' = Over(batch[c].before, Replay(<<batch[c].txs>>))
    BY DEF Over
  <2>1. RollbackLast(c) /\ BatchLocals(c) /\ Busy(c)
    BY <1>1, <1>2 DEF ExecInv, Busy
  <2>2. /\ batch[c].res \in Counts /\ batch[c].txs \in Batches
        /\ batch[c].done = Len(batch[c].txs)
        /\ batch[c].res.Failed = 0 => batch[c].res.Applied = batch[c].done
    BY <2>1 DEF BatchLocals
  <2>3. batch[c].res.GasUsed <= MaxGas /\ batch[c].res.Failed \in Nat
    BY <2>2, GasAssumption DEF Counts
  <2>4. ASSUME batch[c].alone, batch[c].res.Failed > 0 PROVE data' = batch[c].before
    <3>1. Undisturbed(c)
      BY <1>2, <2>1, <2>4 DEF ExecInv
    <3> QED
      BY <2>1, <2>4, <3>1 DEF RollbackLast, Rollback, Undisturbed
  <2>5. ASSUME batch[c].alone, batch[c].res.Failed = 0
        PROVE  data' = Over(batch[c].before, Replay(<<batch[c].txs>>))
    <3>1. Undisturbed(c)
      BY <1>2, <2>1, <2>5 DEF ExecInv
    <3>2. data' = Over(batch[c].before, Written(batch[c].txs, batch[c].done))
      BY <2>1, <2>5, <3>1 DEF RollbackLast, Undisturbed
    <3>3. SubSeq(batch[c].txs, 1, Len(batch[c].txs)) = batch[c].txs
      BY <2>2, BatchesAssumption
    <3> QED
      BY <2>2, <3>2, <3>3 DEF Written
  <2> QED
    BY <2>2, <2>3, <2>4, <2>5
<1>3. ExecInv /\ [ExecNext]_ExecVars => [Atomic]_ExecVars
  <2> HIDE DEF Atomic
  <2> QED
    BY <1>2
<1>4. ExecInit /\ [][ExecNext]_ExecVars => [][Atomic]_ExecVars
  BY <1>3, ExecInitInv, ExecNextInv, PTL
<1> QED
  BY <1>4, PTL DEF ExecSpec, AllOrNothing
-----------------------------------------------------------------------------
(* Merkle proofs. *)

\* What holds at 0, and at i if at i - 1, holds up to n.
LEMMA Upward ==
    ASSUME NEW n \in Nat, NEW S, 0 \in S, \A i \in 1..n : i - 1 \in S => i \in S
    PROVE  \A i \in 0..n : i \in S
<1> DEFINE D == {i \in 0..n : i \notin S}
<1> SUFFICES ASSUME D # {} PROVE FALSE
  OBVIOUS
<1>1. PICK m \in D : \A x \in D : m <= x
  <2>1. D \in SUBSET Nat
    OBVIOUS
  <2> HIDE DEF D
  <2> QED
    BY <2>1, Least
<1>2. m \in 1..n /\ m \notin S /\ m - 1 \in 0..n /\ ~(m <= m - 1)
  OBVIOUS
<1>3. m - 1 \notin D
  <2> HIDE DEF D
  <2> QED
    BY <1>1, <1>2
<1> QED
  BY <1>2, <1>3

\* f is what the rounds of VerifyProof's loop make of a leaf.
FoldRun(f, leaf, steps) ==
    /\ f = [i \in 0..Len(steps) |-> f[i]] /\ f[0] = leaf
    /\ \A i \in 1..Len(steps) : f[i] = StepUp(f[i-1], steps[i])

\* r is what the steps make of a leaf.
FoldsTo(leaf, steps, r) == \E f : FoldRun(f, leaf, steps) /\ f[Len(steps)] = r

LEMMA FoldedIs ==
    ASSUME NEW leaf, NEW steps, Len(steps) \in Nat, NEW r, FoldsTo(leaf, steps, r)
    PROVE  Folded(leaf, steps) = r
<1>1. PICK n \in Nat : n = Len(steps)
  OBVIOUS
<1>2. PICK g : FoldRun(g, leaf, steps) /\ g[n] = r
  BY <1>1 DEF FoldsTo
<1> DEFINE P(f) == f = [i \in 0..n |-> IF i = 0 THEN leaf ELSE StepUp(f[i-1], steps[i])]
           c == CHOOSE f : P(f)
<1>3. P(g)
  <2>1. g = [i \in 0..n |-> g[i]] /\ \A i \in 0..n : i = 0 \/ i \in 1..n
    BY <1>1, <1>2 DEF FoldRun
  <2> QED
    BY <1>1, <1>2, <2>1 DEF FoldRun
<1>4. P(c)
  <2> HIDE DEF P
  <2> QED
    BY <1>3
<1>5. Folded(leaf, steps) = c[n]
  BY <1>1 DEF Folded
<1> HIDE DEF c
<1> DEFINE S == {i \in 0..n : c[i] = g[i]}
<1>6. 0 \in S
  BY <1>2, <1>4 DEF FoldRun
<1>7. ASSUME NEW i \in 1..n, i - 1 \in S PROVE i \in S
  <2>1. i \in 0..n /\ i # 0 /\ c[i-1] = g[i-1]
    BY <1>7
  <2>2. c[i] = StepUp(c[i-1], steps[i]) /\ g[i] = StepUp(g[i-1], steps[i])
    BY <1>1, <1>2, <1>4, <2>1 DEF FoldRun
  <2> QED
    BY <2>1, <2>2
<1>8. \A i \in 0..n : i \in S
  <2> HIDE DEF S
  <2> QED
    BY <1>6, <1>7, Upward
<1> QED
  BY <1>2, <1>5, <1>8

\* What a sequence is with one more element.
LEMMA OneMore ==
    ASSUME NEW T, NEW s \in Seq(T), NEW e \in T
    PROVE  /\ Append(s, e) \in Seq(T) /\ Len(Append(s, e)) = Len(s) + 1
           /\ Append(s, e)[Len(s) + 1] = e /\ \A i \in 1..Len(s) : Append(s, e)[i] = s[i]
<1>1. PICK r : r = Append(s, e)
  OBVIOUS
<1>2. r \in Seq(T) /\ Len(r) = Len(s) + 1
  BY <1>1
<1>3. \A i \in 1..(Len(s) + 1) : r[i] = IF i <= Len(s) THEN s[i] ELSE e
  BY <1>1
<1>4. Len(s) \in Nat /\ Len(s) + 1 \in 1..(Len(s) + 1) /\ ~(Len(s) + 1 <= Len(s))
  OBVIOUS
<1>5. \A i \in 1..Len(s) : i \in 1..(Len(s) + 1) /\ i <= Len(s)
  BY <1>4
<1> QED
  BY <1>1, <1>2, <1>3, <1>4, <1>5

LEMMA FoldsOn ==
    ASSUME NEW leaf, NEW T, NEW steps \in Seq(T), NEW r, FoldsTo(leaf, steps, r), NEW st \in T
    PROVE  FoldsTo(leaf, Append(steps, st), StepUp(r, st))
<1>1. PICK n \in Nat : n = Len(steps)
  OBVIOUS
<1>2. PICK f : FoldRun(f, leaf, steps) /\ f[n] = r
  BY <1>1 DEF FoldsTo
<1>3. PICK more : /\ more = Append(steps, st) /\ Len(more) = n + 1 /\ more[n + 1] = st
                  /\ \A i \in 1..n : more[i] = steps[i]
  <2>1. PICK more : more = Append(steps, st)
    OBVIOUS
  <2>2. /\ Len(more) = Len(steps) + 1
        /\ more[Len(steps) + 1] = st /\ \A i \in 1..Len(steps) : more[i] = steps[i]
    BY <2>1, OneMore
  <2> QED
    BY <1>1, <2>1, <2>2
<1> DEFINE g == [i \in 0..(n + 1) |-> IF i = n + 1 THEN StepUp(r, st) ELSE f[i]]
<1>4. g = [i \in 0..(n + 1) |-> g[i]] /\ g[n + 1] = StepUp(r, st) /\ \A i \in 0..n : g[i] = f[i]
  OBVIOUS
<1> HIDE DEF g
<1>5. g[0] = leaf
  BY <1>2, <1>4, SMTT(40) DEF FoldRun
<1>6. ASSUME NEW i \in 1..(n + 1) PROVE g[i] = StepUp(g[i-1], more[i])
  <2>1. i - 1 \in 0..n
    OBVIOUS
  <2>4. PICK j \in 0..n : j = i - 1
    BY <2>1
  <2>5. g[i-1] = f[i-1]
    BY <1>4, <2>4
  <2>2. CASE i = n + 1
    <3>1. i - 1 = n
      BY <2>2
    <3> QED
      BY <1>2, <1>3, <1>4, <2>5, <2>2, <3>1
  <2>3. CASE i # n + 1
    <3>1. i \in 1..n /\ i \in 0..n
      BY <2>3
    <3> QED
      BY <1>1, <1>2, <1>3, <1>4, <2>5, <3>1 DEF FoldRun
  <2> QED
    BY <2>2, <2>3
<1>7. FoldRun(g, leaf, more) /\ g[Len(more)] = StepUp(r, st)
  BY <1>3, <1>4, <1>5, <1>6 DEF FoldRun
<1> QED
  BY <1>3, <1>7 DEF FoldsTo

\* a is a level of hashes, none of them empty.
IsLevel(a) ==
    /\ Len(a) \in Nat /\ Len(a) > 0
    /\ a \in Seq({a[i] : i \in 1..Len(a)})
    /\ \A i \in 1..Len(a) : a[i] # NoHash

\* A level made by a function is one.
LEMMA LevelOf ==
    ASSUME NEW n \in Nat, n > 0, NEW a, a = [i \in 1..n |-> a[i]], \A i \in 1..n : a[i] # NoHash
    PROVE  IsLevel(a) /\ Len(a) = n
<1>1. a \in [1..n -> {a[i] : i \in 1..n}]
  OBVIOUS
<1>2. Len(a) = n /\ a \in Seq({a[i] : i \in 1..n})
  BY <1>1
<1> QED
  BY <1>2 DEF IsLevel

\* Half way up Proof's loop: there is a level, the key's hash is at index, and
\* the steps so far lead to it from the key's leaf.
Halfway(s, leaf) ==
    /\ s = [hashes |-> s.hashes, index |-> s.index, steps |-> s.steps]
    /\ IsLevel(s.hashes) /\ s.index \in 0..(Len(s.hashes) - 1)
    /\ Len(s.steps) \in Nat /\ s.steps \in Seq({s.steps[i] : i \in 1..Len(s.steps)})
    /\ \A i \in 1..Len(s.steps) : s.steps[i].Hash # NoHash
    /\ FoldsTo(leaf, s.steps, s.hashes[s.index + 1])

\* A round of the loop climbs to the level BuildTree makes of the present one,
\* which is shorter.
LEMMA ClimbsUp ==
    ASSUME NEW s, NEW leaf, Halfway(s, leaf), Len(s.hashes) > 1
    PROVE  /\ Halfway(Climb(s), leaf)
           /\ Climb(s).hashes = MerkleLevel(s.hashes)
           /\ Len(Climb(s).hashes) < Len(s.hashes)
<1>1. PICK h, n, x, st : /\ h = s.hashes /\ n = Len(h) /\ x = s.index /\ st = s.steps
  OBVIOUS
<1>2. /\ IsLevel(h) /\ n \in Nat /\ n > 1 /\ x \in 0..(n - 1)
      /\ h \in Seq({h[i] : i \in 1..n}) /\ \A i \in 1..n : h[i] # NoHash
  BY <1>1 DEF Halfway, IsLevel
<1>3. PICK a : a = IF n % 2 = 1 THEN Append(h, h[n]) ELSE h
  OBVIOUS
<1>4. PICK m \in Nat : /\ m = (n + 1) \div 2 /\ Len(a) \div 2 = m /\ m > 0 /\ m < n
                       /\ \A i \in 1..(2 * m) : a[i] = IF i > n THEN h[n] ELSE h[i]
                       /\ 2 * m >= n /\ 2 * m <= n + 1
  <2>1. CASE n % 2 = 1
    <3>1. PICK q \in Nat : n = 2 * q + 1
      BY <1>2, <2>1
    <3>2. a = Append(h, h[n]) /\ h[n] \in {h[i] : i \in 1..n}
      BY <1>2, <1>3, <2>1
    <3>3. Len(a) = n + 1 /\ a[n + 1] = h[n] /\ \A i \in 1..n : a[i] = h[i]
      BY <1>1, <1>2, <3>2
    <3>4. (n + 1) \div 2 = q + 1 /\ 2 * (q + 1) = n + 1
      BY <3>1
    <3>5. \A i \in 1..(n + 1) : i \in 1..n \/ (i = n + 1 /\ i > n)
      BY <1>2
    <3>6. \A i \in 1..(n + 1) : a[i] = IF i > n THEN h[n] ELSE h[i]
      BY <1>2, <3>3, <3>5, SMTT(40)
    <3>7. q + 1 \in Nat /\ q + 1 > 0 /\ q + 1 < n /\ n + 1 \in Nat
      BY <1>2, <3>1
    <3>8. Len(a) \div 2 = q + 1
      BY <3>3, <3>4
    <3>9. PICK m \in Nat : m = q + 1
      BY <3>7
    <3>10. 2 * m = n + 1 /\ n + 1 >= n
      BY <1>2, <3>4, <3>9
    <3>11. \A i \in 1..(2 * m) : a[i] = IF i > n THEN h[n] ELSE h[i]
      BY <3>6, <3>10
    <3>12. m = (n + 1) \div 2 /\ Len(a) \div 2 = m /\ m > 0 /\ m < n
      BY <3>4, <3>7, <3>8, <3>9
    <3>13. 2 * m >= n /\ 2 * m <= n + 1
      BY <1>2, <3>10
    <3> WITNESS m \in Nat
    <3> QED
      BY <3>11, <3>12, <3>13
  <2>2. CASE n % 2 # 1
    <3>1. PICK q \in Nat : n = 2 * q
      BY <1>2, <2>2
    <3>2. (n + 1) \div 2 = q /\ n \div 2 = q /\ a = h
      BY <1>3, <2>2, <3>1
    <3>3. q = (n + 1) \div 2 /\ Len(a) \div 2 = q /\ q > 0 /\ q < n
      <4>1. Len(a) = n
        BY <1>1, <3>2
      <4>2. q > 0 /\ q < n
        BY <1>2, <3>1
      <4> QED
        BY <3>2, <4>1, <4>2
    <3>4. \A i \in 1..n : a[i] = IF i > n THEN h[n] ELSE h[i]
      BY <1>2, <3>2
    <3>5. \A i \in 1..(2 * q) : a[i] = IF i > n THEN h[n] ELSE h[i]
      BY <3>1, <3>4
    <3>6. 2 * q >= n /\ 2 * q <= n + 1
      BY <1>2, <3>1
    <3> WITNESS q \in Nat
    <3> QED
      BY <3>3, <3>5, <3>6
  <2> QED
    BY <2>1, <2>2
<1> DEFINE up == [i \in 1..m |-> SHA256(<<a[2*i - 1], a[2*i]>>)]
           sib == Sibling(x)
           step == [Hash |-> a[sib + 1], Left |-> sib < x]
<1>5. Climb(s) = [hashes |-> up, index |-> x \div 2, steps |-> Append(st, step)]
  BY <1>1, <1>3, <1>4 DEF Climb
<1>6. up = MerkleLevel(h)
  <2>1. \A i \in 1..m : /\ 2*i - 1 \in 1..(2*m) /\ 2*i \in 1..(2*m) /\ ~(2*i - 1 > n)
                        /\ 2*i > n => 2*i - 1 = n
    BY <1>2, <1>4
  <2>2. \A i \in 1..m : a[2*i - 1] = h[2*i - 1]
                        /\ a[2*i] = IF 2*i > n THEN h[2*i - 1] ELSE h[2*i]
    BY <1>4, <2>1
  <2> QED
    BY <1>1, <1>4, <2>2 DEF MerkleLevel
<1>7. IsLevel(up) /\ Len(up) = m
  <2>1. up = [i \in 1..m |-> up[i]] /\ \A i \in 1..m : up[i] # NoHash
    BY DEF SHA256, NoHash
  <2> HIDE DEF up
  <2> QED
    BY <1>4, <2>1, LevelOf
<1>8. PICK y \in Nat : /\ y = x \div 2 /\ y \in 0..(m - 1)
                       /\ (sib = x + 1 /\ x = 2 * y) \/ (sib = x - 1 /\ x = 2 * y + 1)
  <2>1. PICK q \in Nat : q = x \div 2 /\ (x = 2 * q \/ x = 2 * q + 1)
    BY <1>2
  <2>2. q \in 0..(m - 1)
    BY <1>2, <1>4, <2>1
  <2>3. x = 2 * q => x % 2 = 0
    BY <2>1
  <2>4. x = 2 * q + 1 => x % 2 = 1
    BY <2>1
  <2> QED
    BY <1>2, <2>1, <2>2, <2>3, <2>4 DEF Sibling
<1>9. step.Hash # NoHash /\ up[y + 1] = StepUp(h[x + 1], step)
  <2>1. a[x + 1] = h[x + 1] /\ up[y + 1] = SHA256(<<a[2 * y + 1], a[2 * y + 2]>>)
    <3>1. x + 1 \in 1..(2 * m) /\ ~(x + 1 > n) /\ y + 1 \in 1..m
      BY <1>2, <1>4, <1>8
    <3>2. 2 * (y + 1) - 1 = 2 * y + 1 /\ 2 * (y + 1) = 2 * y + 2
      OBVIOUS
    <3>3. up[y + 1] = SHA256(<<a[2 * (y + 1) - 1], a[2 * (y + 1)]>>)
      BY <3>1
    <3> HIDE DEF up
    <3> QED
      BY <1>4, <3>1, <3>2, <3>3
  <2>5. sib + 1 \in 1..(2 * m)
    BY <1>2, <1>4, <1>8
  <2>6. \A i \in 1..(2 * m) : a[i] # NoHash
    <3>1. \A i \in 1..(2 * m) : i > n \/ i \in 1..n
      BY <1>2
    <3>2. n \in 1..n
      BY <1>2
    <3> QED
      BY <1>2, <1>4, <3>1, <3>2
  <2>7. step.Hash = a[sib + 1]
    OBVIOUS
  <2>2. step.Hash = a[sib + 1] /\ step.Hash # NoHash
    <3> HIDE DEF step, sib
    <3> QED
      BY <2>5, <2>6, <2>7
  <2>3. CASE sib = x + 1 /\ x = 2 * y
    <3>1. ~(sib < x) /\ sib + 1 = 2 * y + 2 /\ x + 1 = 2 * y + 1
      BY <2>3
    <3>4. (sib < x) = FALSE
      <4>1. ~(sib < x)
        BY <3>1
      <4> HIDE DEF sib
      <4> QED
        BY <4>1
    <3>2. step = [Hash |-> a[sib + 1], Left |-> FALSE]
      <4> HIDE DEF sib
      <4> QED
        BY <3>4
    <3>3. StepUp(h[x + 1], step) = SHA256(<<h[x + 1], step.Hash>>)
      <4> HIDE DEF sib, step
      <4> QED
        BY <3>2 DEF StepUp
    <3> QED
      BY <2>1, <2>2, <3>1, <3>3
  <2>4. CASE sib = x - 1 /\ x = 2 * y + 1
    <3>1. sib < x /\ sib + 1 = 2 * y + 1 /\ x + 1 = 2 * y + 2
      BY <2>4
    <3>2. step = [Hash |-> a[sib + 1], Left |-> TRUE]
      <4> HIDE DEF sib
      <4> QED
        BY <3>1, Zenon
    <3>3. StepUp(h[x + 1], step) = SHA256(<<step.Hash, h[x + 1]>>)
      <4> HIDE DEF sib, step
      <4> QED
        BY <3>2 DEF StepUp
    <3> QED
      BY <2>1, <2>2, <3>1, <3>3
  <2> QED
    BY <1>8, <2>3, <2>4
<1> HIDE DEF up, sib, step
<1>10. /\ Len(st) \in Nat /\ st \in Seq({st[i] : i \in 1..Len(st)})
       /\ \A i \in 1..Len(st) : st[i].Hash # NoHash
       /\ FoldsTo(leaf, st, h[x + 1])
  BY <1>1 DEF Halfway
<1>11. PICK T : T = {st[i] : i \in 1..Len(st)} \cup {step}
  OBVIOUS
<1>13. st \in Seq(T) /\ step \in T
  BY <1>10, <1>11
<1>12. PICK more \in Seq(T) :
          /\ more = Append(st, step) /\ Len(more) = Len(st) + 1
          /\ more[Len(st) + 1] = step /\ \A i \in 1..Len(st) : more[i] = st[i]
  <2>1. PICK more : more = Append(st, step)
    OBVIOUS
  <2>2. /\ more \in Seq(T) /\ Len(more) = Len(st) + 1
        /\ more[Len(st) + 1] = step /\ \A i \in 1..Len(st) : more[i] = st[i]
    BY <1>13, <2>1, OneMore
  <2> QED
    BY <2>1, <2>2
<1>14. FoldsTo(leaf, more, StepUp(h[x + 1], step))
  BY <1>10, <1>12, <1>13, FoldsOn
<1>15. \A i \in 1..Len(more) : i \in 1..Len(st) \/ i = Len(st) + 1
  BY <1>10, <1>12
<1>16. Len(more) \in Nat /\ \A i \in 1..Len(more) : more[i].Hash # NoHash
  BY <1>9, <1>10, <1>12, <1>15
<1>17. more \in Seq({more[i] : i \in 1..Len(more)})
  BY <1>16
<1>18. Halfway([hashes |-> up, index |-> y, steps |-> more], leaf)
  BY <1>7, <1>8, <1>9, <1>14, <1>16, <1>17 DEF Halfway
<1>19. PICK c : c = [hashes |-> up, index |-> y, steps |-> more]
  OBVIOUS
<1>20. Climb(s) = c /\ c.hashes = up
  BY <1>5, <1>8, <1>12, <1>19
<1>21. Len(up) < Len(s.hashes)
  BY <1>1, <1>4, <1>7
<1> QED
  BY <1>1, <1>6, <1>18, <1>19, <1>20, <1>21

\* f is what the rounds of Proof's loop make of its start.
ClimbRun(f, n, start) ==
    /\ f = [i \in 0..n |-> f[i]] /\ f[0] = start
    /\ \A i \in 1..n : f[i] = IF Len(f[i-1].hashes) > 1 THEN Climb(f[i-1]) ELSE f[i-1]

LEMMA RunsExist ==
    ASSUME NEW n \in Nat, NEW start PROVE \E f : ClimbRun(f, n, start)
<1> DEFINE S == {i \in 0..n : \E f : ClimbRun(f, i, start)}
<1>1. 0 \in S
  <2> DEFINE f == [i \in 0..0 |-> start]
  <2>1. f = [i \in 0..0 |-> f[i]] /\ f[0] = start /\ 1..0 = {}
    OBVIOUS
  <2> HIDE DEF f
  <2>2. ClimbRun(f, 0, start)
    BY <2>1 DEF ClimbRun
  <2> QED
    BY <2>2
<1>2. ASSUME NEW m \in 1..n, m - 1 \in S PROVE m \in S
  <2>1. PICK f : ClimbRun(f, m - 1, start)
    BY <1>2
  <2>2. PICK r : r = IF Len(f[m-1].hashes) > 1 THEN Climb(f[m-1]) ELSE f[m-1]
    OBVIOUS
  <2> DEFINE g == [i \in 0..m |-> IF i = m THEN r ELSE f[i]]
  <2>3. g = [i \in 0..m |-> g[i]] /\ g[m] = r /\ \A i \in 0..(m - 1) : g[i] = f[i]
    OBVIOUS
  <2> HIDE DEF g
  <2>4. 0 \in 0..(m - 1) /\ g[0] = start
    BY <2>1, <2>3, SMTT(40) DEF ClimbRun
  <2>5. ASSUME NEW i \in 1..m
        PROVE  g[i] = IF Len(g[i-1].hashes) > 1 THEN Climb(g[i-1]) ELSE g[i-1]
    <3>1. PICK j \in 0..(m - 1) : j = i - 1
      OBVIOUS
    <3>2. g[i-1] = f[i-1]
      BY <2>3, <3>1
    <3>3. CASE i = m
      BY <2>2, <2>3, <3>2, <3>3
    <3>4. CASE i # m
      <4>1. i \in 1..(m - 1) /\ i \in 0..(m - 1)
        BY <3>4
      <4> QED
        BY <2>1, <2>3, <3>2, <4>1 DEF ClimbRun
    <3> QED
      BY <3>3, <3>4
  <2>6. ClimbRun(g, m, start)
    BY <2>3, <2>4, <2>5 DEF ClimbRun
  <2> QED
    BY <2>6
<1>3. n \in S
  <2> HIDE DEF S
  <2>1. \A i \in 0..n : i \in S
    BY <1>1, <1>2, Upward
  <2> QED
    BY <2>1
<1> QED
  BY <1>3

\* As many rounds as there are leaves lead to a single hash.
LEMMA RunsReachTheTop ==
    ASSUME NEW n \in Nat, n > 0, NEW f, NEW start, ClimbRun(f, n, start), NEW leaf,
           Halfway(start, leaf), Len(start.hashes) = n
    PROVE  /\ \A i \in 0..n : Halfway(f[i], leaf)
           /\ Len(f[n].hashes) = 1 /\ f[n].index = 0
<1> DEFINE P(i) == /\ Halfway(f[i], leaf)
                   /\ Len(f[i].hashes) = 1 \/ Len(f[i].hashes) <= n - i
           S == {i \in 0..n : P(i)}
<1>1. 0 \in S
  BY DEF ClimbRun
<1>2. ASSUME NEW i \in 1..n, i - 1 \in S PROVE i \in S
  <2>1. PICK s, t : s = f[i-1] /\ t = f[i]
    OBVIOUS
  <2>2. PICK j \in 0..n : j = i - 1
    OBVIOUS
  <2>3. Halfway(s, leaf) /\ (Len(s.hashes) = 1 \/ Len(s.hashes) <= n - (i - 1))
    BY <1>2, <2>1
  <2>4. t = IF Len(s.hashes) > 1 THEN Climb(s) ELSE s
    BY <2>1 DEF ClimbRun
  <2>5. Len(s.hashes) \in Nat /\ Len(s.hashes) > 0
    BY <2>3 DEF Halfway, IsLevel
  <2>6. CASE Len(s.hashes) > 1
    <3>1. t = Climb(s)
      BY <2>4, <2>6
    <3>2. Halfway(t, leaf) /\ Len(t.hashes) < Len(s.hashes)
      BY <2>3, <2>6, <3>1, ClimbsUp
    <3>3. Len(t.hashes) \in Nat
      BY <3>2 DEF Halfway, IsLevel
    <3>4. Len(t.hashes) <= n - i
      <4>1. PICK ls \in Nat, lt \in Nat : ls = Len(s.hashes) /\ lt = Len(t.hashes)
        BY <2>5, <3>3
      <4>2. lt < ls /\ ls > 1 /\ (ls = 1 \/ ls <= n - (i - 1))
        BY <2>3, <2>6, <3>2, <4>1
      <4>3. lt <= n - i
        BY <4>2
      <4> QED
        BY <4>1, <4>3
    <3> QED
      BY <2>1, <3>2, <3>4
  <2>7. CASE ~(Len(s.hashes) > 1)
    <3>1. Len(s.hashes) = 1
      <4>1. PICK ls \in Nat : ls = Len(s.hashes)
        BY <2>5
      <4>2. ls > 0 /\ ~(ls > 1)
        BY <2>5, <2>7, <4>1
      <4>3. ls = 1
        BY <4>2
      <4> QED
        BY <4>1, <4>3
    <3>2. f[i] = s
      BY <2>1, <2>4, <2>7
    <3>3. P(i)
      BY <2>3, <3>1, <3>2
    <3> QED
      BY <3>3
  <2> QED
    BY <2>6, <2>7
<1>3. \A i \in 0..n : i \in S
  <2> HIDE DEF S
  <2> QED
    BY <1>1, <1>2, Upward
<1>4. \A i \in 0..n : P(i)
  BY <1>3
<1>5. P(n)
  BY <1>4
<1>6. Len(f[n].hashes) \in Nat /\ Len(f[n].hashes) > 0 /\ f[n].index \in 0..(Len(f[n].hashes) - 1)
  BY <1>5 DEF Halfway, IsLevel
<1>7. Len(f[n].hashes) = 1
  BY <1>5, <1>6
<1>8. f[n].index = 0
  BY <1>6, <1>7
<1> QED
  BY <1>4, <1>7, <1>8

\* The levels BuildTree makes of the leaves are those Proof climbs.
LEMMA TreeRootIs ==
    ASSUME NEW its, NEW n \in Nat, n > 0, Len(Leaves(its)) = n, Leaves(its) # <<>>,
           NEW f, NEW start, ClimbRun(f, n, start), start.hashes = Leaves(its), NEW leaf,
           \A i \in 0..n : Halfway(f[i], leaf)
    PROVE  TreeRoot(its) = f[n].hashes[1]
<1>1. PICK leaves : leaves = Leaves(its)
  OBVIOUS
<1> DEFINE P(g) == g = [i \in 0..n |-> IF i = 0 THEN leaves
                                       ELSE IF Len(g[i-1]) > 1 THEN MerkleLevel(g[i-1])
                                       ELSE g[i-1]]
           c == CHOOSE g : P(g)
           h == [i \in 0..n |-> f[i].hashes]
<1>2. h[0] = leaves
  BY <1>1 DEF ClimbRun
<1>3. ASSUME NEW i \in 1..n
      PROVE  h[i] = IF Len(h[i-1]) > 1 THEN MerkleLevel(h[i-1]) ELSE h[i-1]
  <2>1. PICK s, t : s = f[i-1] /\ t = f[i]
    OBVIOUS
  <2>2. PICK j \in 0..n : j = i - 1 /\ i \in 0..n
    OBVIOUS
  <2>3. h[i] = t.hashes /\ h[i-1] = s.hashes /\ Halfway(s, leaf)
    BY <2>1, <2>2
  <2>4. t = IF Len(s.hashes) > 1 THEN Climb(s) ELSE s
    BY <2>1 DEF ClimbRun
  <2> HIDE DEF h
  <2>5. CASE Len(s.hashes) > 1
    <3>1. t = Climb(s)
      BY <2>4, <2>5
    <3>2. t.hashes = MerkleLevel(s.hashes)
      BY <2>3, <2>5, <3>1, ClimbsUp
    <3> QED
      BY <2>3, <2>5, <3>2
  <2>6. CASE ~(Len(s.hashes) > 1)
    BY <2>3, <2>4, <2>6
  <2> QED
    BY <2>5, <2>6
<1>4. P(h)
  <2>1. h = [i \in 0..n |-> h[i]] /\ \A i \in 0..n : i = 0 \/ i \in 1..n
    OBVIOUS
  <2> HIDE DEF h
  <2> QED
    BY <1>2, <1>3, <2>1
<1>5. P(c)
  <2> HIDE DEF P, h
  <2> QED
    BY <1>4
<1>6. TreeRoot(its) = c[n][1]
  BY <1>1 DEF TreeRoot
<1> HIDE DEF c, h
<1> DEFINE S == {i \in 0..n : c[i] = h[i]}
<1>7. 0 \in S
  BY <1>2, <1>5
<1>8. ASSUME NEW i \in 1..n, i - 1 \in S PROVE i \in S
  <2>1. i \in 0..n /\ i # 0 /\ c[i-1] = h[i-1]
    BY <1>8
  <2>2. c[i] = IF Len(c[i-1]) > 1 THEN MerkleLevel(c[i-1]) ELSE c[i-1]
    BY <1>5, <2>1
  <2> QED
    BY <1>3, <2>1, <2>2
<1>9. \A i \in 0..n : i \in S
  <2> HIDE DEF S
  <2> QED
    BY <1>7, <1>8, Upward
<1>10. c[n] = h[n]
  BY <1>9
<1>11. h[n] = f[n].hashes
  BY DEF h
<1> QED
  BY <1>6, <1>10, <1>11

\* Proof's loop is a run from the key's leaf.
LEMMA ProofIs ==
    ASSUME NEW its, NEW key, NEW n \in Nat, Len(Leaves(its)) = n,
           NEW at, at = CHOOSE i \in 1..n : SortedKeys(its)[i] = key,
           NEW start, start = [hashes |-> Leaves(its), index |-> at - 1, steps |-> <<>>]
    PROVE  \E f : /\ ClimbRun(f, n, start)
                  /\ Proof(its, key) = [Key |-> key, Value |-> its[key],
                                        Root |-> f[n].hashes[1], Steps |-> f[n].steps, Version |-> 1]
<1> DEFINE P(g) == g = [i \in 0..n |-> IF i = 0 THEN start
                                       ELSE IF Len(g[i-1].hashes) > 1 THEN Climb(g[i-1])
                                       ELSE g[i-1]]
           c == CHOOSE g : P(g)
<1>1. PICK f : ClimbRun(f, n, start)
  BY RunsExist
<1>2. P(f)
  <2>1. f = [i \in 0..n |-> f[i]] /\ \A i \in 0..n : i = 0 \/ i \in 1..n
    BY <1>1 DEF ClimbRun
  <2> QED
    BY <1>1, <2>1 DEF ClimbRun
<1>3. P(c)
  <2> HIDE DEF P
  <2> QED
    BY <1>2
<1>4. Proof(its, key) = [Key |-> key, Value |-> its[key],
                         Root |-> c[n].hashes[1], Steps |-> c[n].steps, Version |-> 1]
  BY DEF Proof
<1> HIDE DEF c
<1>5. ClimbRun(c, n, start)
  <2>1. c = [i \in 0..n |-> c[i]] /\ c[0] = start
    BY <1>3
  <2>2. \A i \in 1..n : i \in 0..n /\ i # 0
    OBVIOUS
  <2>3. \A i \in 1..n : c[i] = IF Len(c[i-1].hashes) > 1 THEN Climb(c[i-1]) ELSE c[i-1]
    BY <1>3, <2>2
  <2> QED
    BY <2>1, <2>3 DEF ClimbRun
<1> QED
  BY <1>4, <1>5

\* No steps lead from a leaf to itself.
LEMMA FoldsNowhere ==
    ASSUME NEW leaf PROVE FoldsTo(leaf, <<>>, leaf)
<1> DEFINE f == [i \in 0..0 |-> leaf]
<1>1. f = [i \in 0..0 |-> f[i]] /\ f[0] = leaf /\ Len(<<>>) = 0 /\ 1..0 = {}
  OBVIOUS
<1> HIDE DEF f
<1>2. FoldRun(f, leaf, <<>>) /\ f[Len(<<>>)] = leaf
  BY <1>1 DEF FoldRun
<1> QED
  BY <1>2 DEF FoldsTo

\* f is the run of Proof's loop for key k, from the n leaves to the root.
KeyRun(its, k, n, f) ==
    /\ n \in Nat /\ Len(Leaves(its)) = n
    /\ \E start : ClimbRun(f, n, start) /\ start.hashes = Leaves(its)
    /\ \A i \in 0..n : Halfway(f[i], Leaf(k, its[k]))
    /\ Len(f[n].hashes) = 1 /\ f[n].index = 0
    /\ TreeRoot(its) = f[n].hashes[1]
    /\ Proof(its, k) = [Key |-> k, Value |-> its[k],
                        Root |-> f[n].hashes[1], Steps |-> f[n].steps, Version |-> 1]

LEMMA KeysHaveRuns ==
    ASSUME NEW its, DOMAIN its \subseteq Keys, NEW k \in DOMAIN its
    PROVE  \E n, f : KeyRun(its, k, n, f)
<1>1. PICK keys : keys = SortedKeys(its)
  OBVIOUS
<1>2. keys \in Seq(Keys) /\ {keys[i] : i \in 1..Len(keys)} = DOMAIN its
  <2>1. PICK K \in SUBSET Keys : K = DOMAIN its
    OBVIOUS
  <2>2. keys = InOrder(K)
    BY <1>1, <2>1 DEF SortedKeys
  <2> QED
    <3>1. /\ InOrder(K) \in Seq(Keys)
          /\ {InOrder(K)[i] : i \in 1..Len(InOrder(K))} = K
      BY InOrderIs, Zenon
    <3> QED
      BY <2>1, <2>2, <3>1
<1>3. PICK n \in Nat : n = Len(keys)
  BY <1>2
<1>4. \E i \in 1..n : keys[i] = k
  BY <1>2, <1>3
<1>5. PICK at : at = CHOOSE i \in 1..n : keys[i] = k
  OBVIOUS
<1>6. at \in 1..n /\ keys[at] = k /\ n > 0
  BY <1>4, <1>5
<1>7. PICK leaves : leaves = Leaves(its)
  OBVIOUS
<1>8. leaves = [i \in 1..n |-> Leaf(keys[i], its[keys[i]])]
  BY <1>1, <1>3, <1>7 DEF Leaves
<1>9. PICK leaf : leaf = Leaf(k, its[k])
  OBVIOUS
<1>10. leaves[at] = leaf /\ leaves = [i \in 1..n |-> leaves[i]]
  BY <1>6, <1>8, <1>9
<1>11. \A i \in 1..n : leaves[i] # NoHash
  BY <1>8 DEF Leaf, SHA256, NoHash
<1>12. IsLevel(leaves) /\ Len(leaves) = n
  BY <1>6, <1>10, <1>11, LevelOf
<1>13. leaves # <<>>
  BY <1>6, <1>12
<1>14. PICK start : start = [hashes |-> leaves, index |-> at - 1, steps |-> <<>>]
  OBVIOUS
<1>15. Halfway(start, leaf)
  <2>1. start.hashes = leaves /\ start.index = at - 1 /\ start.steps = <<>>
    BY <1>14
  <2>2. at - 1 \in 0..(n - 1) /\ (at - 1) + 1 = at
    BY <1>6
  <2>3. FoldsTo(leaf, start.steps, start.hashes[start.index + 1])
    BY <1>10, <2>1, <2>2, FoldsNowhere
  <2>4. /\ Len(start.steps) = 0 /\ 1..0 = {}
        /\ start.steps \in Seq({start.steps[i] : i \in 1..Len(start.steps)})
    BY <2>1
  <2> QED
    BY <1>12, <1>14, <2>1, <2>2, <2>3, <2>4 DEF Halfway
<1>16. PICK f : /\ ClimbRun(f, n, start)
                /\ Proof(its, k) = [Key |-> k, Value |-> its[k],
                                    Root |-> f[n].hashes[1], Steps |-> f[n].steps, Version |-> 1]
  <2>1. Len(Leaves(its)) = n /\ at = CHOOSE i \in 1..n : SortedKeys(its)[i] = k
    BY <1>1, <1>5, <1>7, <1>12
  <2>2. start = [hashes |-> Leaves(its), index |-> at - 1, steps |-> <<>>]
    BY <1>7, <1>14
  <2> QED
    BY <2>1, <2>2, ProofIs, ZenonT(60)
<1>17. start.hashes = leaves
  BY <1>14
<1>18. /\ \A i \in 0..n : Halfway(f[i], leaf)
       /\ Len(f[n].hashes) = 1 /\ f[n].index = 0
  BY <1>6, <1>12, <1>15, <1>16, <1>17, RunsReachTheTop
<1>19. TreeRoot(its) = f[n].hashes[1]
  <2>1. Len(Leaves(its)) = n /\ Leaves(its) # <<>> /\ start.hashes = Leaves(its)
    BY <1>7, <1>12, <1>13, <1>17
  <2>2. n > 0 /\ ClimbRun(f, n, start) /\ \A i \in 0..n : Halfway(f[i], leaf)
    BY <1>6, <1>16, <1>18
  <2> QED
    BY <2>1, <2>2, TreeRootIs, ZenonT(60)
<1>20. KeyRun(its, k, n, f)
  BY <1>7, <1>9, <1>12, <1>16, <1>17, <1>18, <1>19 DEF KeyRun
<1> QED
  BY <1>20

\* Every key of a state has a proof that verifies against the state's root.
LEMMA ProofOfKey ==
    ASSUME NEW its, DOMAIN its \subseteq Keys, NEW k \in DOMAIN its
    PROVE  VerifyProof(Proof(its, k)) /\ Proof(its, k).Root = TreeRoot(its)
<1>1. PICK n, f : KeyRun(its, k, n, f)
  BY KeysHaveRuns
<1>2. PICK leaf : leaf = Leaf(k, its[k])
  OBVIOUS
<1>3. PICK top : top = f[n]
  OBVIOUS
<1>4. /\ Halfway(top, leaf) /\ Len(top.hashes) = 1 /\ top.index = 0
       /\ top.hashes[1] # NoHash
  <2>1. Halfway(top, leaf) /\ Len(top.hashes) = 1 /\ top.index = 0
    <3>1. n \in 0..n
      BY <1>1 DEF KeyRun
    <3> QED
      BY <1>1, <1>2, <1>3, <3>1 DEF KeyRun
  <2> QED
    BY <2>1 DEF Halfway, IsLevel
<1>5. /\ FoldsTo(leaf, top.steps, top.hashes[1]) /\ Len(top.steps) \in Nat
       /\ \A i \in 1..Len(top.steps) : top.steps[i].Hash # NoHash
  <2>1. top.index + 1 = 1
    BY <1>4
  <2> QED
    BY <1>4, <2>1 DEF Halfway
<1>6. Folded(leaf, top.steps) = top.hashes[1]
  BY <1>5, FoldedIs
<1>7. PICK p : p = Proof(its, k)
  OBVIOUS
<1>8. /\ p.Key = k /\ p.Value = its[k] /\ p.Root = top.hashes[1] /\ p.Steps = top.steps
      /\ p.Version # 0
  BY <1>1, <1>3, <1>7 DEF KeyRun
<1>9. k # NoKey
  BY KeyOrderAssumption
<1>10. VerifyProof(p)
  BY <1>2, <1>4, <1>5, <1>6, <1>8, <1>9 DEF VerifyProof
<1> QED
  BY <1>1, <1>3, <1>7, <1>8, <1>10 DEF KeyRun

\* Every key of every state the program can write has a proof: it verifies,
\* and the root that Proof's own loop computes is BuildTree's, for any set of
\* keys and any shape of tree (merkle.go:39-49, 68-80, 83-99).
THEOREM ProofsVerify == ProofSpec => []ProofVerifies
<1> DEFINE I == DOMAIN items \subseteq Keys
<1>1. ProofInit => I
  BY DEF ProofInit, EmptyMap
<1>2. I /\ [ProofNext]_ProofVars => I'
  BY DEF ProofNext, ProofVars, Put, Issue, MapPut
<1>3. I => ProofVerifies
  BY ProofOfKey DEF ProofVerifies
<1> QED
  BY <1>1, <1>2, <1>3, PTL DEF ProofSpec

\* z is a hash of a level of the tree that the run f climbs.
InTree(f, n, z) == \E i \in 0..n : \E j \in 1..Len(f[i].hashes) : z = f[i].hashes[j]

\* z is a leaf, or made of two hashes of the tree.
IsNode(f, n, leaves, z) ==
    \/ \E l \in 1..Len(leaves) : z = leaves[l]
    \/ \E x, y : InTree(f, n, x) /\ InTree(f, n, y) /\ z = SHA256(<<x, y>>)

LEMMA TreeNodes ==
    ASSUME NEW n \in Nat, NEW f, NEW start, ClimbRun(f, n, start), NEW leaf,
           \A i \in 0..n : Halfway(f[i], leaf), NEW z, InTree(f, n, z)
    PROVE  IsNode(f, n, start.hashes, z)
<1> DEFINE P(i) == \A j \in 1..Len(f[i].hashes) : IsNode(f, n, start.hashes, f[i].hashes[j])
           S == {i \in 0..n : P(i)}
<1>1. 0 \in S
  <2>1. f[0] = start
    BY DEF ClimbRun
  <2> QED
    BY <2>1 DEF IsNode
<1>2. ASSUME NEW i \in 1..n, i - 1 \in S PROVE i \in S
  <2>1. PICK s, t : s = f[i-1] /\ t = f[i]
    OBVIOUS
  <2>2. i \in 0..n /\ i - 1 \in 0..n
    OBVIOUS
  <2>3. Halfway(s, leaf) /\ Halfway(t, leaf)
    BY <2>1, <2>2
  <2>4. t = IF Len(s.hashes) > 1 THEN Climb(s) ELSE s
    BY <2>1 DEF ClimbRun
  <2>5. P(i - 1)
    BY <1>2
  <2>6. CASE Len(s.hashes) > 1
    <3>1. t.hashes = MerkleLevel(s.hashes)
      <4>1. t = Climb(s)
        BY <2>4, <2>6
      <4> QED
        BY <2>3, <2>6, <4>1, ClimbsUp
    <3>9. PICK h : h = s.hashes
      OBVIOUS
    <3>10. PICK m \in Nat : m = Len(h)
      BY <2>3, <3>9 DEF Halfway, IsLevel
    <3>2. h = s.hashes /\ m = Len(h)
      BY <3>9, <3>10
    <3>3. PICK q \in Nat : q = (m + 1) \div 2 /\ 2 * q <= m + 1
      OBVIOUS
    <3>4. t.hashes = [j \in 1..q |-> SHA256(<<h[2*j - 1], IF 2*j > m THEN h[2*j - 1] ELSE h[2*j]>>)]
      BY <3>1, <3>2, <3>3 DEF MerkleLevel
    <3>5. Len(t.hashes) = q
      BY <3>4
    <3>6. \A l \in 1..m : InTree(f, n, h[l])
      BY <2>1, <2>2, <3>2 DEF InTree
    <3>7. ASSUME NEW j \in 1..q PROVE IsNode(f, n, start.hashes, t.hashes[j])
      <4>1. 2*j - 1 \in 1..m /\ (2*j > m \/ 2*j \in 1..m)
        BY <3>3
      <4>2. PICK x, y : x = h[2*j - 1] /\ y = IF 2*j > m THEN h[2*j - 1] ELSE h[2*j]
        OBVIOUS
      <4>3. InTree(f, n, x) /\ InTree(f, n, y)
        BY <3>6, <4>1, <4>2
      <4>4. t.hashes[j] = SHA256(<<x, y>>)
        BY <3>4, <4>2
      <4> QED
        BY <4>3, <4>4 DEF IsNode
    <3>8. P(i)
      BY <2>1, <3>5, <3>7
    <3> QED
      BY <2>2, <3>8
  <2>7. CASE ~(Len(s.hashes) > 1)
    <3>1. f[i] = f[i-1]
      BY <2>1, <2>4, <2>7
    <3>2. P(i)
      BY <2>5, <3>1
    <3> QED
      BY <2>2, <3>2
  <2> QED
    BY <2>6, <2>7
<1>3. \A i \in 0..n : i \in S
  <2> HIDE DEF S
  <2> QED
    BY <1>1, <1>2, Upward
<1> QED
  BY <1>3 DEF InTree

\* VerifyProof's loop has a result for any leaf and steps.
LEMMA FoldsSomewhere ==
    ASSUME NEW leaf, NEW steps, Len(steps) \in Nat
    PROVE  \E g : FoldRun(g, leaf, steps)
<1>1. PICK n \in Nat : n = Len(steps)
  OBVIOUS
<1> DEFINE P(g, m) == /\ g = [i \in 0..m |-> g[i]] /\ g[0] = leaf
                      /\ \A i \in 1..m : g[i] = StepUp(g[i-1], steps[i])
           S == {m \in 0..n : \E g : P(g, m)}
<1>2. 0 \in S
  <2> DEFINE g == [i \in 0..0 |-> leaf]
  <2>1. g = [i \in 0..0 |-> g[i]] /\ g[0] = leaf /\ 1..0 = {}
    OBVIOUS
  <2> HIDE DEF g
  <2>2. P(g, 0)
    BY <2>1
  <2> QED
    BY <2>2
<1>3. ASSUME NEW m \in 1..n, m - 1 \in S PROVE m \in S
  <2>1. PICK g : P(g, m - 1)
    BY <1>3
  <2>2. PICK r : r = StepUp(g[m-1], steps[m])
    OBVIOUS
  <2> DEFINE h == [i \in 0..m |-> IF i = m THEN r ELSE g[i]]
  <2>3. h = [i \in 0..m |-> h[i]] /\ h[m] = r /\ \A i \in 0..(m - 1) : h[i] = g[i]
    OBVIOUS
  <2> HIDE DEF h
  <2>4. h[0] = leaf
    BY <2>1, <2>3, SMTT(40)
  <2>5. ASSUME NEW i \in 1..m PROVE h[i] = StepUp(h[i-1], steps[i])
    <3>1. PICK j \in 0..(m - 1) : j = i - 1
      OBVIOUS
    <3>2. h[i-1] = g[i-1]
      BY <2>3, <3>1
    <3>3. CASE i = m
      BY <2>2, <2>3, <3>2, <3>3
    <3>4. CASE i # m
      <4>1. i \in 1..(m - 1) /\ i \in 0..(m - 1)
        BY <3>4
      <4> QED
        BY <2>1, <2>3, <3>2, <4>1
    <3> QED
      BY <3>3, <3>4
  <2>6. P(h, m)
    BY <2>3, <2>4, <2>5
  <2>7. m \in 0..n
    OBVIOUS
  <2> HIDE DEF P
  <2> QED
    BY <2>6, <2>7
<1>4. n \in S
  <2> HIDE DEF S
  <2>1. \A i \in 0..n : i \in S
    BY <1>2, <1>3, Upward
  <2> QED
    BY <2>1
<1> QED
  BY <1>1, <1>4 DEF FoldRun

\* Hashes of different things differ: nothing, a text, two hashes.
LEMMA HashesDiffer ==
    /\ \A a, b : SHA256(a) = SHA256(b) => a = b
    /\ \A a, b : SHA256(<<a, b>>) # SHA256(<<>>)
    /\ \A t : SHA256(<<t>>) # SHA256(<<>>)
    /\ \A a, b, t : SHA256(<<a, b>>) # SHA256(<<t>>)
<1>1. \A a, b : SHA256(a) = SHA256(b) => a = b
  BY DEF SHA256
<1>2. \A a, b, t : Len(<<a, b>>) = 2 /\ Len(<<t>>) = 1 /\ Len(<<>>) = 0
  OBVIOUS
<1>3. \A a, b, t : <<a, b>> # <<>> /\ <<t>> # <<>> /\ <<a, b>> # <<t>>
  BY <1>2
<1> QED
  BY <1>1, <1>3

\* Where the bytes of a text come from.
LEMMA TextBytes ==
    ASSUME NEW k \in Seq(Nat), NEW v \in Seq(Nat)
    PROVE  /\ Text(k, v) \in Seq(Nat) /\ Len(Text(k, v)) = Len(k) + 1 + Len(v)
           /\ \A i \in 1..Len(k) : Text(k, v)[i] = k[i]
           /\ Text(k, v)[Len(k) + 1] = Equals
           /\ \A i \in 1..Len(v) : Text(k, v)[Len(k) + 1 + i] = v[i]
<1>1. PICK e : e = <<Equals>>
  OBVIOUS
<1>2. e \in Seq(Nat) /\ Len(e) = 1 /\ e[1] = Equals
  BY <1>1 DEF Equals
<1>3. PICK a : a = k \o e
  OBVIOUS
<1>4. /\ a \in Seq(Nat) /\ Len(a) = Len(k) + 1
      /\ \A i \in 1..Len(k) : a[i] = k[i]
      /\ a[Len(k) + 1] = Equals
  <2>0. /\ k \o e \in Seq(Nat) /\ Len(k \o e) = Len(k) + Len(e)
        /\ \A i \in 1 .. Len(k) + Len(e) : (k \o e)[i] =
              IF i <= Len(k) THEN k[i] ELSE e[i - Len(k)]
    BY <1>2, ConcatProperties, Zenon
  <2>1. a \in Seq(Nat) /\ Len(a) = Len(k) + 1
    BY <1>2, <1>3, <2>0
  <2>2. \A i \in 1..(Len(k) + 1) : a[i] = IF i <= Len(k) THEN k[i] ELSE e[i - Len(k)]
    BY <1>2, <1>3, <2>0
  <2>3. Len(k) \in Nat
    OBVIOUS
  <2>4. (Len(k) + 1) - Len(k) = 1 /\ Len(k) + 1 \in 1..(Len(k) + 1) /\ ~(Len(k) + 1 <= Len(k))
    BY <2>3
  <2>5. \A i \in 1..Len(k) : i \in 1..(Len(k) + 1) /\ i <= Len(k)
    BY <2>3
  <2> QED
    BY <1>2, <2>1, <2>2, <2>4, <2>5
<1>5. PICK t : t = a \o v
  OBVIOUS
<1>6. Text(k, v) = t
  BY <1>1, <1>3, <1>5 DEF Text
<1>7. /\ t \in Seq(Nat) /\ Len(t) = Len(a) + Len(v)
      /\ \A i \in 1..(Len(a) + Len(v)) : t[i] = IF i <= Len(a) THEN a[i] ELSE v[i - Len(a)]
  <2>1. /\ a \o v \in Seq(Nat) /\ Len(a \o v) = Len(a) + Len(v)
        /\ \A i \in 1 .. Len(a) + Len(v) : (a \o v)[i] =
              IF i <= Len(a) THEN a[i] ELSE v[i - Len(a)]
    BY <1>4, ConcatProperties, Zenon
  <2> QED
    BY <1>5, <2>1
<1>8. PICK n \in Nat, m \in Nat : n = Len(k) /\ m = Len(v)
  OBVIOUS
<1>9. \A i \in 1..(n + 1) : t[i] = a[i]
  <2>1. \A i \in 1..(n + 1) : i \in 1..((n + 1) + m) /\ i <= n + 1
    OBVIOUS
  <2> QED
    BY <1>4, <1>7, <1>8, <2>1
<1>10. ASSUME NEW i \in 1..m PROVE t[n + 1 + i] = v[i]
  <2>1. n + 1 + i \in 1..((n + 1) + m) /\ ~(n + 1 + i <= n + 1) /\ (n + 1 + i) - (n + 1) = i
    OBVIOUS
  <2> QED
    BY <1>4, <1>7, <1>8, <2>1
<1>11. n + 1 \in 1..(n + 1) /\ \A i \in 1..n : i \in 1..(n + 1)
  OBVIOUS
<1> QED
  BY <1>4, <1>6, <1>7, <1>8, <1>9, <1>10, <1>11

\* The pair can be read back from a text whose key has no "=".
LEMMA TextBinds ==
    ASSUME NEW k \in Seq(Nat), NEW v \in Seq(Nat), NEW e \in Seq(Nat), NEW w \in Seq(Nat),
           ~HasEquals(k), ~HasEquals(e), Text(k, v) = Text(e, w)
    PROVE  k = e /\ v = w
<1>1. PICK n \in Nat, m \in Nat : n = Len(k) /\ m = Len(e)
  OBVIOUS
<1>2. PICK t : t = Text(k, v)
  OBVIOUS
<1>3. /\ Len(t) = n + 1 + Len(v) /\ t[n + 1] = Equals
      /\ \A i \in 1..n : t[i] = k[i]
      /\ \A i \in 1..Len(v) : t[n + 1 + i] = v[i]
  BY <1>1, <1>2, TextBytes
<1>4. /\ Len(t) = m + 1 + Len(w) /\ t[m + 1] = Equals
      /\ \A i \in 1..m : t[i] = e[i]
      /\ \A i \in 1..Len(w) : t[m + 1 + i] = w[i]
  <2>1. t = Text(e, w)
    BY <1>2
  <2> QED
    BY <1>1, <2>1, TextBytes
<1>5. (\A i \in 1..n : k[i] # Equals) /\ (\A i \in 1..m : e[i] # Equals)
  BY <1>1 DEF HasEquals
<1>6. ~(n < m)
  <2> SUFFICES ASSUME n < m PROVE FALSE
    OBVIOUS
  <2>1. n + 1 \in 1..m
    OBVIOUS
  <2> QED
    BY <1>3, <1>4, <1>5, <2>1
<1>7. ~(m < n)
  <2> SUFFICES ASSUME m < n PROVE FALSE
    OBVIOUS
  <2>1. m + 1 \in 1..n
    OBVIOUS
  <2> QED
    BY <1>3, <1>4, <1>5, <2>1
<1>8. n = m
  BY <1>6, <1>7
<1>9. k = e
  <2>1. Len(k) = Len(e) /\ \A i \in 1..Len(k) : k[i] = e[i]
    BY <1>1, <1>3, <1>4, <1>8
  <2> QED
    BY <2>1, SeqEqual
<1>10. v = w
  <2>1. Len(v) \in Nat /\ Len(w) \in Nat
    OBVIOUS
  <2>2. Len(v) = Len(w)
    BY <1>3, <1>4, <1>8, <2>1
  <2>3. \A i \in 1..Len(v) : v[i] = w[i]
    BY <1>3, <1>4, <1>8, <2>2
  <2> QED
    BY <2>2, <2>3, SeqEqual
<1> QED
  BY <1>9, <1>10

\* Whatever steps lead from a key and a value to the root of a state, an entry
\* there has their text.
LEMMA StepsBind ==
    ASSUME NEW its, DOMAIN its \subseteq Keys, NEW steps, Len(steps) \in Nat, NEW k, NEW v,
           Folded(Leaf(k, v), steps) = TreeRoot(its)
    PROVE  \E e \in DOMAIN its : Text(e, its[e]) = Text(k, v)
<1>1. PICK leaf : leaf = Leaf(k, v)
  OBVIOUS
<1>2. PICK m \in Nat : m = Len(steps)
  OBVIOUS
<1>3. PICK g : FoldRun(g, leaf, steps)
  BY FoldsSomewhere
<1>4. g[0] = leaf /\ g[m] = TreeRoot(its)
  <2>1. FoldsTo(leaf, steps, g[m])
    BY <1>2, <1>3 DEF FoldsTo
  <2>2. Folded(leaf, steps) = g[m]
    BY <2>1, FoldedIs
  <2> QED
    BY <1>1, <1>3, <2>2 DEF FoldRun
<1>5. \A i \in 1..m : \E y : g[i] = SHA256(<<g[i-1], y>>) \/ g[i] = SHA256(<<y, g[i-1]>>)
  BY <1>2, <1>3 DEF FoldRun, StepUp
<1>6. PICK keys : keys = SortedKeys(its)
  OBVIOUS
<1>7. keys \in Seq(Keys) /\ {keys[i] : i \in 1..Len(keys)} = DOMAIN its
  <2>1. PICK K \in SUBSET Keys : K = DOMAIN its
    OBVIOUS
  <2>2. /\ InOrder(K) \in Seq(Keys)
        /\ {InOrder(K)[i] : i \in 1..Len(InOrder(K))} = K
    BY InOrderIs, Zenon
  <2> QED
    BY <1>6, <2>1, <2>2 DEF SortedKeys
<1>8. PICK leaves : leaves = Leaves(its)
  OBVIOUS
<1>9. leaves = [i \in 1..Len(keys) |-> Leaf(keys[i], its[keys[i]])] /\ Len(keys) \in Nat
  BY <1>6, <1>7, <1>8 DEF Leaves
<1>10. Len(leaves) = Len(keys)
  BY <1>9
<1>11. CASE DOMAIN its = {}
  <2>1. Len(keys) = 0
    BY <1>7, <1>9, <1>11
  <2>2. leaves = <<>>
    BY <1>9, <2>1
  <2>3. g[m] = SHA256(<<>>)
    BY <1>4, <1>8, <2>2 DEF TreeRoot
  <2>4. m = 0
    <3>1. m # 0 => m \in 1..m
      OBVIOUS
    <3> QED
      BY <1>5, <2>3, <3>1, HashesDiffer
  <2> QED
    BY <1>1, <1>4, <2>3, <2>4, HashesDiffer DEF Leaf
<1>12. CASE DOMAIN its # {}
  <2>1. PICK k0 \in DOMAIN its : TRUE
    BY <1>12
  <2>2. PICK n, f : KeyRun(its, k0, n, f)
    BY <2>1, KeysHaveRuns
  <2>3. PICK lf : lf = Leaf(k0, its[k0])
    OBVIOUS
  <2>4. n \in Nat /\ (\A i \in 0..n : Halfway(f[i], lf)) /\ TreeRoot(its) = f[n].hashes[1]
        /\ Len(f[n].hashes) = 1
    BY <2>2, <2>3 DEF KeyRun
  <2>5. PICK start : ClimbRun(f, n, start) /\ start.hashes = leaves
    BY <1>8, <2>2 DEF KeyRun
  <2>6. \A z : InTree(f, n, z) => IsNode(f, n, leaves, z)
    <3> TAKE z
    <3> HAVE InTree(f, n, z)
    <3>1. IsNode(f, n, start.hashes, z)
      BY <2>4, <2>5, TreeNodes
    <3> QED
      BY <2>5, <3>1
  <2>7. \A x, y : InTree(f, n, SHA256(<<x, y>>)) => InTree(f, n, x) /\ InTree(f, n, y)
    <3> TAKE x, y
    <3> HAVE InTree(f, n, SHA256(<<x, y>>))
    <3>1. IsNode(f, n, leaves, SHA256(<<x, y>>))
      BY <2>6
    <3>2. ASSUME NEW l \in 1..Len(leaves), SHA256(<<x, y>>) = leaves[l] PROVE FALSE
      <4>1. leaves[l] = Leaf(keys[l], its[keys[l]])
        BY <1>9, <1>10
      <4> QED
        BY <3>2, <4>1, HashesDiffer DEF Leaf
    <3>3. PICK a, b : InTree(f, n, a) /\ InTree(f, n, b) /\ SHA256(<<x, y>>) = SHA256(<<a, b>>)
      BY <3>1, <3>2 DEF IsNode
    <3>4. <<x, y>> = <<a, b>>
      BY <3>3, HashesDiffer
    <3>5. x = a /\ y = b
      BY <3>4
    <3> QED
      BY <3>3, <3>5
  <2> DEFINE S == {i \in 0..m : InTree(f, n, g[m - i])}
  <2>8. 0 \in S
    <3>1. m - 0 = m /\ n \in 0..n /\ 1 \in 1..Len(f[n].hashes)
      BY <2>4
    <3>2. InTree(f, n, f[n].hashes[1])
      BY <3>1 DEF InTree
    <3> QED
      BY <1>4, <2>4, <3>1, <3>2
  <2>9. ASSUME NEW i \in 1..m, i - 1 \in S PROVE i \in S
    <3>1. PICK j \in 1..m : j = m - (i - 1)
      OBVIOUS
    <3>2. j - 1 = m - i /\ i \in 0..m
      BY <3>1
    <3>3. InTree(f, n, g[j])
      BY <2>9, <3>1
    <3>4. PICK y : g[j] = SHA256(<<g[j-1], y>>) \/ g[j] = SHA256(<<y, g[j-1]>>)
      BY <1>5
    <3>5. InTree(f, n, g[j-1])
      BY <2>7, <3>3, <3>4
    <3> QED
      BY <3>2, <3>5
  <2>10. \A i \in 0..m : i \in S
    <3> HIDE DEF S
    <3> QED
      BY <2>8, <2>9, Upward
  <2>11. InTree(f, n, leaf)
    <3>1. m \in 0..m /\ m - m = 0
      OBVIOUS
    <3> QED
      BY <1>4, <2>10, <3>1
  <2>12. IsNode(f, n, leaves, leaf)
    BY <2>6, <2>11
  <2>13. \A x, y : leaf # SHA256(<<x, y>>)
    BY <1>1, HashesDiffer DEF Leaf
  <2>14. PICK l \in 1..Len(leaves) : leaf = leaves[l]
    BY <2>12, <2>13 DEF IsNode
  <2>15. leaf = Leaf(keys[l], its[keys[l]]) /\ keys[l] \in DOMAIN its
    BY <1>7, <1>9, <1>10, <2>14
  <2>16. <<Text(k, v)>> = <<Text(keys[l], its[keys[l]])>>
    BY <1>1, <2>15, HashesDiffer DEF Leaf
  <2>17. Text(k, v) = Text(keys[l], its[keys[l]])
    <3>1. \A x, y : <<x>> = <<y>> => x = y
      OBVIOUS
    <3> QED
      BY <2>16, <3>1
  <2> QED
    BY <2>15, <2>17
<1> QED
  BY <1>11, <1>12

\* No steps the client can hold, whenever they were issued and however the
\* state was written since, convince it of anything but the text of an entry
\* the present state has, which is the entry itself while no key has an "="
\* (merkle.go:83-99).
THEOREM HeldProofsBind == ProofSpec => []HeldProofBinds
<1> DEFINE I == /\ DOMAIN items \subseteq Keys
                /\ \A k \in DOMAIN items : items[k] \in Values
                /\ held # NoProof =>
                     /\ held = [Key |-> held.Key, Value |-> held.Value,
                                Root |-> held.Root, Steps |-> held.Steps,
                                Version |-> held.Version]
                     /\ Len(held.Steps) \in Nat
<1>1. ProofInit => I
  BY DEF ProofInit, EmptyMap
<1>2. I /\ [ProofNext]_ProofVars => I'
  <2> SUFFICES ASSUME I, [ProofNext]_ProofVars PROVE I'
    OBVIOUS
  <2>1. ASSUME NEW k \in Keys, NEW v \in Values, Put(k, v) PROVE I'
    BY <2>1 DEF Put, MapPut
  <2>2. ASSUME NEW k \in Keys, Issue(k) PROVE I'
    <3>1. k \in DOMAIN items /\ items' = items /\ held' = Proof(items, k)
      BY <2>2 DEF Issue
    <3>2. PICK n, f : KeyRun(items, k, n, f)
      BY <3>1, KeysHaveRuns
    <3>3. held' = [Key |-> k, Value |-> items[k], Root |-> f[n].hashes[1], Steps |-> f[n].steps, Version |-> 1]
      BY <3>1, <3>2 DEF KeyRun
    <3>4. Len(f[n].steps) \in Nat
      <4>1. n \in 0..n
        BY <3>2 DEF KeyRun
      <4> QED
        BY <3>2, <4>1 DEF KeyRun, Halfway
    <3> QED
      BY <3>1, <3>3, <3>4
  <2>3. CASE UNCHANGED ProofVars
    BY <2>3 DEF ProofVars
  <2> QED
    BY <2>1, <2>2, <2>3 DEF ProofNext
<1>3. I => HeldProofBinds
  <2> SUFFICES ASSUME I, held # NoProof, NEW k \in Keys, NEW v \in Values,
                      VerifyProof([held EXCEPT !.Key = k, !.Value = v, !.Root = TreeRoot(items)])
               PROVE  /\ \E e \in DOMAIN items : Text(e, items[e]) = Text(k, v)
                      /\ (\A e \in DOMAIN items \cup {k} : ~HasEquals(e))
                           => k \in DOMAIN items /\ items[k] = v
    BY DEF HeldProofBinds
  <2>1. PICK r : r = TreeRoot(items)
    OBVIOUS
  <2>2. PICK p : p = [held EXCEPT !.Key = k, !.Value = v, !.Root = r]
    OBVIOUS
  <2>3. p.Key = k /\ p.Value = v /\ p.Root = r /\ p.Steps = held.Steps
    BY <2>2
  <2>4. VerifyProof(p)
    BY <2>1, <2>2
  <2>5. Folded(Leaf(k, v), held.Steps) = TreeRoot(items)
    BY <2>1, <2>3, <2>4 DEF VerifyProof
  <2>6. PICK e \in DOMAIN items : Text(e, items[e]) = Text(k, v)
    BY <2>5, StepsBind
  <2>7. ASSUME ~HasEquals(e), ~HasEquals(k) PROVE e = k /\ items[e] = v
    <3>1. e \in Seq(Nat) /\ items[e] \in Seq(Nat) /\ k \in Seq(Nat) /\ v \in Seq(Nat)
      BY BytesAssumption
    <3> QED
      BY <2>6, <2>7, <3>1, TextBinds
  <2> QED
    BY <2>6, <2>7
<1> QED
  BY <1>1, <1>2, <1>3, PTL DEF ProofSpec
=============================================================================
