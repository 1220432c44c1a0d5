------------------------------ MODULE Executor ------------------------------
(***************************************************************************)
(* state_machine.Executor (internal/state_machine/executor.go): batches of *)
(* transactions under a gas limit, undone when one of them fails.          *)
(*                                                                         *)
(* ApplyWithRollback is three calls, each with a lock of its own: Snapshot *)
(* and Rollback on the state, and in between Execute, which holds x.mu and *)
(* locks the state once per transaction.  Batches of two callers overlap   *)
(* everywhere but in Execute.                                              *)
(***************************************************************************)
EXTENDS StateMachine

CONSTANTS
    Batchers,   \* goroutines that call ApplyWithRollback, once each
    Batches,    \* the sequences of transactions they pass
    VersionHeights,  \* the heights they pass
    MaxGas,     \* Executor.MaxGas
    MaxTxGas,   \* math.MaxUint32
    Unlocked    \* no caller holds x.mu

ASSUME BatchesAssumption ==
    Batches \subseteq Seq([Gas : Nat, Key : Keys \cup {NoKey}, Value : Values,
                           WellFormed : BOOLEAN])
ASSUME GasAssumption == MaxGas \in Nat /\ MaxTxGas \in Nat \ {0}
ASSUME BatchersAssumption == Unlocked \notin Batchers

VARIABLES
    execMu,     \* Executor.mu: the caller that holds it
    batch       \* caller -> its next step and its locals

ExecVars == <<data, versions, execMu, batch>>

\* ValidateTx(t) == nil.  WellFormed stands for the conditions on the sender,
\* the receiver, the sizes and the nonce; a key is not among them.
ValidateTx(t) == t.WellFormed /\ t.Gas # 0 /\ t.Gas <= MaxTxGas

\* MaxGas - GasUsed does not wrap around: see AllOrNothing.
Fits(t, used) == t.Gas <= MaxGas - used

EnterBatch(c, locals) == batch' = [batch EXCEPT ![c] = locals]

\* Not in the code, for the properties: before is the state the call found,
\* alone whether no other call has been under way during this one.
Busy(c) == batch[c].pc \notin {"start", "returned"}
Overlapped(c) ==
    [d \in Batchers |-> IF d # c /\ Busy(d) THEN [batch[d] EXCEPT !.alone = FALSE]
                        ELSE batch[d]]

\* x.State.Snapshot(h)
SnapshotFirst(c) ==
    /\ batch[c].pc = "start"
    /\ \E h \in VersionHeights, txs \in Batches :
         /\ Snapshot(h)
         /\ batch' = [Overlapped(c) EXCEPT ![c] =
                        [pc |-> "lock", h |-> h, txs |-> txs, before |-> data,
                         alone |-> \A d \in Batchers : ~Busy(d)]]
    /\ UNCHANGED <<data, execMu>>

ExecuteLock(c) ==
    /\ batch[c].pc = "lock"
    /\ execMu = Unlocked /\ execMu' = c
    /\ EnterBatch(c, [pc |-> "execute", h |-> batch[c].h, txs |-> batch[c].txs,
                      before |-> batch[c].before, alone |-> batch[c].alone,
                      done |-> 0,
                      res |-> [Applied |-> 0, Failed |-> 0, GasUsed |-> 0]])
    /\ UNCHANGED <<data, versions>>

\* One round of Execute's loop: the gas limit, ValidateTx, then Apply.  A
\* transaction that fails is counted, and the next one is tried.
ExecuteTx(c) ==
    /\ batch[c].pc = "execute"
    /\ batch[c].done < Len(batch[c].txs)
    /\ LET t == batch[c].txs[batch[c].done + 1]
           tried == Fits(t, batch[c].res.GasUsed) /\ ValidateTx(t)
       IN /\ IF tried THEN Apply(t) ELSE UNCHANGED data
          /\ batch' =
               IF tried /\ Applies(t)
               THEN [batch EXCEPT ![c].done = @ + 1,
                                  ![c].res.Applied = @ + 1,
                                  ![c].res.GasUsed = @ + t.Gas]
               ELSE [batch EXCEPT ![c].done = @ + 1,
                                  ![c].res.Failed = @ + 1]
    /\ UNCHANGED <<versions, execMu>>

\* Bug: the mutex is not released.
ExecuteEndLocked(c) ==
    /\ batch[c].pc = "execute"
    /\ batch[c].done = Len(batch[c].txs)
    /\ batch' = [batch EXCEPT ![c].pc = "decide"]
    /\ UNCHANGED <<data, versions, execMu>>

\* Execute returns.
ExecuteEnd(c) ==
    /\ batch[c].pc = "execute"
    /\ batch[c].done = Len(batch[c].txs)
    /\ execMu' = Unlocked
    /\ batch' = [batch EXCEPT ![c].pc = "decide"]
    /\ UNCHANGED <<data, versions>>

\* Bug: the old values come back, new keys stay.
RollbackMerges(c) ==
    /\ batch[c].pc = "decide"
    /\ data' = IF batch[c].res.Failed > 0
               THEN [k \in DOMAIN data \cup DOMAIN versions[batch[c].h] |->
                       IF k \in DOMAIN versions[batch[c].h]
                       THEN versions[batch[c].h][k] ELSE data[k]]
               ELSE data
    /\ batch' = [batch EXCEPT ![c].pc = "returned"]
    /\ UNCHANGED <<versions, execMu>>

RollbackLast(c) ==
    /\ batch[c].pc = "decide"
    /\ IF batch[c].res.Failed > 0 THEN Rollback(batch[c].h) ELSE UNCHANGED data
    /\ batch' = [batch EXCEPT ![c].pc = "returned"]
    /\ UNCHANGED <<versions, execMu>>

ExecInit ==
    /\ StateInit
    /\ execMu = Unlocked
    /\ batch = [c \in Batchers |-> [pc |-> "start"]]

Proceed(c) ==
    ExecuteLock(c) \/ ExecuteTx(c) \/ ExecuteEnd(c) \/ RollbackLast(c)

ExecNext ==
    \/ \E c \in Batchers : SnapshotFirst(c) \/ Proceed(c)
    \/ (\A c \in Batchers : batch[c].pc = "returned") /\ UNCHANGED ExecVars

\* A call that has begun keeps running; Execute is finite, so whoever waits
\* for x.mu gets it.
ExecSpec ==
    /\ ExecInit /\ [][ExecNext]_ExecVars
    /\ \A c \in Batchers : WF_ExecVars(Proceed(c)) /\ SF_ExecVars(ExecuteLock(c))
-----------------------------------------------------------------------------
\* A batch that no other call overlaps is all or nothing: after a failure the
\* state is the one the call found, keys added meanwhile are gone and old
\* values back; without one every transaction's write is there
\* (executor.go:73-80, state.go:60-72).  Alone or not, no batch has used more
\* gas than the limit (executor.go:32, 48).
AllOrNothing ==
    [][\A c \in Batchers :
         (batch[c].pc = "decide" /\ batch'[c].pc = "returned") =>
            LET old == batch[c].before
                new == Replay(<<batch[c].txs>>)
            IN /\ batch[c].res.GasUsed <= MaxGas
               /\ batch[c].alone =>
                    IF batch[c].res.Failed > 0 THEN data' = old
                    ELSE /\ batch[c].res.Applied = Len(batch[c].txs)
                         /\ data' = [k \in DOMAIN old \cup DOMAIN new |->
                                        IF k \in DOMAIN new THEN new[k] ELSE old[k]]
      ]_ExecVars

\* Every call returns: x.mu is released, and nobody waits while holding it
\* (executor.go:27-28).
BatchReturns == \A c \in Batchers : Busy(c) ~> batch[c].pc = "returned"
=============================================================================
