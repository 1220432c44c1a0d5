----------------------------- MODULE ChainNode -----------------------------
(***************************************************************************)
(* app.Node (internal/app/node.go): the handlers of the HTTP requests that *)
(* change the node, and proofH, run by one goroutine per request, over the *)
(* shared transaction pool, state, repository, audit log and counters.     *)
(*                                                                         *)
(* A handler is a sequence of steps, one per call of a method that locks a *)
(* shared object; between two steps any other request may take its own.    *)
(* mine, snapH and snapVerify hold opMu throughout, txH and proofH do not. *)
(* req[r] is what goroutine r will do next and the locals it still needs.  *)
(*                                                                         *)
(* Requests that read once (/healthz, /metrics, the listings) change       *)
(* nothing and are not actions.                                            *)
(***************************************************************************)
EXTENDS Mempool, StateMachine, Repo

CONSTANTS
    Posted,     \* the transactions clients post
    Submits,    \* requests POST /api/v1/transactions
    Mines,      \* requests POST /api/v1/blocks/mine
    Snapshots,  \* requests POST /api/v1/snapshots
    Verifies,   \* requests POST /api/v1/snapshots/{id}/verify
    ProofReads, \* requests GET /api/v1/proofs/{key}
    RandomIDs,  \* IDs txH may draw for a transaction without one
    Nobody      \* no request: the owner of opMu when it is free

Requests == Submits \cup Mines \cup Snapshots \cup Verifies \cup ProofReads

ASSUME RequestsAssumption ==
    /\ Nobody \notin Requests
    /\ Submits \cap (Mines \cup Snapshots \cup Verifies \cup ProofReads) = {}
    /\ Mines \cap (Snapshots \cup Verifies \cup ProofReads) = {}
    /\ Snapshots \cap (Verifies \cup ProofReads) = {}
    /\ Verifies \cap ProofReads = {}

\* Of a transaction posted without an ID txH makes one with a random ID.
Drawn(t) == IF t.ID = NoID THEN {[t EXCEPT !.ID = i] : i \in RandomIDs} ELSE {t}

ASSUME PostedAssumption ==
    /\ RandomIDs \subseteq TxIDs
    /\ \A t \in Posted : Drawn(t) \subseteq Txs
ASSUME TxWritesAssumption ==
    \A t \in Txs : /\ t.ID # NoID
                   /\ t.Gas \in Nat
                   /\ t.Key \in Keys \cup {NoKey}
                   /\ t.Value \in Values

VARIABLES
    opMu,       \* Node.opMu: the request that holds it, or Nobody
    req,        \* request -> its next step and its locals
    auditLog,   \* audit.Log.events, without their times and hashes
    metrics     \* observability.Metrics: Blocks and Errors

Components == <<tx, byAcct, now, data, versions, blocks, snaps>>
NodeVars == <<Components, opMu, req, auditLog, metrics>>

At(r, step) == req[r].pc = step

Goto(r, locals) == req' = [req EXCEPT ![r] = locals]

\* The handler returns: write(w, ..., code).
Return(r, code) == Goto(r, [pc |-> "done", code |-> code])

AppendAudit(action, detail) ==
    auditLog' = Append(auditLog, [Action |-> action, Detail |-> detail])

\* The requests that have begun to apply a block which is not stored yet.
Applying == {r \in Mines : At(r, "apply") \/ At(r, "put")}

\* Not in the code, for ProofCoherent: a proof that is being built while a
\* block is applied is marked.
Disturbed ==
    [p \in Requests |->
        IF p \in ProofReads /\ (At(p, "proofdata") \/ At(p, "proofroot"))
        THEN [req[p] EXCEPT !.calm = FALSE] ELSE req[p]]

\* Bug: the handler does not wait for the lock.
BargeIn(r) == opMu' = r

Lock(r) == opMu = Nobody /\ opMu' = r
Unlock == opMu' = Nobody
-----------------------------------------------------------------------------
(* txH.  The ID is drawn before the pool is locked; a draw that meets an ID *)
(* in use is refused as a duplicate.                                        *)
TxAdd(r) ==
    /\ r \in Submits /\ At(r, "start")
    /\ \E t0 \in Posted : \E t \in Drawn(t0) :
         IF Accepts(t)
         THEN /\ Add(t)
              /\ Goto(r, [pc |-> "accepted", tx |-> t])
              /\ UNCHANGED metrics
         ELSE /\ UNCHANGED <<tx, byAcct>>
              /\ metrics' = [metrics EXCEPT !.Errors = @ + 1]
              /\ Return(r, 409)
    /\ UNCHANGED <<now, data, versions, blocks, snaps, opMu, auditLog>>

TxAudit(r) ==
    /\ r \in Submits /\ At(r, "accepted")
    /\ AppendAudit("tx.accept", req[r].tx.ID)
    /\ Goto(r, [pc |-> "done", code |-> 202, tx |-> req[r].tx])
    /\ UNCHANGED <<Components, opMu, metrics>>
-----------------------------------------------------------------------------
(* mine *)
MineLock(r) ==
    /\ r \in Mines /\ At(r, "start")
    /\ Lock(r)
    /\ Goto(r, [pc |-> "list"])
    /\ UNCHANGED <<Components, auditLog, metrics>>

MineList(r) ==
    /\ At(r, "list")
    /\ \E txs \in Listings(now) : Goto(r, [pc |-> "latest", txs |-> txs])
    /\ UNCHANGED <<Components, opMu, auditLog, metrics>>

MineLatest(r) ==
    /\ At(r, "latest")
    /\ Goto(r, [pc |-> "apply", txs |-> req[r].txs, prev |-> Latest, done |-> 0])
    /\ UNCHANGED <<Components, opMu, auditLog, metrics>>

\* One round of the loop.  A transaction that fails to apply is skipped, and
\* stays in the block.
MineApply(r) ==
    /\ At(r, "apply")
    /\ req[r].done < Len(req[r].txs)
    /\ Apply(req[r].txs[req[r].done + 1])
    /\ req' = [Disturbed EXCEPT ![r].done = @ + 1]
    /\ UNCHANGED <<tx, byAcct, now, versions, blocks, snaps>>
    /\ UNCHANGED <<opMu, auditLog, metrics>>

\* Bug: the block links to the block before its predecessor.
LinksToGrandparent(txs, prev, root, at) ==
    LET h == Header(prev.Header.Height + 1, prev.Header.PrevHash, root,
                    MerkleRoot(txs), at \div TicksPerSecond)
    IN [Header |-> h, Transactions |-> txs, Hash |-> HeaderHash(h)]

NewBlock(txs, prev, root, at) ==
    LET h == Header(prev.Header.Height + 1, prev.Hash, root, MerkleRoot(txs),
                    at \div TicksPerSecond)
    IN [Header |-> h, Transactions |-> txs, Hash |-> HeaderHash(h)]

\* Bug: the root is taken before every transaction is applied.
BuildEarly(r) ==
    /\ At(r, "apply")
    /\ Goto(r, [pc |-> "put",
                block |-> NewBlock(req[r].txs, req[r].prev, Root(data), now)])
    /\ UNCHANGED <<Components, opMu, auditLog, metrics>>

MineBuild(r) ==
    /\ At(r, "apply")
    /\ req[r].done = Len(req[r].txs)
    /\ Goto(r, [pc |-> "put",
                block |-> NewBlock(req[r].txs, req[r].prev, Root(data), now)])
    /\ UNCHANGED <<Components, opMu, auditLog, metrics>>

MinePut(r) ==
    /\ At(r, "put")
    /\ PutBlock(req[r].block)
    /\ IF HeightFree(req[r].block)
       THEN Goto(r, [req[r] EXCEPT !.pc = "remove"]) /\ UNCHANGED opMu
       ELSE Return(r, 409) /\ Unlock
    /\ UNCHANGED <<tx, byAcct, now, data, versions, snaps, auditLog, metrics>>

\* Bug: the transactions of the block are left in the pool.
KeepCommitted(r) ==
    /\ At(r, "remove")
    /\ req' = [req EXCEPT ![r].pc = "count"]
    /\ UNCHANGED <<Components, opMu, auditLog, metrics>>

\* Bug: the pool is emptied of every transaction it holds by now.
RemoveEverything(r) ==
    /\ At(r, "remove")
    /\ Remove(DOMAIN tx)
    /\ req' = [req EXCEPT ![r].pc = "count"]
    /\ UNCHANGED <<now, data, versions, blocks, snaps, opMu, auditLog, metrics>>

\* The IDs are those of the list, which may be old: a transaction that was
\* replaced since is not in the pool any more.
MineRemove(r) ==
    /\ At(r, "remove")
    /\ LET txs == req[r].block.Transactions
       IN Remove({txs[i].ID : i \in 1..Len(txs)})
    /\ req' = [req EXCEPT ![r].pc = "count"]
    /\ UNCHANGED <<now, data, versions, blocks, snaps, opMu, auditLog, metrics>>

\* Bug: opMu is released before the commit is recorded.
CountUnlocks(r) ==
    /\ At(r, "count")
    /\ metrics' = [metrics EXCEPT !.Blocks = @ + 1]
    /\ Unlock
    /\ req' = [req EXCEPT ![r].pc = "commit"]
    /\ UNCHANGED <<Components, auditLog>>

MineCount(r) ==
    /\ At(r, "count")
    /\ metrics' = [metrics EXCEPT !.Blocks = @ + 1]
    /\ req' = [req EXCEPT ![r].pc = "commit"]
    /\ UNCHANGED <<Components, opMu, auditLog>>

MineAudit(r) ==
    /\ At(r, "commit")
    /\ AppendAudit("block.commit", req[r].block.Header.Height)
    /\ Unlock
    /\ Return(r, 201)
    /\ UNCHANGED <<Components, metrics>>
-----------------------------------------------------------------------------
(* snapH with POST.  The ID is the clock, read when the lock is held; two   *)
(* snapshots of one clock reading have the same ID, and the second replaces *)
(* the first.                                                               *)
SnapLock(r) ==
    /\ r \in Snapshots /\ At(r, "start")
    /\ Lock(r)
    /\ Goto(r, [pc |-> "height"])
    /\ UNCHANGED <<Components, auditLog, metrics>>

SnapHeight(r) ==
    /\ At(r, "height")
    /\ Goto(r, [pc |-> "root", id |-> now, height |-> Latest.Header.Height])
    /\ UNCHANGED <<Components, opMu, auditLog, metrics>>

SnapRoot(r) ==
    /\ At(r, "root")
    /\ Goto(r, [pc |-> "data", id |-> req[r].id, height |-> req[r].height,
                root |-> Root(data)])
    /\ UNCHANGED <<Components, opMu, auditLog, metrics>>

SnapData(r) ==
    /\ At(r, "data")
    /\ Goto(r, [pc |-> "putsnap",
                snap |-> [ID |-> req[r].id, Height |-> req[r].height,
                          Root |-> req[r].root, Data |-> data,
                          Verified |-> FALSE]])
    /\ UNCHANGED <<Components, opMu, auditLog, metrics>>

SnapPut(r) ==
    /\ At(r, "putsnap")
    /\ PutSnapshot(req[r].snap)
    /\ req' = [req EXCEPT ![r].pc = "version"]
    /\ UNCHANGED <<tx, byAcct, now, data, versions, blocks>>
    /\ UNCHANGED <<opMu, auditLog, metrics>>

SnapVersion(r) ==
    /\ At(r, "version")
    /\ Snapshot(req[r].snap.Height)
    /\ req' = [req EXCEPT ![r].pc = "created"]
    /\ UNCHANGED <<tx, byAcct, now, data, blocks, snaps>>
    /\ UNCHANGED <<opMu, auditLog, metrics>>

SnapAudit(r) ==
    /\ At(r, "created")
    /\ AppendAudit("snapshot.create", req[r].snap.ID)
    /\ Unlock
    /\ Return(r, 201)
    /\ UNCHANGED <<Components, metrics>>
-----------------------------------------------------------------------------
(* snapVerify.  An empty ID (400) is one more ID that is not found.         *)
VerifyLock(r) ==
    /\ r \in Verifies /\ At(r, "start")
    /\ Lock(r)
    /\ Goto(r, [pc |-> "get"])
    /\ UNCHANGED <<Components, auditLog, metrics>>

\* Bug: the early return forgets the lock.
VerifyGetHoldsLock(r) ==
    /\ At(r, "get")
    /\ \E id \in 0..MaxTime :
         IF id \in DOMAIN snaps
         THEN Goto(r, [pc |-> "compare", snap |-> snaps[id]])
         ELSE Return(r, 404)
    /\ UNCHANGED <<Components, opMu, auditLog, metrics>>

VerifyGet(r) ==
    /\ At(r, "get")
    /\ \E id \in 0..MaxTime :
         IF id \in DOMAIN snaps
         THEN Goto(r, [pc |-> "compare", snap |-> snaps[id]]) /\ UNCHANGED opMu
         ELSE Return(r, 404) /\ Unlock
    /\ UNCHANGED <<Components, auditLog, metrics>>

\* The snapshot is compared with the present state, not with its own data.
VerifyCompare(r) ==
    /\ At(r, "compare")
    /\ Goto(r, [pc |-> "putback",
                snap |-> [req[r].snap EXCEPT
                            !.Verified = (req[r].snap.Root = Root(data))]])
    /\ UNCHANGED <<Components, opMu, auditLog, metrics>>

VerifyPut(r) ==
    /\ At(r, "putback")
    /\ PutSnapshot(req[r].snap)
    /\ Unlock
    /\ Return(r, 200)
    /\ UNCHANGED <<tx, byAcct, now, data, versions, blocks, auditLog, metrics>>
-----------------------------------------------------------------------------
(* proofH: Build asks the state for the value, the data and the root, each  *)
(* under a lock of its own, and knows nothing of opMu.                      *)
ItemLeaf(k, v) == SHA256(<<k, "=", v>>)

\* Bug: the proof's own key is among its siblings.
SiblingsOfAll(k, d) ==
    LET keys == InOrder(DOMAIN d)
    IN [i \in 1..Len(keys) |-> ItemLeaf(keys[i], d[keys[i]])]

\* Item.Path: the hashes of all other pairs, in the order of their keys.
Siblings(k, d) ==
    LET keys == InOrder(DOMAIN d \ {k})
    IN [i \in 1..Len(keys) |-> ItemLeaf(keys[i], d[keys[i]])]

\* A key that is not there is answered with an Item that has nothing else.
ProofGet(r) ==
    /\ r \in ProofReads /\ At(r, "start")
    /\ \E k \in Keys :
         IF k \in DOMAIN data
         THEN Goto(r, [pc |-> "proofdata", calm |-> Applying = {},
                       item |-> [Key |-> k, Value |-> data[k]]])
         ELSE Return(r, 200)
    /\ UNCHANGED <<Components, opMu, auditLog, metrics>>

ProofData(r) ==
    /\ At(r, "proofdata")
    /\ Goto(r, [pc |-> "proofroot", calm |-> req[r].calm,
                item |-> req[r].item, path |-> Siblings(req[r].item.Key, data)])
    /\ UNCHANGED <<Components, opMu, auditLog, metrics>>

ProofRoot(r) ==
    /\ At(r, "proofroot")
    /\ Goto(r, [pc |-> "done", code |-> 200, calm |-> req[r].calm,
                item |-> [Key |-> req[r].item.Key, Value |-> req[r].item.Value,
                          Root |-> Root(data), Path |-> req[r].path]])
    /\ UNCHANGED <<Components, opMu, auditLog, metrics>>

\* Verify(item): with siblings, anything that has a key and a root.
VerifyItem(item) ==
    /\ item.Key # NoKey
    /\ item.Path = <<>> => ItemLeaf(item.Key, item.Value) = item.Root
-----------------------------------------------------------------------------
NodeInit ==
    /\ PoolInit /\ StateInit /\ RepoInit
    /\ opMu = Nobody
    /\ req = [r \in Requests |-> [pc |-> "start"]]
    /\ auditLog = <<>>
    /\ metrics = [Blocks |-> 0, Errors |-> 0]

TxH(r) == TxAdd(r) \/ TxAudit(r)

MineBody(r) ==
    \/ MineList(r) \/ MineLatest(r) \/ MineApply(r) \/ MineBuild(r)
    \/ MinePut(r) \/ MineRemove(r) \/ MineCount(r) \/ MineAudit(r)

SnapBody(r) ==
    \/ SnapHeight(r) \/ SnapRoot(r) \/ SnapData(r)
    \/ SnapPut(r) \/ SnapVersion(r) \/ SnapAudit(r)

VerifyBody(r) == VerifyGet(r) \/ VerifyCompare(r) \/ VerifyPut(r)

Locking(r) == MineLock(r) \/ SnapLock(r) \/ VerifyLock(r)

ProofBody(r) == ProofGet(r) \/ ProofData(r) \/ ProofRoot(r)

Step(r) == TxH(r) \/ MineBody(r) \/ SnapBody(r) \/ VerifyBody(r) \/ ProofBody(r)

Clock == Tick /\ UNCHANGED <<data, versions, blocks, snaps>>
              /\ UNCHANGED <<opMu, req, auditLog, metrics>>

AllDone == \A r \in Requests : At(r, "done")

\* Every request has been answered.
Quiet == AllDone /\ UNCHANGED NodeVars

NodeNext == (\E r \in Requests : Locking(r) \/ Step(r)) \/ Clock \/ Quiet

NodeSpec == NodeInit /\ [][NodeNext]_NodeVars

\* A goroutine that can run runs; one that waits for opMu gets it in the end
\* (a sync.Mutex hands itself to a waiter that has waited for a millisecond).
NodeFairness ==
    \A r \in Requests : WF_NodeVars(Step(r)) /\ SF_NodeVars(Locking(r))

NodeFairSpec == NodeSpec /\ NodeFairness
-----------------------------------------------------------------------------
\* The transactions of the first h blocks, and the state they lead to.
History(h) == [g \in 1..h |-> blocks[g].Transactions]
StateAt(h) == Replay(History(h))

Height == Cardinality(DOMAIN blocks)

\* What a request that applies a block has applied of it.
AppliedBy(r) ==
    IF At(r, "put") THEN req[r].block.Transactions
    ELSE SubSeq(req[r].txs, 1, req[r].done)

\* The transactions answered, or about to be answered, with 202.
Admissions == {r \in Submits : "tx" \in DOMAIN req[r]}

Commits(id) ==
    {p \in UNION {{h} \X (1..Len(blocks[h].Transactions)) : h \in DOMAIN blocks} :
        blocks[p[1]].Transactions[p[2]].ID = id}

\* Where the audit log records a commit, up to its n-th record.
CommitRecords(n) == {i \in 1..n : auditLog[i].Action = "block.commit"}

\* t was committed (or another transaction posted with its ID was), or a
\* transaction that pays more was admitted to its slot.
Settled(t) ==
    \/ Commits(t.ID) # {}
    \/ \E r \in Admissions :
         LET u == req[r].tx
         IN u.From = t.From /\ u.Nonce = t.Nonce /\ u.Fee > t.Fee

Pending(t) == t.ID \in DOMAIN tx /\ tx[t.ID] = t
-----------------------------------------------------------------------------
\* The state is what the committed blocks and the applied part of the block
\* being mined write, in order, however requests interleave: no write is lost,
\* repeated or taken from a block that is not stored (node.go:143-160).
StateMatchesChain ==
    IF Applying = {} THEN data = StateAt(Height)
    ELSE \A r \in Applying :
            data = Replay(Append(History(Height), AppliedBy(r)))

\* At every moment VerifyChain would accept the stored blocks, whose heights
\* have no gap (node.go:146-156, retention.go:21-37).
ChainVerifies == VerifyChain /\ DOMAIN blocks = 1..Height

\* A snapshot, and a version kept by the state, is the state right after the
\* block of its height, with that state's root: never one half way through a
\* block or labelled with another height, also after it was read, compared
\* and stored again by a verification (node.go:179-184, 189-203).
SnapshotsAuthentic ==
    /\ \A id \in DOMAIN snaps :
         LET s == snaps[id]
         IN /\ s.ID = id
            /\ s.Data = StateAt(s.Height)
            /\ s.Root = Root(s.Data)
    /\ \A h \in DOMAIN versions : versions[h] = StateAt(h)

\* A proof during which no block was applied is of a committed block: its
\* root is in a header, and its value and its siblings are that block's state.
\* Verify accepts it, unless it has no sibling: then the leaf never equals the
\* root (node.go:210-213, proof.go:16-46).
ProofCoherent ==
    \A r \in ProofReads :
        (At(r, "done") /\ "item" \in DOMAIN req[r] /\ req[r].calm) =>
            LET item == req[r].item
            IN /\ \E h \in DOMAIN blocks :
                    /\ item.Root = blocks[h].Header.StateRoot
                    /\ item.Key \in DOMAIN StateAt(h)
                    /\ item.Value = StateAt(h)[item.Key]
                    /\ {item.Path[i] : i \in 1..Len(item.Path)} =
                         {ItemLeaf(k, StateAt(h)[k]) :
                            k \in DOMAIN StateAt(h) \ {item.Key}}
               /\ VerifyItem(item) <=> item.Path # <<>>

\* Concurrent requests to mine commit one height each and none is refused (the
\* promise of TestConcurrentMineCommitsOneHeightAtATime, node_test.go:10), the
\* audit log records them in the order of their heights, and the counter of
\* blocks runs between the log and the chain (node.go:143-168).
CommitTrail ==
    LET stored == {r \in Mines : \E step \in {"remove", "count", "commit", "done"} :
                                   At(r, step)}
        all == CommitRecords(Len(auditLog))
    IN /\ Height = Cardinality(stored)
       /\ \A i \in all : auditLog[i].Detail = Cardinality(CommitRecords(i))
       /\ Cardinality(all) <= metrics.Blocks
       /\ metrics.Blocks <= Height
       /\ Height <= Cardinality(all) + 1

\* A transaction answered with 202 does not vanish: it waits in the pool, its
\* ID is in a block, or a better paying one took its slot (node.go:120, 160).
NothingLost ==
    \A r \in Admissions : Pending(req[r].tx) \/ Settled(req[r].tx)

\* A transaction is committed at most as often as it was admitted: a block
\* under way is never listed again by the next one (node.go:145, 160).
NoDoubleCommit ==
    \A id \in TxIDs :
        Cardinality(Commits(id))
            <= Cardinality({r \in Admissions : req[r].tx.ID = id})

\* Every request is answered: opMu is released on every path (node.go:143,
\* 179, 189), and none of its holders waits for another request.
RequestsFinish == \A r \in Requests : <>At(r, "done")

\* A transaction that waits when a request to mine has not started yet, and
\* does not expire, is committed or outbid (node.go:145, 160).
PendingSettles ==
    \A t \in PoolTxs :
        (/\ Pending(t) /\ t.ExpiresAt = 0
         /\ \E r \in Mines : At(r, "start")) ~> Settled(t)

\* Every transaction that is admitted has a key and gas, as the API says it
\* must (required: [from, to, nonce, fee, gas, key, value] at
\* docs/openapi.yaml:40); txH asks for none of them (node.go:110-124).
RequiredFields ==
    \A r \in Admissions : req[r].tx.Key # NoKey /\ req[r].tx.Gas > 0

\* The node implements the ledger: the steps of concurrent requests add up to
\* appending a block with the root of the state it leads to, and to keeping a
\* version of the state for the height of the chain (node.go:142-187).
LedgerView ==
    INSTANCE Ledger WITH
        Bodies <- UNION {[1..n -> Txs] : n \in 0..MaxPool},
        chain <- [h \in 1..Height |->
                    [txs |-> blocks[h].Transactions,
                     root |-> blocks[h].Header.StateRoot]],
        kept <- versions
ImplementsLedger == LedgerView!LSpec
=============================================================================
