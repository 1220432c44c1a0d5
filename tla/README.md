# Verification of the verifiable chain node

TLA+ models of the services in `internal/`, TLC configurations that check them
on small instances, and TLAPS proofs of what matters most for every instance.
Paths below are relative to the repository's source root; line numbers are in
`PROJECT.json`, which maps every definition to the code it stands for.

## The system

A single process serves an HTTP API over shared in-memory objects. One
goroutine per request calls methods of the objects; each method holds its
object's mutex, so a method call is atomic and what interleaves is calls.
Nothing is persisted, so there is no recovery from a crash to model.

| Part | State | Operations | What is hard |
|---|---|---|---|
| mempool `Pool` | `tx` by ID, `byAcct` by account and nonce | Add (replace by fee), List, Remove, Expire | two maps that must agree; removal by stale IDs; seconds against instants |
| `app.Node` | `opMu`, the objects below | txH, mine, snapH, snapVerify, proofH, peerH | a handler is many calls; txH and proofH do not take `opMu` |
| `State` | `data`, `versions` | Apply, Root, Snapshot, Rollback | written before the block is stored |
| `Executor` | `mu` | ApplyWithRollback | three separate locks, gas limit |
| `Repo` | `blocks`, `snaps` | PutBlock, Latest, PutSnapshot, VerifyChain, DeleteAbove, Range | snapshots read and written back; a chain cut and grown again |
| consensus `Engine` | round, votes | Step, Vote, SetHeight, SetView, Finalized | votes kept across heights; quorum arithmetic that wraps |
| `RoundState`, `Schedule`, `EvidencePool` | round, rotations, evidence | AddProposal, AddVote, Advance, Rotate, At, Proposer, Add, Resolve | map order, signed conversion of views, a limit |
| sync `Worker` | `active`, `last` | Start, Last | critical sections with a walk in between, cancellation, wrapping heights |
| audit `Log`, `Chain`, `Bus` | events, records, subscribers | Append, Verify, Since, Subscribe, Publish, Unsubscribe | slow subscribers, writers publishing out of order |
| `proof` | none | BuildTree, Proof, VerifyProof, Build | odd levels, old proofs, torn reads in Build |
| `Index`, `MetaStore` | heights, hashes, proposers; records by height and by hash | Add, RemoveAbove; Put, DeleteAbove, Clear, Query | several views of the same blocks, cut together |
| `Reservation` | `owner` | Acquire, Release | late releases |
| p2p `Manager` | `peers` | Add, Penalize, Ban, Unban, HealthyCount | bans undone by a later call, scores that wrap |
| consensus `Network` | `queues`, `dropped` | Send, Recv, DropPeer, SimulateRound | rounds and receivers interleave |
| state `Catalog` | `items` | Put, Get, Verify | entries shared with callers |
| `codec` | none | EncodeTx, EncodeBlock, DecodeTx, frame, unframe | partial and joined frames, lengths at their limit |

Interactions: `mine` lists the pool, reads the latest block, applies the
transactions to the state one by one, takes the root, stores the block, removes
its transactions from the pool by ID, counts and audits. `txH` adds to the pool
and audits, at any moment. `snapH` copies height, root and data into the
repository and keeps a version in the state. `snapVerify` reads a snapshot,
compares its root with the present one and stores it back. `proofH` reads a
value, the data and the root of the state by three calls, without `opMu`.
`peerH` adds a peer. The other objects (the engine, of which the node only
prints the status, the executor, the sync worker, the audit chain, the Merkle
proofs, and the last six rows of the table except `Manager.Add`) are libraries
the node does not call yet; they are modelled against any order of calls.

## Modules

| Module | Models | Used by |
|---|---|---|
| `GoMap` | Go's map (external) | all |
| `ChainDomain` | hashes, Merkle root, `ValidateBlock` | Mempool, Repo, KVState, AuditFeed |
| `KVState` | the state as a value, and `Replay`, the reference for the state of a chain | StateMachine, Ledger, MerkleProof |
| `StateMachine`, `Repo` | the two objects under the node | ChainNode, Executor |
| `Mempool` | the pool | ChainNode |
| `SlotPool` | abstract pool: one map from (sender, nonce) | implemented by Mempool |
| `ChainNode` | the handlers over Mempool, StateMachine and Repo | |
| `Ledger` | abstract chain: blocks are appended, each with the root of the state it leads to | implemented by ChainNode |
| `Executor` | batches with rollback | |
| `Voting`, `Consensus` | quorums, the engine | RoundRecords uses Voting |
| `RoundRecords` | round state, schedule, evidence | |
| `SyncWorker` | the worker's `Start` | |
| `MerkleProof` | trees and proofs, and a client holding a proof | |
| `AuditFeed` | hash chain, bus and its channels | |
| `Retention` | DeleteAbove, Range and the plan of a roll-back, over `Repo` | MCLibrary |
| `Lookups` | `Index` and `MetaStore` | MCLibrary |
| `Reservations` | `mempool.Reservation` | MCLibrary |
| `Peers` | the peer manager and `peerH` | MCLibrary |
| `Network` | message queues and simulated rounds | MCLibrary |
| `Catalog` | the snapshot catalog, with its entries in shared maps | MCLibrary |
| `Wire` | encoding, decoding and frames on a stream | MCLibrary |
| `MempoolProofs` | theorems on the pool and on reservations | ChainNodeProofs |
| `KVStateProofs` | lemmas on `Replay` and on sorted keys | ChainNodeProofs, ExecutorProofs |
| `ChainNodeProofs` | theorems on the node, and on roll-backs | NodeTrailProofs |
| `NodeTrailProofs` | theorems on the node's audit trail and on what becomes of transactions | |
| `ConsensusProofs` | theorems on quorums, engine, round records, network and peers | |
| `ExecutorProofs` | theorems on batches and on Merkle proofs | |
| `SyncWorkerProofs` | theorems on the sync worker | |
| `RecordProofs` | theorems on the audit chain and bus, on index and metadata, on the snapshot catalog, and on encodings and frames | |
| `MC...` | values of the constants for TLC | |

Conventions. A handler that calls several locking methods has one action per
call; the function `req` (or `call`, `batch`) holds each goroutine's next step
`pc` and its locals. A method is one action. SHA-256 is an injective
constructor. A definition whose comment starts with "Bug:" is a faulty variant
of the definition after it and is used only to show that a property notices the
fault (`mutants` in `PROJECT.json`). A call that returns an error without
changing anything is not a step, except where a counter or a goroutine's
progress depends on it.

Abstractions. A transaction has the fields the code reads (`To`, `Size` and
`Signature` are left out). Error texts, times of records and replies are left
out. A proof's parts are read one by one, so `proofH` has one step per read.
`Ban`'s duration ends up in `LastSeen`, which nothing reads, and is left out.
Strings are sequences of bytes where the bytes matter (`Catalog`, `Wire`,
`MerkleProof`) and model values elsewhere. A Merkle leaf hashes the bytes of
`k + "=" + v`, which two pairs share when a key has an "=" of its own; only the
hash is injective. `List` reads the clock once per transaction in the code and
once per call in the model. The audit log's own hash covers the clock and is
never checked, so events are kept without it. The counters of the sync worker,
and the bytes it makes of them, are signed and wrap as Go's `int` does, heights
and voting power wrap as `uint64` does, all of them at a small width.

## Runs

| Run | Instance | Shows |
|---|---|---|
| `mempool` | 2 accounts, IDs that are reused, pool of 2, clock of two ticks a second | index agreement, capacity, fees that only rise, expiry covers listing, refinement of `SlotPool` |
| `node_mining` | 3 submissions, 2 requests to mine, 4 kinds of transaction (a replacement for a slot, one that reuses an ID, one that fails to apply and expires) | the state is what the chain leads to, also half way through a block; chain verifies; one height per request and a trail that says so in order; nothing lost, nothing committed twice |
| `node_snapshots` | 2 submissions of 3 kinds, 2 mines, a snapshot, a verification and a proof; the clock stands still | snapshots are of whole blocks; undisturbed proofs are of one state; refinement of `Ledger` |
| `node_liveness` | 2 submissions, 2 mines, a verification | requests are answered, waiting transactions settle |
| `node_required_fields` | as `node_mining` | a divergence: see Findings |
| `sync_worker` | 2 callers, 7 kinds of range and quota, heights of 2 bits, counters of 4 | one walk at a time, truthful last result, which quotas end a walk and when, counts, termination |
| `consensus` | 5 validator sets with equal, unequal and overflowing power and an address listed twice, powers of 4 bits, a voter that is no validator | votes belong to the round unless Step carried them over, a finalized round has two thirds of the power behind it, quorum is two thirds where it does not overflow |
| `round_records` | sets of 1 to 3 validators, rotations at heights 1 to 3, views of 4 bits | `At` does not depend on map order; proposers take turns; votes and proposals of a round and evidence are never replaced or lost |
| `executor` | 2 callers, 6 batches, one per way to fail | all or nothing within the gas limit, termination |
| `merkle_proof` | all states of up to 5 keys (among them a and a=b) and 2 values (c and b=c), a proof issued at any time before | proofs verify, old ones bind |
| `audit_feed` | 2 writers, 2 subscriber IDs, 3 channels of capacity 1, 3 records | the chain a poller has verifies and misses nothing, subscribed channels have no gap |
| `library` | one object per behaviour: 7 blocks at 3 heights, two of them without a hash; a chain of 3; 3 worker IDs and 2 keys; 2 peer IDs and 4 calls; 2 rounds over 3 validators, one without an address, or two with the same one; 2 snapshot IDs, 3 snapshots and 3 writes; 2 frames of 18 transactions or 6 blocks | the seven properties described below |

Bounds. Two of each kind of request are enough for every pair of calls to meet,
and three submissions allow an add, a replacement and a reuse of the replaced
ID around one block. Pool size 2 reaches the limit with both accounts. Five
keys give a tree with an odd level above an odd level. Widths of 2 to 4 bits put
the overflow within reach of the other values. `MaxTime`, `MaxRound`, `MaxView`,
`MaxRotation`, `MaxStored`, `MaxRecords`, `MaxChans`, `MaxSnapshots`, `MaxWrites`,
`MaxDrops` and `MaxCalls` cap what would grow
without end; each is a guard of the one action that grows it. The `audit_feed`
run does not check for deadlock: the objects are passive and callers may stop
calling, which they do at the bounds. Symmetry is used on request names, writers
and subscriber IDs, in runs that check only safety, where those are
interchangeable.

Fairness. A goroutine that can run does run (WF on each request's own steps).
One that waits for a mutex gets it in the end (SF on taking it): a `sync.Mutex`
hands itself to a goroutine that has waited for a millisecond. Nobody is obliged
to call `Start`, to cancel, or to let the clock advance. In `node_liveness`
every request of the instance is assumed to have arrived.

What the properties allow on purpose. `NothingLost` and `PendingSettles` count a
transaction as settled when its ID is in a block: clients choose IDs, and a
transaction that reuses the ID of one being committed is removed with it.
`AllOrNothing` speaks of batches no other call overlaps, since the rollback of
one batch undoes another's writes. `QuorumIsTwoThirds` assumes that the doubled
power fits its width and that no address is listed twice, `FinalizedHasQuorum`
that the doubled power fits, `CompleteCounts` that the counters have room for the
range,
`ProposersRotate` that views stay below the sign bit, and `StartReturns`
excludes a range up to the greatest height that is never cancelled: outside
these limits the code does not behave that way. `FinalizedHasQuorum` gives a
counted vote of a stranger, or one that Step carried over from an earlier height,
the power 1: `Finalized` counts them, and with enough of them a round is final
without its validators. Powers are 1 or more in a set `ValidateNetwork` accepts,
which nothing calls; with a validator of power 0 its vote would count for more
than it has. `QuotaHolds` speaks of quotas at least a block below the greatest
number; of the others it says that they never end a walk, because the bytes turn
negative first. `HeldProofBinds` says of every proof that some entry has the text
it vouches for, and that this is the entry itself where no key has an "=".

The `library` run. The objects share no state, so the run checks a sum of
them and not their product: `focus`, chosen at the start, says which object is
called, and the others stay as they were made. A product would only repeat each
of these behaviours next to every other. Its bounds: heights with two
and three blocks let a record be put again and cut; three blocks allow a
cut in the middle and a regrowth; four calls to a peer allow a ban by score, a
pardon and a second ban, with scores of 4 bits so that a penalty can wrap; two
rounds give every order of two senders; a third snapshot replaces one in a
catalog of two (never when it is full, where Put refuses), and three writes
reach the caller's map and two records, or change an entry and change it back; bytes have 16 values
and lengths one or two of them, so that the longest string, one too long, an
encoding too long, and negative and greatest numbers are all among the inputs.
It does not check for deadlock, for the reason given for `audit_feed`.

- `LookupsAgree`: by height, hash and proposer the index knows the blocks that
  were added and not removed since (`indexed`, which the code does not keep),
  every metadata record is found by its hash, a hash outlives its height only if
  the height was put again, and paging through `Query` sees every record once.
- `RollbackKeepsChain`: a chain that is cut and grown again verifies, has no gap
  and is linked throughout.
- `ReservationExclusive`: one holder per key, whoever releases what.
- `BanHolds`: the ban in force and the healthy peers follow from the calls so
  far, and from nothing else.
- `MessagesInOrder`: every message is received once and in order, and a round's
  phases once for every time the address is listed.
- `CatalogVerdict`: a map has the writes of its own holder and of no other,
  `Verify` tells whether a record's entries were written to, and the flag it
  stores says what it last saw.
- `WireFaithful`: only whole single frames are accepted, decoding inverts
  encoding, and encoding is injective.

What these leave out on purpose. `ProofCoherent` speaks of proofs during which
no transaction was applied: `Build` takes no lock across its three reads, and a
disturbed proof may be of no state at all. `BanHolds` speaks of scores that stay
within their width (a penalty below it wraps to a good score, a negative penalty
above it to a bad one), `CatalogVerdict` of keys and values without a NUL, which
can imitate the end of a pair, and `ReservationExclusive` of workers with a name.
`LookupsAgree` asks only records that have a hash to be found by it: `MetaStore.Put`
does not look at the hash, and two records with an empty one share an entry.
`Retention`'s caller is taken to hold `opMu` as `mine` does; between `mine`'s
reading of the latest block and its storing of the next, a cut would leave a
gap. `Range` up to the greatest height would never end and is left out.
`Query` does not look at the proposer it is given.

## Findings

`node_required_fields`: `docs/openapi.yaml:40` requires from, to, nonce, fee,
gas, key and value of a transaction; `txH` and `Pool.Add` check none of them. A
transaction without a key is accepted with 202, fails to apply, and becomes part
of a block all the same.

Not a run, but met on the way: `docs/openapi.yaml:26` describes
`POST /api/v1/sync` as "sync scheduled"; the handler schedules nothing.

## Proofs

All theorems hold for every value of the constants that satisfies the named
assumptions. Those say what the code's types and its configuration say: numbers
are natural, requests of different kinds are different goroutines, the validators
of an engine pass `ValidateNetwork` (those of the network simulation need not: an
address may be empty, or listed twice), no key is listed twice in the order of
keys, keys and values are strings of bytes where a proof or a checksum joins
them, the bytes of a block divide the greatest power of two of a counter (1024
and 2^63), transactions have the fields that are read, the items that are encoded
have fields of their Go types, and four bytes hold the length of a payload that
is allowed. What a power
is (`Base^0 = 1`, `Base^(k+1) = Base^k * Base`) is also assumed where a width is
used, because the prover does not know exponentiation. TLC evaluates every
assumption on the instance of a run.

The bounds of the runs (`MaxTime`, `MaxRound`, `MaxChain`, ...) are arbitrary
natural numbers in the theorems, so nothing depends on them.

`MempoolProofs`. The invariant `PoolInv` strengthens `IndexAgrees` with the
types of both maps, the bound, and finiteness of the set of IDs, without which
the bound's cardinality means nothing. Agreement is inductive only as a whole: a
replacement deletes from `tx` the ID that `byAcct` names, which is the right one
because the maps agreed before, and Remove clears the slot `tx` names for the
same reason. Remove and Expire are handled together by a lemma about
dropping any set of IDs with their slots. From `PoolInv` follow the action
properties (fees only rise, expiry covers listing) and, step by step, the
refinement of `SlotPool`. `ReservationsAreExclusive` is nearly inductive as it
stands; it needs to know that what is held are pairs of a key and a worker.

`KVStateProofs`. `Replay` defines the state of a chain by the last write of each
key. `ReplayStep` shows that one more transaction changes it as `Apply` changes
the state, and `ReplayEmptyBlock` that a new, empty block changes nothing:
together they carry every proof that compares a state with a chain. `InOrderIs`
shows that sorting keys lists each of them once.

`ChainNodeProofs`. Four layers, each of which uses the ones before.
`Control` says that a request between its lock and its unlock is the holder of
`opMu`, and which locals each step finds; so one request at a time is in the
critical section, and a step of a handler is a step of the pool
(`NodeUsesPool`), whose invariant is part of this layer. `ChainInv` adds that the
stored blocks are linked, that what a miner has read or built is not out of date,
and that the state is the replay of the chain followed by what the miner has
applied: `StateMatchesChain` alone says nothing of the moment when the block
is stored, `MineLocals` does. `SnapInv` follows a snapshot from its three reads
to the repository and back; it holds because blocks are only appended, so the
state of a height never changes. `ProofInv` follows the three reads of a
proof: undisturbed, its parts are of the state of the last block, and a request
to mine that applies a transaction marks every proof that is under way.
`NodeImplementsLedger` maps every step to one of `Ledger` or to a stutter; the
only step that is not a stutter is the one that stores a block.
`RollbacksKeepChain` uses the part of `ChainOK` that is about links (`Linked`)
for a chain that is cut and grown, and unfolds the loop of `Range`.

`NodeTrailProofs`. `TrailInv` counts: the height is the number of requests that
have stored a block, the records of commits are one fewer exactly while a request
has yet to record its own, and so is the counter of blocks. `NoTransactionIsLost`
follows a transaction by its admission: replacing it needs a higher fee in its
slot, removing it needs a block with its ID. `CommittedOnce` needs `CommitInv`,
an account of debts: the commits of an ID, and one more if it is listed for a
block or waits and is not about to be removed, are never more than its
admissions.

`ExecutorProofs`. `ExecInv` says of a batch nothing overlaps that its version is
the state it found, and that the state is that one with the writes of the
transactions so far over it, as long as none has failed. So a failure restores
what was there, and success leaves the replay of the whole batch.
For Merkle proofs, `Halfway` is the invariant of `Proof`'s loop: the steps so far
lead from the key's leaf to the hash at the present index of the present level.
`ClimbsUp` shows that a round keeps it, also on an odd level, and that the level
it makes is the one `BuildTree` makes and is shorter; hence as many rounds as
leaves reach one hash (`RunsReachTheTop`), which is the root. `StepsBind` goes
the other way: a hash of the tree that is made of two hashes is made of hashes
of the tree, so whatever steps lead to the root started from one of its hashes,
and the hash of a text is only ever a leaf, so some entry has that text. It uses
that SHA-256 is injective, as the model has it, and nothing of where the steps
came from. `TextBinds` reads the key and the value back from a text: without an
"=" in the key, the key ends at the first one.

`ConsensusProofs`. `EngineInv` is types and `VotesOfRound` together; height only
grows by Step, and SetHeight and SetView empty the votes. After a Step out of
Commit every vote there is of an earlier height, which is why `carried` tells
exactly whether there is one. `HasQuorumIs` shows what
the loops over validators and votes compute, with their wrapping sums: the power
of the validators that voted, each counted once. `QuorumsAreRight`,
`FinalityNeedsQuorum` and `QuorumsOverlap` (two quorums share more than a third
of the power) follow, for any powers whose doubled sum fits the width; finality
needs besides that there are at most as many addresses of voters as they have
power, and that every other vote is counted once.
For the records, `RecordInv` is their types and the limit of evidence;
`HistoryInv` says that rotations are finitely many and of announced sets, so
that Go's map order is one of their permutations, and `ScheduleIsRight` shows
that the best candidate so far is the latest of those seen, in any order.
`ProposersTakeTurns` is arithmetic of remainders (`RemaindersRotate`).
`NetworkInv` relates what was sent to each address to how far each simulation has
come in the list of addresses, and what was sent to what was received and waits:
a simulation that is through with an address has sent it a whole number of
rounds, so the phase that follows depends on the count alone. `PeersInv` relates
the score and the ban of a peer to those the log of calls owes it.

`SyncWorkerProofs`. `SyncInv` adds to the types, `OneWalk`, `LastIsTruthful` and
`QuotaHolds` that a result on its way to be stored has a final status and that a
walk starts from an empty result: without the first, clearing the flag could
expose "running"; without the second, the quota could be exceeded from the
start. An enforceable quota keeps the bytes from wrapping (`QuotaBytes`). Bytes
that do wrap are still a multiple of a block, hence never within a block of the
greatest number (`BytesBelow`), so a quota that is found exceeded is enforceable
and is exceeded (`OverIsOver`). `CountInv` says of a walk at height h that it has counted the heights
before h once each, verified or downloaded, and that those it verified are
between what was stored when it began and what is stored now.

`RecordProofs`. `FeedInv`: records are numbered and linked as `Verify` wants
them and the poller has a prefix of them (what `Since` collects is unfolded by
`Collected`); what a channel has carried is a gapless part of what was
published since the channel was made. A subscriber whose channel is full is
removed at the record it misses, so a subscribed channel has no gap.

For index and metadata, `KeepRuns` and `KeepCounts` show that the loop of
`RemoveAbove` keeps each height as often as it was there if it is not above the
cut, and no other. `IndexInv` adds to `IndexAgrees` the types of the slices and
that the indexed blocks are finitely many, without which counting them means
nothing. `MetaInv` says of both maps that a record is under its own height or its
own hash; a put of a height that has another hash marks that hash, and `DeleteAbove`
removes by hash what it finds by height, so only marked hashes can outlive it.
For paging, `AllIsSorted` shows that `All` is in the order of heights; so a page is
the next part of it (`PageIsNext`), and as many pages as there are heights reach
its end (`PageRuns`).

For the catalog, the bytes that are hashed are read from their end: the last pair
of a checksum ends with the last NUL, its value begins after the one before
(`LastString`, `LastPair`), so two maps with the same bytes have the same last
pair and, round by round, the same pairs (`ChecksumTells`). `CatalogInv` says that
everyone has a map of its own, which holds what its own writes have made of it,
that a record's checksum is that of what it was made of, and that its flag is
what a comparison with the entries last seen gives.

For encodings, `NumberRead` is the arithmetic of a big-endian number: what is read
of n in w bytes is the remainder of n by `Base^w`; two's complement and the narrow
`Size` follow (`FieldIsRead`). `PartsHavePlaces` gives every part of an encoding
its place in the bytes. `TxDecodes` follows `DecodeTx` through its eleven rounds on
the first m bytes of an encoding: after each, either what was read are the fields
so far and what is left begins at the next part's place, or that place is behind m
and the reader has failed. So the whole decodes to the transaction, and a part of
it to nothing. `SameParts` shows that two lists of parts with the same bytes are
the same, as long as each part's end is known from its own bytes, which holds of
numbers by their width and of strings and transactions by the length before them;
the number of transactions, which is itself a part, tells where a block ends
(`BlocksDiffer`). `Unframed` shows that `unframe` accepts the first n bytes of a
stream exactly if n is the length of the first frame, and `WireInv` that the stream
starts with that frame however much follows.

Loops. A loop of the code is a recursive function on the numbers of its rounds.
What it computes is shown by a least counterexample (`Least`, `Upward`, `UpTo`): of the
rounds that violate the claim there is a first one, and the round before it
gives a contradiction. For the same reason the existence of the function itself
is proved (`RunsExist`, `FoldsSomewhere`, `RoundsExist`), because a recursive definition names
one only if there is one.

Only model-checked: liveness (`RequestsFinish`, `PendingSettles`,
`StartReturns`, `BatchReturns`), which is out of the prover's reach. Every
invariant, action property and refinement of the runs is proved.
`EngineTypeOK`, `SyncTypeOK`, `FirstVoteCounts` and `QuorumsOverlap` are proved
and need no run of their own.

## Plan

Every part that keeps state is modelled, apart from what the next section lists,
and every safety property of the runs is proved. What is left are the four
liveness properties, which need a prover for fairness, and models of the pure
functions below should they get a caller.

## Not modelled

`cmd/node`, `transport` and the logger and spans in `observability` are input
and output only; of the metrics, the counters of requests and the exported
`Counter` type are left out because nothing reads them back. `p2p.Backoff` is one
counter per peer, and the checks of handshakes, addresses and topics are pure.
Of `mempool/policy.go`, `Select`, `CheckReplacement`, `ValidateNonce` and the fee
estimates are pure and have no caller; so are the limits on counts, the version
negotiation, the checksum and the guarded arithmetic of `codec`, and
`chain_domain/extra.go` apart from `RollbackPlan.Valid`. The handlers that only
read change nothing. `PROJECT.json` lists every part with the reason.
