----------------------------- MODULE AuditFeed -----------------------------
(***************************************************************************)
(* audit.Chain and audit.Bus (internal/audit/chain.go): a hash chain of    *)
(* audit records, and the channels on which they are handed out.  Each     *)
(* method holds its object's mutex throughout.  Writers append a record    *)
(* and then publish it, in two steps, so two of them may publish in the    *)
(* other order; a poller reads the chain with Since; subscribers come, go  *)
(* and receive at any time.                                                *)
(***************************************************************************)
EXTENDS ChainDomain, FiniteSets, GoMap, SequencesExt

CONSTANTS
    Writers,        \* goroutines that append and publish
    SubscriberIDs,  \* IDs passed to Subscribe
    ChanCap,        \* capacity of a subscriber's channel (64)
    Secret,         \* Chain.secret
    MaxRecords,     \* bound on the records
    MaxChans,       \* bound on the channels made
    Idle            \* a writer has nothing to publish

ASSUME FeedAssumption ==
    ChanCap \in Nat \ {0} /\ MaxRecords \in Nat /\ MaxChans \in Nat

VARIABLES
    records,    \* Chain.records
    subs,       \* Bus.subs: ID -> the number of its channel
    chans,      \* the channels made so far
    writing,    \* writer -> the record it has appended and not published
    polled,     \* what the poller has read so far
    published   \* not in the code: the sequence numbers published so far

FeedVars == <<records, subs, chans, writing, polled, published>>
-----------------------------------------------------------------------------
(* Chain *)
Digest(seq, actor, prev) == SHA256(<<seq, actor, prev, Secret>>)

Record(seq, actor, prev) ==
    [Sequence |-> seq, Actor |-> actor, PrevHash |-> prev,
     Hash |-> Digest(seq, actor, prev), Signature |-> Digest(seq, actor, prev)]

NextRecord(actor) ==
    IF records = <<>> THEN Record(1, actor, NoHash)
    ELSE Record(Last(records).Sequence + 1, actor, Last(records).Hash)

AppendRecord(w) ==
    /\ writing[w] = Idle
    /\ Len(records) < MaxRecords
    /\ records' = Append(records, NextRecord(w))
    /\ writing' = [writing EXCEPT ![w] = NextRecord(w)]
    /\ UNCHANGED <<subs, chans, polled, published>>

\* Verify() == nil
Verify ==
    \A i \in 1..Len(records) :
        LET r == records[i]
        IN /\ r.Sequence = i
           /\ r.PrevHash = IF i = 1 THEN NoHash ELSE records[i-1].Hash
           /\ r.Hash = Digest(r.Sequence, r.Actor, r.PrevHash)
           /\ r.Signature = r.Hash

\* Bug: the record the poller has is read again.
SinceInclusive(seq) == SelectSeq(records, LAMBDA r : r.Sequence >= seq)

\* taken[i] is what the loop has collected after i records.
Since(seq) ==
    LET taken[i \in 0..Len(records)] ==
            IF i = 0 THEN <<>>
            ELSE IF records[i].Sequence > seq THEN Append(taken[i-1], records[i])
            ELSE taken[i-1]
    IN taken[Len(records)]

\* A poller asks for what follows the last record it has.
Poll ==
    /\ polled' = polled \o Since(IF polled = <<>> THEN 0 ELSE Last(polled).Sequence)
    /\ polled' # polled
    /\ UNCHANGED <<records, subs, chans, writing, published>>
-----------------------------------------------------------------------------
(* Bus.  A channel is what was sent on it, how much of that was received,   *)
(* and whether it is closed; since is how much had been published when it   *)
(* was made.                                                                *)
Buffered(c) == Len(chans[c].sent) - chans[c].received

\* An ID that is subscribed already gets a new channel; the old one is
\* forgotten and left open.
Subscribe(id) ==
    /\ Len(chans) < MaxChans
    /\ chans' = Append(chans, [sent |-> <<>>, received |-> 0, closed |-> FALSE,
                               since |-> Len(published)])
    /\ subs' = MapPut(subs, id, Len(chans) + 1)
    /\ UNCHANGED <<records, writing, polled, published>>

\* Bug: a subscriber whose channel is full stays, and misses the record.
DroppedNone == {}

\* Publish drops the subscribers whose channels are full; theirs stay open.
Dropped == {id \in DOMAIN subs : Buffered(subs[id]) >= ChanCap}

Publish(w) ==
    /\ writing[w] # Idle
    /\ LET seq == writing[w].Sequence
           sendTo == {subs[id] : id \in {i \in DOMAIN subs : Buffered(subs[i]) < ChanCap}}
       IN /\ chans' = [c \in DOMAIN chans |->
                          IF c \in sendTo
                          THEN [chans[c] EXCEPT !.sent = Append(@, seq)]
                          ELSE chans[c]]
          /\ published' = Append(published, seq)
    /\ subs' = MapDelete(subs, Dropped)
    /\ writing' = [writing EXCEPT ![w] = Idle]
    /\ UNCHANGED <<records, polled>>

Unsubscribe(id) ==
    /\ id \in DOMAIN subs
    /\ chans' = [chans EXCEPT ![subs[id]].closed = TRUE]
    /\ subs' = MapDelete(subs, {id})
    /\ UNCHANGED <<records, writing, polled, published>>

\* Whoever has the channel receives from it.
Receive(c) ==
    /\ Buffered(c) > 0
    /\ chans' = [chans EXCEPT ![c].received = @ + 1]
    /\ UNCHANGED <<records, subs, writing, polled, published>>
-----------------------------------------------------------------------------
FeedInit ==
    /\ records = <<>> /\ polled = <<>> /\ published = <<>>
    /\ subs = EmptyMap /\ chans = <<>>
    /\ writing = [w \in Writers |-> Idle]

FeedNext ==
    \/ \E w \in Writers : AppendRecord(w) \/ Publish(w)
    \/ \E id \in SubscriberIDs : Subscribe(id) \/ Unsubscribe(id)
    \/ \E c \in DOMAIN chans : Receive(c)
    \/ Poll

FeedSpec == FeedInit /\ [][FeedNext]_FeedVars
-----------------------------------------------------------------------------
\* However appends and publishes of several writers interleave, Verify accepts
\* the chain, and a poller that asks for what follows the last record it has
\* misses none and reads none twice (chain.go:24-57, 63-73).
PollSeesAll == Verify /\ IsPrefix(polled, records)

\* A channel on which records are still sent is open, belongs to one
\* subscriber, and has been sent everything published since it was made, in
\* that order: a slow subscriber is cut off, never left with a gap
\* (chain.go:96-121).
FeedHasNoGaps ==
    \A id \in DOMAIN subs :
        LET c == chans[subs[id]]
        IN /\ ~c.closed
           /\ Buffered(subs[id]) <= ChanCap
           /\ c.sent = SubSeq(published, c.since + 1, Len(published))
           /\ \A other \in DOMAIN subs : subs[other] = subs[id] => other = id
=============================================================================
