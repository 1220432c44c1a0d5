------------------------------ MODULE Lookups ------------------------------
(***************************************************************************)
(* repository.Index and repository.MetaStore (internal/repository/         *)
(* index.go): what is known of the stored blocks by hash, by height and by *)
(* proposer.  Every method holds its object's mutex throughout; no caller  *)
(* keeps the two in step, so the calls come in any order.                  *)
(***************************************************************************)
EXTENDS GoMap, FiniteSets, Integers, Sequences

CONSTANTS
    Known,      \* blocks that may be indexed: [Hash, Height, Proposer]
    NoName,     \* the empty hash ""
    TopHeight   \* bound on the heights, and on the records of an index

\* A block's hash covers its height.
ASSUME KnownAssumption ==
    /\ TopHeight \in Nat
    /\ \A b \in Known :
         b.Height \in 1..TopHeight
         /\ b = [Hash |-> b.Hash, Height |-> b.Height, Proposer |-> b.Proposer]
    /\ \A b, c \in Known : b.Hash # NoName /\ b.Hash = c.Hash => b.Height = c.Height

VARIABLES
    heights,    \* Index.heights, a slice
    hashes,     \* Index.hashes: hash -> height
    proposers,  \* Index.proposers: name -> heights, a slice
    indexed,    \* not in the code: the blocks added and not removed since
    byHeight,   \* MetaStore.byHeight: height -> record
    byHash,     \* MetaStore.byHash: hash -> record
    superseded  \* not in the code: hashes whose height was put again since

IndexVars == <<heights, hashes, proposers, indexed>>
MetaVars == <<byHeight, byHash, superseded>>
LookupVars == <<heights, hashes, proposers, indexed, byHeight, byHash, superseded>>
-----------------------------------------------------------------------------
(* Index *)
IndexAdd(b) ==
    /\ Len(heights) < TopHeight
    /\ b.Hash # NoName
    /\ b.Hash \notin DOMAIN hashes
    /\ heights' = Append(heights, b.Height)
    /\ hashes' = MapPut(hashes, b.Hash, b.Height)
    /\ proposers' = MapPut(proposers, b.Proposer,
                       Append(IF b.Proposer \in DOMAIN proposers
                              THEN proposers[b.Proposer] ELSE <<>>, b.Height))
    /\ indexed' = indexed \cup {b}

\* The loop of RemoveAbove over a slice of heights.
Keep(xs, h) ==
    LET kept[i \in 0..Len(xs)] ==
            IF i = 0 THEN <<>>
            ELSE IF xs[i] <= h THEN Append(kept[i-1], xs[i])
            ELSE kept[i-1]
    IN kept[Len(xs)]

\* Names stay in proposers when nothing is left for them.
RemoveAbove(h) ==
    /\ heights' = Keep(heights, h)
    /\ hashes' = MapDelete(hashes, {x \in DOMAIN hashes : hashes[x] > h})
    /\ proposers' = [p \in DOMAIN proposers |-> Keep(proposers[p], h)]
    /\ indexed' = {b \in indexed : b.Height <= h}
-----------------------------------------------------------------------------
(* MetaStore.  A record is a BlockMeta, reduced to its height and hash.     *)
MetaPut(m) ==
    /\ byHeight' = MapPut(byHeight, m.Height, m)
    /\ byHash' = MapPut(byHash, m.Hash, m)
    /\ superseded' = (superseded \cup {x \in DOMAIN byHash : byHash[x].Height = m.Height})
                       \ {m.Hash}

\* Bug: the records by hash are left.
DeleteAboveByHeight(h) ==
    /\ byHeight' = MapDelete(byHeight, {x \in DOMAIN byHeight : x > h})
    /\ UNCHANGED <<byHash, superseded>>

MetaDeleteAbove(h) ==
    LET gone == {x \in DOMAIN byHeight : x > h}
    IN /\ byHeight' = MapDelete(byHeight, gone)
       /\ byHash' = MapDelete(byHash, {byHeight[x].Hash : x \in gone})
       /\ UNCHANGED superseded

MetaClear == byHeight' = EmptyMap /\ byHash' = EmptyMap /\ superseded' = {}

\* All(): the records by height.
AllMeta ==
    LET o[h \in 0..TopHeight] ==
            IF h = 0 THEN <<>>
            ELSE IF h \in DOMAIN byHeight THEN Append(o[h-1], byHeight[h])
            ELSE o[h-1]
    IN o[TopHeight]

\* Query: 0 stands for no bound; the proposer asked for is not looked at.
Query(from, to, limit) ==
    LET all == AllMeta
        out[i \in 0..Len(all)] ==
            IF i = 0 THEN <<>>
            ELSE IF \/ from > 0 /\ all[i].Height < from
                    \/ to > 0 /\ all[i].Height > to
                    \/ limit > 0 /\ Len(out[i-1]) >= limit
                 THEN out[i-1]
            ELSE Append(out[i-1], all[i])
    IN out[Len(all)]
-----------------------------------------------------------------------------
LookupInit ==
    /\ heights = <<>> /\ hashes = EmptyMap /\ proposers = EmptyMap /\ indexed = {}
    /\ byHeight = EmptyMap /\ byHash = EmptyMap /\ superseded = {}

IndexNext ==
    /\ \/ \E b \in Known : IndexAdd(b)
       \/ \E h \in 0..TopHeight : RemoveAbove(h)
    /\ UNCHANGED MetaVars

MetaNext ==
    /\ \/ \E b \in Known : MetaPut([Height |-> b.Height, Hash |-> b.Hash])
       \/ \E h \in 0..TopHeight : MetaDeleteAbove(h)
       \/ MetaClear
    /\ UNCHANGED IndexVars

LookupSpec == LookupInit /\ [][IndexNext \/ MetaNext]_LookupVars
-----------------------------------------------------------------------------
\* How often height h occurs in a slice.
Times(xs, h) == Cardinality({i \in 1..Len(xs) : xs[i] = h})

\* What the pages of a client add up to that asks for the records after the
\* last one it has, limit at a time.
Paged(limit) ==
    LET seen[n \in 0..TopHeight] ==
            IF n = 0 THEN <<>>
            ELSE seen[n-1] \o Query(IF seen[n-1] = <<>> THEN 0
                                   ELSE seen[n-1][Len(seen[n-1])].Height + 1, 0, limit)
    IN seen[TopHeight]

\* By height and by proposer the index has each block that was added and not
\* removed, and by hash it has no other.
IndexAgrees ==
    /\ \A h \in 1..TopHeight :
         /\ Times(heights, h) = Cardinality({b \in indexed : b.Height = h})
         /\ \A p \in DOMAIN proposers :
              Times(proposers[p], h) =
                Cardinality({b \in indexed : b.Height = h /\ b.Proposer = p})
    /\ DOMAIN hashes = {b.Hash : b \in indexed}
    /\ \A b \in indexed : hashes[b.Hash] = b.Height /\ b.Proposer \in DOMAIN proposers
    /\ \A b, c \in indexed : b.Hash = c.Hash => b = c

\* The records by height are found by their hashes, and the other way round.
MetaAgrees ==
    /\ \A h \in DOMAIN byHeight :
         byHeight[h].Hash # NoName =>
           byHeight[h].Hash \in DOMAIN byHash /\ byHash[byHeight[h].Hash] = byHeight[h]
    /\ \A x \in DOMAIN byHash \ superseded :
         byHash[x].Height \in DOMAIN byHeight /\ byHeight[byHash[x].Height] = byHash[x]

PagesSeeAll == \A limit \in 1..TopHeight : Paged(limit) = AllMeta

\* After any additions and roll-backs the index knows the same blocks by
\* height, by hash and by proposer: those that were added and not removed; a
\* record is found by its hash, if it has one, and a hash still finds a record
\* that its height does not only if that height was put again; and a query
\* page by page sees every record once (index.go:23-36, 63-87, 106-168).
LookupsAgree == IndexAgrees /\ MetaAgrees /\ PagesSeeAll
=============================================================================
