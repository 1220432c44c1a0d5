------------------------------ MODULE Catalog ------------------------------
(***************************************************************************)
(* state_machine.Catalog (internal/state_machine/snapshot.go): a bounded   *)
(* map of snapshots with a checksum, each of a copy of the caller's map.   *)
(* Put stores and Get returns a record whose Entries is a Go map, hence    *)
(* shared: whoever has the record can write to the catalog's entries, and  *)
(* Verify has to notice.  A string is the sequence of its bytes, because   *)
(* the checksum joins strings with NUL.                                    *)
(***************************************************************************)
EXTENDS ChainDomain, GoMap, FiniteSets

CONSTANTS
    SnapshotIDs,    \* IDs of snapshots
    EntryKeys,      \* the keys in use, as a sequence in the order of Go's <
    EntryValues,    \* the values in use
    Source,         \* what the caller's map, of which snapshots are made, has at first
    MaxCatalog,     \* Catalog.max
    MaxSnapshots,   \* bound on the snapshots made
    MaxWrites       \* bound on the writes to maps

\* Any map of strings to strings that has keys in use; no key is listed twice.
ASSUME CatalogAssumption ==
    /\ MaxCatalog \in Nat /\ MaxSnapshots \in Nat /\ MaxWrites \in Nat
    /\ EntryKeys \in Seq(Seq(Nat)) /\ EntryValues \subseteq Seq(Nat)
    /\ \A i, j \in 1..Len(EntryKeys) : EntryKeys[i] = EntryKeys[j] => i = j
    /\ IsMap(Source, {EntryKeys[i] : i \in 1..Len(EntryKeys)}, Seq(Nat))

VARIABLES
    items,      \* Catalog.items: ID -> record; Entries is an index of entryMaps
    entryMaps,  \* the maps: the caller's, and those MakeSnapshot has allocated
    holders,    \* not in the code: for the caller and for every record made,
                \* the map it has and what its own writes make of it
    taken,      \* not in the code: ID -> what its record was made of and what
                \* the last Verify has seen, if any
    writes      \* not in the code: how many writes there were

CatalogVars == <<items, entryMaps, holders, taken, writes>>

NUL == 0

\* h.Write(s), h.Write({0})
WriteString(bytes, s) == Append(bytes \o s, NUL)

Checksum(d) ==
    LET bytes[i \in 0..Len(EntryKeys)] ==
            IF i = 0 THEN <<>>
            ELSE IF EntryKeys[i] \in DOMAIN d
                 THEN WriteString(WriteString(bytes[i-1], EntryKeys[i]), d[EntryKeys[i]])
            ELSE bytes[i-1]
    IN SHA256(bytes[Len(EntryKeys)])

\* The record of a copy of d, at e.  Root and Size say no more.
MakeSnapshot(e, d) == [Entries |-> e, Checksum |-> Checksum(d), Verified |-> FALSE]

\* A record of what the caller's map has now is in the catalog; it holds map e.
Taken(id, e) ==
    LET d == entryMaps[1]
    IN /\ items' = MapPut(items, id, MakeSnapshot(e, d))
       /\ holders' = Append(holders, [Entries |-> e, Own |-> d])
       /\ taken' = MapPut(taken, id, [Contents |-> d, Seen |-> {}])

\* Bug: the record has the caller's map, not a copy.
MakeAndPutShared(id) ==
    /\ Cardinality(DOMAIN items) < MaxCatalog
    /\ Len(holders) <= MaxSnapshots
    /\ Taken(id, 1)
    /\ UNCHANGED <<entryMaps, writes>>

\* Put(MakeSnapshot(id, h, d)) == nil, for the caller's map d.  A full catalog
\* refuses every snapshot, also one that would replace another.
MakeAndPut(id) ==
    /\ Cardinality(DOMAIN items) < MaxCatalog
    /\ Len(holders) <= MaxSnapshots
    /\ entryMaps' = Append(entryMaps, entryMaps[1])
    /\ Taken(id, Len(entryMaps) + 1)
    /\ UNCHANGED writes

\* The caller writes to its map, or whoever made a record, or got it, to the
\* record's entries.
WriteEntry(n, k, v) ==
    /\ writes < MaxWrites
    /\ entryMaps' = [entryMaps EXCEPT ![holders[n].Entries] = MapPut(@, k, v)]
    /\ holders' = [holders EXCEPT ![n].Own = MapPut(@, k, v)]
    /\ writes' = writes + 1
    /\ UNCHANGED <<items, taken>>

Verdict(s) == Checksum(entryMaps[s.Entries]) = s.Checksum

VerifyItems(id) ==
    /\ id \in DOMAIN items
    /\ items' = [items EXCEPT ![id].Verified = Verdict(items[id])]
    /\ taken' = [taken EXCEPT ![id].Seen = {entryMaps[items[id].Entries]}]
    /\ UNCHANGED <<entryMaps, holders, writes>>

CatalogInit ==
    /\ items = EmptyMap /\ taken = EmptyMap /\ writes = 0
    /\ entryMaps = <<Source>> /\ holders = <<[Entries |-> 1, Own |-> Source]>>

CatalogNext ==
    \/ \E id \in SnapshotIDs : MakeAndPut(id) \/ VerifyItems(id)
    \/ \E n \in 1..Len(holders), i \in 1..Len(EntryKeys), v \in EntryValues :
         WriteEntry(n, EntryKeys[i], v)

CatalogSpec == CatalogInit /\ [][CatalogNext]_CatalogVars
-----------------------------------------------------------------------------
NULFree(s) == \A i \in 1..Len(s) : s[i] # NUL
AllNULFree(d) == \A k \in DOMAIN d : NULFree(k) /\ NULFree(d[k])

\* The caller's map and the entries of every record ever made have what they
\* were made with and the writes of their own holder, never another's.  At
\* every moment Verify would tell a record whose entries are as they were made
\* from one that was written to, and its flag says what the last Verify has
\* seen, not what the entries are now.  Strings with a NUL in them are an
\* exception: they can imitate the end of a pair (snapshot.go:30-38, 55-87).
CatalogVerdict ==
    /\ \A n \in 1..Len(holders) : entryMaps[holders[n].Entries] = holders[n].Own
    /\ \A id \in DOMAIN items :
         LET made == taken[id].Contents
             seen == taken[id].Seen
             now == entryMaps[items[id].Entries]
         IN /\ AllNULFree(made) /\ AllNULFree(now) =>
                 (Verdict(items[id]) <=> now = made)
            /\ AllNULFree(made) /\ (\A d \in seen : AllNULFree(d)) =>
                 (items[id].Verified <=> seen = {made})
=============================================================================
