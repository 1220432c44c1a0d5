---------------------------- MODULE Reservations ----------------------------
(***************************************************************************)
(* mempool.Reservation (internal/mempool/policy.go): keys reserved by      *)
(* workers.  Both methods hold r.mu throughout.                            *)
(***************************************************************************)
EXTENDS GoMap

CONSTANTS
    Workers,    \* IDs workers acquire and release with, "" among them
    NoWorker,   \* the empty ID ""
    Reservable  \* keys that may be reserved

VARIABLES
    owner,      \* Reservation.owner: key -> ID
    holding     \* not in the code: <<key, ID>> acquired and not released since

ReservationVars == <<owner, holding>>

\* r.owner[key], "" where the key is absent
OwnerOf(key) == IF key \in DOMAIN owner THEN owner[key] ELSE NoWorker

\* A refusal changes nothing; the owner may acquire again.
Acquire(key, id) ==
    /\ OwnerOf(key) \in {NoWorker, id}
    /\ owner' = MapPut(owner, key, id)
    /\ holding' = holding \cup {<<key, id>>}

\* Bug: whoever releases, the key is free.
ReleaseAny(key, id) ==
    /\ owner' = MapDelete(owner, {key})
    /\ holding' = holding \ {<<key, id>>}

Release(key, id) ==
    /\ owner' = IF OwnerOf(key) = id THEN MapDelete(owner, {key}) ELSE owner
    /\ holding' = holding \ {<<key, id>>}

ReservationInit == owner = EmptyMap /\ holding = {}

ReservationNext ==
    \E key \in Reservable, id \in Workers : Acquire(key, id) \/ Release(key, id)

ReservationSpec == ReservationInit /\ [][ReservationNext]_ReservationVars
-----------------------------------------------------------------------------
\* At most one worker holds a key, and it is the owner, also when others
\* release what they do not hold.  The empty ID reserves nothing: a key it
\* acquired may be acquired by the next (policy.go:96-111, and the aim of
\* TestReservationConcurrentOwnership, record001_test.go:90).
ReservationExclusive ==
    \A p \in holding : p[2] # NoWorker => OwnerOf(p[1]) = p[2]
=============================================================================
