------------------------------ MODULE SlotPool ------------------------------
(***************************************************************************)
(* What a transaction pool promises, with a single map: at most one        *)
(* transaction waits in the slot (sender, nonce), one that waits is only   *)
(* ever displaced by a better paying one for the same slot, no two waiting *)
(* transactions share an ID, and at most MaxPool wait.  The two maps of    *)
(* mempool.Pool (by ID, and by account and nonce) implement it: see        *)
(* Mempool.                                                                *)
(***************************************************************************)
EXTENDS FiniteSets, Integers, GoMap

CONSTANTS
    Offers,     \* the transactions that may be offered
    MaxPool     \* the pool's capacity

VARIABLE slots  \* <<sender, nonce>> -> the transaction waiting there

IDs == {slots[s].ID : s \in DOMAIN slots}

SlotOf(t) == <<t.From, t.Nonce>>

SInit == slots = EmptyMap

\* A transaction enters its slot, displacing a cheaper one.
Offer(t) ==
    /\ Cardinality(IDs) < MaxPool
    /\ t.ID \notin IDs
    /\ SlotOf(t) \in DOMAIN slots => slots[SlotOf(t)].Fee < t.Fee
    /\ slots' = MapPut(slots, SlotOf(t), t)

\* Slots are vacated (committed to a block, or expired).
Vacate == \E S \in SUBSET DOMAIN slots : slots' = MapDelete(slots, S)

SNext == (\E t \in Offers : Offer(t)) \/ Vacate

SSpec == SInit /\ [][SNext]_slots
=============================================================================
