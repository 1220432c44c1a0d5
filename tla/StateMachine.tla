---------------------------- MODULE StateMachine ----------------------------
(***************************************************************************)
(* state_machine.State (internal/state_machine/state.go): the key/value    *)
(* state the chain's transactions write, and copies of it kept by height.  *)
(* Every method holds s.mu throughout, so every method is one step; the    *)
(* maps are copied on the way in and out, so none is shared.               *)
(***************************************************************************)
EXTENDS KVState

VARIABLES
    data,       \* State.data: key -> value
    versions    \* State.versions: height -> a copy of data

Apply(t) == data' = AppliedTo(data, t)

Snapshot(h) == versions' = MapPut(versions, h, data)

\* An error, and no change, where height h was never kept.
Rollback(h) == data' = IF h \in DOMAIN versions THEN versions[h] ELSE data

StateInit == data = EmptyMap /\ versions = EmptyMap
=============================================================================
