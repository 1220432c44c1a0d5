------------------------------ MODULE KVState ------------------------------
(***************************************************************************)
(* The key/value state of the chain as a value, without the object that    *)
(* holds it (internal/state_machine/state.go): which transactions write,   *)
(* what they write, the root of a state, and the state a chain leads to.   *)
(***************************************************************************)
EXTENDS ChainDomain, GoMap

CONSTANTS
    KeyOrder,   \* the keys in use, as a sequence in the order of Go's <
    NoKey,      \* the empty key ""
    Values      \* the values in use

Keys == {KeyOrder[i] : i \in 1..Len(KeyOrder)}

ASSUME KeyOrderAssumption ==
    /\ KeyOrder \in Seq(Keys)
    /\ NoKey \notin Keys
    /\ \A i, j \in 1..Len(KeyOrder) : KeyOrder[i] = KeyOrder[j] => i = j

\* What State.data may hold.
StateMaps == UNION {[K -> Values] : K \in SUBSET Keys}

\* Apply(t) == nil
Applies(t) == t.Gas # 0 /\ t.Key # NoKey

\* The state after Apply(t) on d: an error changes nothing.
AppliedTo(d, t) == IF Applies(t) THEN MapPut(d, t.Key, t.Value) ELSE d

\* The keys K, sorted.
InOrder(K) ==
    LET kept[i \in 0..Len(KeyOrder)] ==
            IF i = 0 THEN <<>>
            ELSE IF KeyOrder[i] \in K THEN Append(kept[i-1], KeyOrder[i])
            ELSE kept[i-1]
    IN kept[Len(KeyOrder)]

\* root(d): the keys are sorted, and the pairs hashed in that order.
Root(d) ==
    LET keys == InOrder(DOMAIN d)
    IN SHA256([i \in 1..Len(keys) |-> <<keys[i], d[keys[i]]>>])
-----------------------------------------------------------------------------
(* The reference for the state of a chain.  hist is the transactions of     *)
(* each block; <<h, i>> is the position of the i-th transaction of block h. *)
(* Every key has the value of its last successful write.                    *)
Writes(hist, k) ==
    {p \in UNION {{h} \X (1..Len(hist[h])) : h \in 1..Len(hist)} :
        Applies(hist[p[1]][p[2]]) /\ hist[p[1]][p[2]].Key = k}

Later(p, q) == p[1] > q[1] \/ (p[1] = q[1] /\ p[2] > q[2])

LastWrite(hist, k) ==
    CHOOSE p \in Writes(hist, k) : \A q \in Writes(hist, k) : ~Later(q, p)

Replay(hist) ==
    [k \in {x \in Keys : Writes(hist, x) # {}} |->
        LET p == LastWrite(hist, k) IN hist[p[1]][p[2]].Value]
=============================================================================
