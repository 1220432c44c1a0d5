------------------------------- MODULE GoMap -------------------------------
(***************************************************************************)
(* Go's built-in map, as the node uses it: a function whose domain is the  *)
(* set of keys present.  make, m[k] = v and delete(m, k); a delete of an   *)
(* absent key leaves the map as it is.                                     *)
(***************************************************************************)

\* map[K]V{}
EmptyMap == [k \in {} |-> k]

\* m[k] = v
MapPut(m, k, v) == [x \in DOMAIN m \cup {k} |-> IF x = k THEN v ELSE m[x]]

\* delete(m, k) for every k in ks
MapDelete(m, ks) == [x \in DOMAIN m \ ks |-> m[x]]

\* m is a map whose keys are in K and whose values are in V
IsMap(m, K, V) ==
    /\ m = [k \in DOMAIN m |-> m[k]]
    /\ DOMAIN m \subseteq K
    /\ \A k \in DOMAIN m : m[k] \in V
=============================================================================
