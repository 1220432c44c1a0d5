---------------------------- MODULE MCAuditFeed ----------------------------
(***************************************************************************)
(* Two writers, channels of capacity 1, and subscribers that come back.    *)
(***************************************************************************)
EXTENDS AuditFeed

MCSymmetry == Permutations(Writers) \cup Permutations(SubscriberIDs)
=============================================================================
