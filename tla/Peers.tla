------------------------------- MODULE Peers -------------------------------
(***************************************************************************)
(* p2p.Manager (internal/p2p/peers.go, protocol.go): scores and bans of    *)
(* peers.  Every method holds m.mu throughout; the calls come in any       *)
(* order, and Add with any record, since peerH adds what a client posts.   *)
(* LastSeen, in which Ban keeps its duration, is read by nobody: a ban     *)
(* does not end by itself.                                                 *)
(***************************************************************************)
EXTENDS GoMap, Integers, Sequences

CONSTANTS
    PeerIDs,    \* IDs of peers
    NoPeerID,   \* the empty ID ""
    Scores,     \* scores of added peers
    Penalties,  \* what Penalize subtracts
    BanBelow,   \* a lower score is a ban (-100)
    ScoreBits,  \* width of a score
    MaxCalls    \* bound on the calls

MinScore == -(2^(ScoreBits - 1))

\* What a score may be.
Width == MinScore..(-MinScore - 1)

ASSUME PeersAssumption ==
    /\ ScoreBits \in Nat \ {0} /\ MinScore \in Int /\ MinScore < 0 /\ MaxCalls \in Nat
    /\ Scores \cup Penalties \cup {BanBelow} \subseteq Width

VARIABLES
    peers,  \* Manager.peers: ID -> score and ban
    calls   \* not in the code: the calls so far

PeerVars == <<peers, calls>>

\* The zero Peer, which every method but Add makes of an unknown ID.
PeerOf(id) ==
    IF id \in DOMAIN peers THEN peers[id] ELSE [Score |-> 0, Banned |-> FALSE]

\* Two's complement in ScoreBits bits.
WrapScore(x) == ((x - MinScore) % (-2 * MinScore)) + MinScore

Record(call) ==
    /\ Len(calls) < MaxCalls
    /\ calls' = Append(calls, call)

Add(id, score, banned) ==
    /\ peers' = MapPut(peers, id, [Score |-> score, Banned |-> banned])
    /\ Record([op |-> "add", id |-> id, score |-> score, banned |-> banned])

\* peerH with POST
PeerH(id, score, banned) == id # NoPeerID /\ Add(id, score, banned)

\* Bug: a score above the limit ends the ban.
PenalizeForgives(id, n) ==
    LET score == WrapScore(PeerOf(id).Score - n)
    IN /\ peers' = MapPut(peers, id, [Score |-> score, Banned |-> score < BanBelow])
       /\ Record([op |-> "penalize", id |-> id, n |-> n])

Penalize(id, n) ==
    LET score == WrapScore(PeerOf(id).Score - n)
    IN /\ peers' = MapPut(peers, id, [Score |-> score,
                             Banned |-> PeerOf(id).Banned \/ score < BanBelow])
       /\ Record([op |-> "penalize", id |-> id, n |-> n])

Ban(id) ==
    /\ peers' = MapPut(peers, id, [PeerOf(id) EXCEPT !.Banned = TRUE])
    /\ Record([op |-> "ban", id |-> id])

Unban(id) ==
    /\ peers' = MapPut(peers, id, [PeerOf(id) EXCEPT !.Banned = FALSE])
    /\ Record([op |-> "unban", id |-> id])

\* The peers HealthyCount counts.
HealthyPeers == {id \in DOMAIN peers : ~peers[id].Banned /\ peers[id].Score >= 0}

PeersInit == peers = EmptyMap /\ calls = <<>>

PeersNext ==
    \E id \in PeerIDs :
        \/ \E score \in Scores, banned \in BOOLEAN : PeerH(id, score, banned)
        \/ \E n \in Penalties : Penalize(id, n)
        \/ Ban(id)
        \/ Unban(id)

PeersSpec == PeersInit /\ [][PeersNext]_PeerVars
-----------------------------------------------------------------------------
\* What call c makes of a score x of id, in whole numbers.
Owes(x, c, id) ==
    CASE c.id = id /\ c.op = "add" -> c.score
      [] c.id = id /\ c.op = "penalize" -> x - c.n
      [] OTHER -> x

\* The score the first n calls of a log leave id with, in whole numbers.
OwedScore(log, id, n) ==
    LET after[i \in 0..Len(log)] == IF i = 0 THEN 0 ELSE Owes(after[i-1], log[i], id)
    IN after[n]

\* The i-th call, of id, bans it; the i-th call, of id, ends a ban.
Bans(i) ==
    \/ calls[i].op = "ban"
    \/ calls[i].op = "add" /\ calls[i].banned
    \/ calls[i].op = "penalize" /\ OwedScore(calls, calls[i].id, i) < BanBelow
Pardons(i) == calls[i].op \in {"unban", "add"}

\* A peer is banned exactly if it was, by a call or by its score, after the
\* last time it was unbanned or added; then, or while penalties outweigh its
\* score, it is not healthy.  This is for scores that stay within their width:
\* beyond it a penalty wraps around (peers.go:20-25, 35-44, protocol.go:86-109).
BanHolds ==
    \A id \in PeerIDs :
        LET of == {i \in 1..Len(calls) : calls[i].id = id}
            banned == \E i \in of : Bans(i) /\ \A j \in of : j > i => ~Pardons(j)
        IN (\A i \in of : OwedScore(calls, id, i) \in Width) =>
              /\ PeerOf(id).Banned = banned
              /\ id \in HealthyPeers <=>
                    of # {} /\ ~banned /\ OwedScore(calls, id, Len(calls)) >= 0
=============================================================================
