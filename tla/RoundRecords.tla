---------------------------- MODULE RoundRecords ----------------------------
(***************************************************************************)
(* The records a validator keeps (internal/consensus/evidence.go): the     *)
(* round it is in (RoundState), who validates at which height (Schedule)   *)
(* and evidence of misbehaviour (EvidencePool).  Schedule and EvidencePool *)
(* hold their mutex for every call and RoundState belongs to one           *)
(* goroutine, so every call is a step; calls come in any order.            *)
(***************************************************************************)
EXTENDS Voting, GoMap

CONSTANTS
    Genesis,        \* the validators a schedule starts with
    Rotations,      \* the validator sets it may rotate to
    RoundHeight,    \* the height of the round
    MaxView,        \* bound on the views of the round
    MaxRotation,    \* bound on the heights of rotations
    ViewBits,       \* width of a view
    Signers,        \* who sends votes
    Proposed,       \* hashes of proposed blocks
    EvidenceIDs,    \* IDs of evidence
    MaxEvidence     \* EvidencePool.max

\* The first view whose conversion to int is negative.
SignBit == 2^(ViewBits - 1)

ASSUME RecordsAssumption ==
    /\ RoundHeight \in Nat /\ MaxView \in Nat /\ MaxRotation \in Nat
    /\ ViewBits \in Nat \ {0} /\ SignBit \in Nat /\ MaxEvidence \in Nat
    /\ \A vals \in Rotations \cup {Genesis} : Len(vals) \in Nat

VARIABLES
    round,      \* a RoundState: View, Phase, Proposals and Votes
    history,    \* Schedule.history: height -> validators
    items       \* EvidencePool.items: ID -> whether it is resolved

RecordVars == <<round, history, items>>
-----------------------------------------------------------------------------
(* RoundState.  Proposals and votes are for one height, which never         *)
(* changes, and are stored with the view they were made for.                *)
NewRound ==
    [View |-> 0, Phase |-> "proposal", Proposals |-> EmptyMap, Votes |-> EmptyMap]

AddProposal(hash, h, v) ==
    /\ round.Phase = "proposal"
    /\ h = RoundHeight /\ v = round.View
    /\ hash \notin DOMAIN round.Proposals
    /\ round' = [round EXCEPT !.Proposals = MapPut(@, hash, [Height |-> h, View |-> v])]

AddVote(a, h, v) ==
    /\ h = RoundHeight /\ v = round.View
    /\ a \notin DOMAIN round.Votes
    /\ round' = [round EXCEPT !.Votes = MapPut(@, a, [Height |-> h, View |-> v])]

\* Leaving Commit opens the next view; proposals and votes stay.
Advance ==
    /\ round.Phase = "commit" => round.View < MaxView
    /\ round' =
         [round EXCEPT
            !.View = IF round.Phase = "commit" THEN @ + 1 ELSE @,
            !.Phase = CASE @ = "proposal" -> "prevote"
                        [] @ = "prevote" -> "precommit"
                        [] @ = "precommit" -> "commit"
                        [] OTHER -> "proposal"]
-----------------------------------------------------------------------------
(* Schedule *)
Rotate(h, vals) ==
    /\ h # 0 /\ vals # <<>>
    /\ history' = MapPut(history, h, vals)

\* Bug: the rotation takes effect only after its height.
AtStepLate(best, x, h) ==
    IF x < h /\ x >= best.at THEN [at |-> x, vals |-> history[x]] ELSE best

\* The body of At's loop: x is a rotation, best the best one so far.
AtStep(best, x, h) ==
    IF x <= h /\ x >= best.at THEN [at |-> x, vals |-> history[x]] ELSE best

\* What At(h) returns if it walks the rotations in this order.
AtInOrder(order, h) ==
    LET best[i \in 0..Len(order)] ==
            IF i = 0 THEN [at |-> 0, vals |-> Genesis]
            ELSE AtStep(best[i-1], order[i], h)
    IN best[Len(order)].vals

\* What At(h) may return: Go walks a map in any order.
AtResults(h) == {AtInOrder(order, h) : order \in SetToSeqs(DOMAIN history)}

\* int(v): a view with the highest bit set is negative.
SignedInt(v) == IF v >= SignBit THEN v - 2^ViewBits ELSE v

\* Go's %, with the sign of its first operand.
Remainder(a, n) == IF a < 0 THEN -((-a) % n) ELSE a % n

\* Bug: views are counted from 1.
ProposerIndexFrom1(v, n) == Remainder(SignedInt(v), n) + 1

\* The index of Proposer's validator among n, counted from 0.
ProposerIndex(v, n) == Remainder(SignedInt(v), n)
-----------------------------------------------------------------------------
(* EvidencePool *)

EvidenceFull == Cardinality(DOMAIN items) >= MaxEvidence

\* Bug: reported again, evidence replaces what is known of it.
AddEvidenceAgain(id, resolved) ==
    /\ id \in DOMAIN items \/ ~EvidenceFull
    /\ items' = MapPut(items, id, resolved)

\* Add(e) == nil.  The caller's Resolved is kept as it comes.
AddEvidence(id, resolved) ==
    /\ id \notin DOMAIN items
    /\ ~EvidenceFull
    /\ items' = MapPut(items, id, resolved)

Resolve(id) ==
    /\ id \in DOMAIN items
    /\ items' = [items EXCEPT ![id] = TRUE]
-----------------------------------------------------------------------------
Heights == {RoundHeight, RoundHeight + 1}

RecordInit == round = NewRound /\ history = EmptyMap /\ items = EmptyMap

RoundStep ==
    /\ \/ \E b \in Proposed, h \in Heights, v \in 0..MaxView : AddProposal(b, h, v)
       \/ \E a \in Signers, h \in Heights, v \in 0..MaxView : AddVote(a, h, v)
       \/ Advance
    /\ UNCHANGED <<history, items>>

ScheduleStep ==
    /\ \E h \in 0..MaxRotation, vals \in Rotations : Rotate(h, vals)
    /\ UNCHANGED <<round, items>>

EvidenceStep ==
    /\ \E id \in EvidenceIDs :
         Resolve(id) \/ \E resolved \in BOOLEAN : AddEvidence(id, resolved)
    /\ UNCHANGED <<round, history>>

RecordSpec ==
    RecordInit /\ [][RoundStep \/ ScheduleStep \/ EvidenceStep]_RecordVars
-----------------------------------------------------------------------------
\* At(h) is the latest rotation at or before h, in whichever order Go walks
\* the history and in whichever order rotations were announced, and is the
\* first validator set when there is none (evidence.go:167-179).
AtIsLatest ==
    \A h \in 0..(MaxRotation + 1) :
        LET due == {x \in DOMAIN history : x <= h}
        IN AtResults(h) =
             {IF due = {} THEN Genesis
              ELSE history[CHOOSE x \in due : \A y \in due : y <= x]}

\* In any n consecutive views each of the n validators of a height proposes
\* once, as long as the views stay below the sign bit (evidence.go:195-201).
ProposersRotate ==
    \A h \in 0..MaxRotation : \A vals \in AtResults(h) :
        LET n == Len(vals)
        IN \A v \in 0..(SignBit - n) :
             {ProposerIndex(w, n) : w \in v..(v + n - 1)} = 0..(n - 1)

\* new is old with records of the present height and view added.
Continues(new, old) ==
    /\ \A x \in DOMAIN old : x \in DOMAIN new /\ new[x] = old[x]
    /\ \A x \in DOMAIN new \ DOMAIN old :
         new[x] = [Height |-> RoundHeight, View |-> round.View]

\* What has been recorded stays: a new view loses or exchanges no proposal and
\* no vote, so a validator has one vote in all views, and what is added is for
\* the present height and view; evidence is never lost or reopened, and the
\* pool keeps its limit, resolved evidence included (evidence.go:48-58, 76-86,
\* 112-152).
RecordsStay ==
    [][/\ Continues(round.Proposals', round.Proposals)
       /\ Continues(round.Votes', round.Votes)
       /\ \A id \in DOMAIN items : id \in DOMAIN items' /\ (items[id] => items'[id])
       /\ Cardinality(DOMAIN items') <= MaxEvidence]_RecordVars
=============================================================================
