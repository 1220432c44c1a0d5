----------------------------- MODULE Consensus -----------------------------
(***************************************************************************)
(* consensus.Engine (internal/consensus/bft.go, simulator.go): a node's    *)
(* view of the round it is in and the votes it has received.  Every method *)
(* holds e.mu throughout, so every method is one step.  The engine has no  *)
(* driver of its own: its methods are called in any order, votes come from *)
(* anyone, late, early and repeatedly.                                     *)
(***************************************************************************)
EXTENDS Voting, GoMap

CONSTANTS
    Networks,   \* the validator sets an engine may be created with; New checks
                \* nothing, these are such that ValidateNetwork accepts them
    Voters,     \* who sends votes, validator or not
    MaxRound    \* bound on heights and views

ASSUME NetworksAssumption ==
    \A vals \in Networks :
        /\ vals \in Seq({vals[i] : i \in 1..Len(vals)})
        /\ \A i \in 1..Len(vals) : vals[i].Power \in 0..MaxPower
        /\ ValidateNetwork(vals)
ASSUME MaxRoundAssumption == MaxRound \in Nat

VARIABLES
    height, view, phase,    \* Engine.height, view and phase
    validators,             \* Engine.validators, which never changes
    votes,                  \* Engine.votes: voter -> vote
    carried                 \* not in the code: Step has carried votes over to
                            \* another height since they were last dropped

EngineVars == <<height, view, phase, validators, votes, carried>>

Phases == {"proposal", "prevote", "precommit", "commit"}

EngineInit ==
    /\ height = 0 /\ view = 0 /\ phase = "proposal"
    /\ validators \in Networks
    /\ votes = EmptyMap /\ carried = FALSE

AfterPhase(p) ==
    CASE p = "proposal" -> "prevote"
      [] p = "prevote" -> "precommit"
      [] p = "precommit" -> "commit"
      [] OTHER -> "proposal"

\* Leaving Commit moves to the next height; the votes of the old one stay.
Step ==
    /\ phase = "commit" => height < MaxRound
    /\ phase' = AfterPhase(phase)
    /\ height' = IF phase = "commit" THEN height + 1 ELSE height
    /\ view' = IF phase = "commit" THEN 0 ELSE view
    /\ carried' = (carried \/ (phase = "commit" /\ votes # EmptyMap))
    /\ UNCHANGED <<validators, votes>>

\* Vote(v) == true; a vote that is refused changes nothing.
Vote(v) ==
    /\ v.Height = height /\ v.View = view
    /\ v.Validator \notin DOMAIN votes
    /\ votes' = MapPut(votes, v.Validator, v)
    /\ UNCHANGED <<height, view, phase, validators, carried>>

\* Bug: the votes of the old height are kept.
SetHeightKeepsVotes(h) ==
    /\ height' = h
    /\ carried' = FALSE
    /\ UNCHANGED <<view, phase, validators, votes>>

SetHeight(h) ==
    /\ height' = h
    /\ votes' = EmptyMap /\ carried' = FALSE
    /\ UNCHANGED <<view, phase, validators>>

SetView(v) ==
    /\ view' = v
    /\ phase' = "proposal"
    /\ votes' = EmptyMap /\ carried' = FALSE
    /\ UNCHANGED <<height, validators>>

\* The number of votes is compared with a quorum of power.
Finalized == phase = "commit" /\ Cardinality(DOMAIN votes) >= Quorum(validators)

Rounds == 0..MaxRound

\* Two kinds of vote, as a voter that says two different things would send.
Votes == [Validator : Voters, Height : Rounds, View : Rounds,
          Type : {"prevote", "precommit"}]

EngineNext ==
    \/ Step
    \/ \E v \in Votes : Vote(v)
    \/ \E h \in Rounds : SetHeight(h)
    \/ \E v \in Rounds : SetView(v)

EngineSpec == EngineInit /\ [][EngineNext]_EngineVars
-----------------------------------------------------------------------------
\* Types of the engine.
EngineTypeOK ==
    /\ height \in Rounds /\ view \in Rounds
    /\ phase \in Phases /\ carried \in BOOLEAN
    /\ validators \in Networks
    /\ IsMap(votes, Voters, Votes)
    /\ \A a \in DOMAIN votes : votes[a].Validator = a

\* No vote is of a height to come, and a vote of the present height is of the
\* present view.  Votes of an earlier height are there exactly if Step has left
\* Commit with votes and neither SetHeight nor SetView was called since; votes
\* of an earlier view never are (bft.go:40-43, simulator.go:48-60).
VotesOfRound ==
    /\ \A a \in DOMAIN votes :
         /\ votes[a].Height <= height
         /\ votes[a].Height = height => votes[a].View = view
    /\ carried <=> \E a \in DOMAIN votes : votes[a].Height # height

\* A vote, once counted, is not exchanged for another one of the same voter:
\* whoever votes twice is held to the first until the votes are all dropped
\* (bft.go:54).
FirstVoteCounts ==
    [][\/ votes' = EmptyMap
       \/ \A a \in DOMAIN votes : a \in DOMAIN votes' /\ votes'[a] = votes[a]
      ]_EngineVars

\* Whatever the powers of the validators, a finalized round has votes, of this
\* very height and view, of validators with more than two thirds of the power,
\* although Finalized only counts votes: each stands for a power of 1 or more,
\* in a set that ValidateNetwork accepts.
\* A vote of a stranger, or one carried over from an earlier height, is counted
\* too, but each makes up for a power of 1 and no more.  The doubled power has
\* to fit its width (simulator.go:61-70, validation.go:46-52, bft.go:40-43).
FinalizedHasQuorum ==
    LET n == Len(validators)
        all == PowerIn(validators, 1..n)
        now == {a \in DOMAIN votes : votes[a].Height = height /\ votes[a].View = view}
        voted == {i \in 1..n : validators[i].Address \in now}
        others == DOMAIN votes \ {validators[i].Address : i \in voted}
    IN (Finalized /\ 2 * all <= MaxPower)
          => 3 * (PowerIn(validators, voted) + Cardinality(others)) > 2 * all

\* HasQuorum holds exactly when the voters have more than two thirds of the
\* power, counted without overflow, for the votes in any order and with the
\* first vote repeated at the end, wherever the doubled power of the
\* validators fits its width and no address is listed twice
\* (validation.go:46-67).
QuorumIsTwoThirds ==
    LET n == Len(validators)
        all == PowerIn(validators, 1..n)
        voted == {i \in 1..n : validators[i].Address \in DOMAIN votes}
        Distinct == \A i, j \in 1..n :
                        validators[i].Address = validators[j].Address => i = j
    IN (Distinct /\ 2 * all <= MaxPower) =>
         \A order \in SetToSeqs(DOMAIN votes) :
            LET again == IF order = <<>> THEN order ELSE Append(order, order[1])
            IN HasQuorum(validators, again) <=> 3 * PowerIn(validators, voted) > 2 * all
=============================================================================
