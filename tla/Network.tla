------------------------------ MODULE Network ------------------------------
(***************************************************************************)
(* consensus.Network (internal/consensus/simulator.go): a queue of         *)
(* messages for every recipient.  Send, Recv and DropPeer hold n.mu        *)
(* throughout; SimulateRound sends one message after the other, so rounds  *)
(* that are simulated at once interleave, with each other and with Recv.   *)
(***************************************************************************)
EXTENDS GoMap, FiniteSets, Integers, Sequences

CONSTANTS
    AddressLists,   \* the addresses an engine's validators may have, in order
    NoRoute,        \* the empty address ""
    Simulations,    \* calls of SimulateRound, each with a block of its own
    MaxDrops        \* bound on the calls of DropPeer for a peer

\* Nothing checks an engine's validators: an address may be listed twice, or be
\* empty.
ASSUME NetworkAssumption ==
    MaxDrops \in Nat /\ \A list \in AddressLists : Len(list) \in Nat

Recipients ==
    (UNION {{list[i] : i \in 1..Len(list)} : list \in AddressLists}) \ {NoRoute}

VARIABLES
    addresses,  \* of the engine's validators, which never change
    queues,     \* Network.queues: address -> messages
    dropped,    \* Network.dropped: address -> how often it was dropped
    position,   \* round -> how many of its messages have been sent
    received,   \* address -> what Recv has returned to it
    sent        \* not in the code: address -> what was sent to it

NetworkVars == <<addresses, queues, dropped, position, received, sent>>

Queue(id) == IF id \in DOMAIN queues THEN queues[id] ELSE <<>>

\* A message without a route is refused.
Send(m) ==
    IF m.To # NoRoute /\ m.From # NoRoute
    THEN /\ queues' = MapPut(queues, m.To, Append(Queue(m.To), m))
         /\ sent' = [sent EXCEPT ![m.To] = Append(@, m)]
    ELSE UNCHANGED <<queues, sent>>

\* Bug: the queue is read and not deleted.
RecvKeeps(id) ==
    /\ Queue(id) # <<>>
    /\ received' = [received EXCEPT ![id] = @ \o Queue(id)]
    /\ UNCHANGED <<addresses, queues, dropped, position, sent>>

\* Everything that waits for id; nothing waiting is an empty answer.
Recv(id) ==
    /\ Queue(id) # <<>>
    /\ received' = [received EXCEPT ![id] = @ \o Queue(id)]
    /\ queues' = MapDelete(queues, {id})
    /\ UNCHANGED <<addresses, dropped, position, sent>>

\* A dropped peer is counted; its queue stays.
DropPeer(id) ==
    /\ dropped[id] < MaxDrops
    /\ dropped' = [dropped EXCEPT ![id] = @ + 1]
    /\ UNCHANGED <<addresses, queues, position, received, sent>>

Steps == <<"proposal", "prevote", "precommit">>

\* The next message of a simulated round: every validator writes to itself,
\* once for every phase.  A refusal is ignored.
SimulateRound(b) ==
    /\ position[b] < 3 * Len(addresses)
    /\ LET v == addresses[(position[b] \div 3) + 1]
       IN Send([From |-> v, To |-> v, Phase |-> Steps[(position[b] % 3) + 1],
                Block |-> b])
    /\ position' = [position EXCEPT ![b] = @ + 1]
    /\ UNCHANGED <<addresses, dropped, received>>

NetworkInit ==
    /\ addresses \in AddressLists
    /\ queues = EmptyMap
    /\ dropped = [id \in Recipients |-> 0]
    /\ position = [b \in Simulations |-> 0]
    /\ received = [id \in Recipients |-> <<>>]
    /\ sent = [id \in Recipients |-> <<>>]

NetworkNext ==
    \/ \E b \in Simulations : SimulateRound(b)
    \/ \E id \in Recipients : Recv(id) \/ DropPeer(id)

NetworkSpec == NetworkInit /\ [][NetworkNext]_NetworkVars
-----------------------------------------------------------------------------
\* How many of the messages before the i-th are of simulation b.
Before(s, b, i) == Cardinality({j \in 1..(i - 1) : s[j].Block = b})

\* The sendings of simulation b so far that are to id.
Sendings(b, id) ==
    {p \in 0..(position[b] - 1) : addresses[(p \div 3) + 1] = id}

\* Every recipient gets what was sent to it once and in that order, however
\* rounds and receivers interleave.  Of a round it has, or waits for, the
\* proposal, the prevote and the precommit in this order and all that was sent
\* so far: once, or once more for every time its address is listed again
\* (simulator.go:30-45, 91-101).
MessagesInOrder ==
    \A id \in Recipients :
        LET all == received[id] \o Queue(id)
        IN /\ all = sent[id]
           /\ \A b \in Simulations :
                /\ Before(all, b, Len(all) + 1) = Cardinality(Sendings(b, id))
                /\ \A i \in 1..Len(all) :
                     all[i].Block = b => all[i].Phase = Steps[(Before(all, b, i) % 3) + 1]
=============================================================================
