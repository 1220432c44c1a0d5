----------------------------- MODULE MCLibrary -----------------------------
(***************************************************************************)
(* The objects that other parts do not use yet, one at a time: they share  *)
(* no state, so focus, chosen at the start, says which of them is called   *)
(* while the others are left as they were made.                            *)
(***************************************************************************)
EXTENDS Lookups, Retention, Reservations, Peers, Network, Catalog, Wire

CONSTANTS x1, x2, h1, h2, h3, h4, h5, w1, w2, c1, c2, b1, b2

VARIABLE focus

\* Two recipients, and one that is listed twice, with an empty address between.
MCAddresses == <<x1, NoRoute, x2>>
MCAddressLists == {MCAddresses, <<x1, NoRoute, x1>>}

StoreVars == <<blocks, snaps>>
LibraryVars ==
    <<LookupVars, StoreVars, ReservationVars, PeerVars, NetworkVars, CatalogVars,
      WireVars, focus>>

LibraryInit ==
    /\ LookupInit /\ RepoInit /\ ReservationInit /\ PeersInit
    /\ NetworkInit /\ CatalogInit /\ WireInit
    /\ focus \in {"index", "meta", "repo", "reservation", "peers", "network",
                  "catalog", "wire"}
    /\ focus # "network" => addresses = MCAddresses

\* Every object but the one in focus is left alone.
LibraryNext ==
    \/ /\ focus = "index" /\ IndexNext
       /\ UNCHANGED <<focus, StoreVars, ReservationVars, PeerVars, NetworkVars, CatalogVars, WireVars>>
    \/ /\ focus = "meta" /\ MetaNext
       /\ UNCHANGED <<focus, StoreVars, ReservationVars, PeerVars, NetworkVars, CatalogVars, WireVars>>
    \/ /\ focus = "repo" /\ RollbackNext
       /\ UNCHANGED <<focus, LookupVars, ReservationVars, PeerVars, NetworkVars, CatalogVars, WireVars>>
    \/ /\ focus = "reservation" /\ ReservationNext
       /\ UNCHANGED <<focus, LookupVars, StoreVars, PeerVars, NetworkVars, CatalogVars, WireVars>>
    \/ /\ focus = "peers" /\ PeersNext
       /\ UNCHANGED <<focus, LookupVars, StoreVars, ReservationVars, NetworkVars, CatalogVars, WireVars>>
    \/ /\ focus = "network" /\ NetworkNext
       /\ UNCHANGED <<focus, LookupVars, StoreVars, ReservationVars, PeerVars, CatalogVars, WireVars>>
    \/ /\ focus = "catalog" /\ CatalogNext
       /\ UNCHANGED <<focus, LookupVars, StoreVars, ReservationVars, PeerVars, NetworkVars, WireVars>>
    \/ /\ focus = "wire" /\ WireNext
       /\ UNCHANGED <<focus, LookupVars, StoreVars, ReservationVars, PeerVars, NetworkVars, CatalogVars>>

LibrarySpec == LibraryInit /\ [][LibraryNext]_LibraryVars
-----------------------------------------------------------------------------
MCBlock(hash, height, proposer) == [Hash |-> hash, Height |-> height, Proposer |-> proposer]

\* Two heights with two blocks each, a third, and two blocks without a hash.
MCKnown ==
    { MCBlock(h1, 1, x1), MCBlock(h2, 1, x2), MCBlock(h3, 2, x1), MCBlock(h4, 2, x1),
      MCBlock(h5, 3, x2), MCBlock(NoName, 2, x2), MCBlock(NoName, 3, x1) }

MCTx(id, key) == [ID |-> id, From |-> x1, Nonce |-> 0, Fee |-> 1, Gas |-> 1, Key |-> key, Value |-> x1]
MCBlockTxs == {<<>>, <<MCTx(h1, x1)>>, <<MCTx(h1, x1), MCTx(h2, x2), MCTx(h3, x1)>>}

MCScores == {-7, 0, 5}
MCBanBelow == -3

\* Bytes of strings: <<2, 3, 2>> reads like a value, a key and a value, and so
\* does <<2, 0, 3, 0, 2>> between NULs.
MCEntryKeys == <<<<1>>, <<3>>>>
MCEntryValues == {<<2>>, <<2, 3, 2>>, <<2, 0, 3, 0, 2>>}
MCSource == [k \in {<<1>>} |-> <<2, 3, 2>>]

MCStrings(a, b) == <<a, b, <<>>, <<>>, <<>>, <<>>>>
MCNumbers(nonce, expiry, size) == <<nonce, 0, 0, expiry, size>>
MCBytes(n) == [i \in 1..n |-> 1]

\* Bytes that move from one string to the next, the longest string, one that
\* is too long, an encoding that is too long, an expiry before 1970, and the
\* greatest numbers.
MCWireTxs ==
    {[strings |-> MCStrings(MCBytes(s[1]), MCBytes(s[2])), numbers |-> n] :
        s \in {<<1, 0>>, <<0, 1>>, <<2, 1>>, <<15, 0>>, <<16, 0>>, <<13, 13>>},
        n \in {MCNumbers(0, 0, 0), MCNumbers(0, -1, 3), MCNumbers(4095, 2047, 255)}}

\* Blocks with and without a transaction, and with two, which is too long.
MCWireBlocks ==
    LET t == [strings |-> MCStrings(<<1>>, <<>>), numbers |-> MCNumbers(0, 0, 0)]
    IN {[strings |-> <<MCBytes(n), <<>>, <<>>, <<>>, <<>>>>,
         numbers |-> <<1, 0, 0, 1>>, txs |-> txs] :
            n \in {0, 1}, txs \in {<<>>, <<t>>, <<t, t>>}}
=============================================================================
