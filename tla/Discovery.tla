----------------------------- MODULE Discovery -----------------------------
(***************************************************************************)
(* What a node knows of other peers: the events of connections, identify,  *)
(* mDNS and Kademlia as network.rs translates them, and the                *)
(* DiscoveryManager (discovery.rs) an application feeds with them.         *)
(*                                                                         *)
(* External, as network.rs uses it: the swarm, which counts connections    *)
(* per peer; and Kademlia, whose routing table has addresses for some      *)
(* peers, and which queues a RoutingUpdated event whenever it gets a new   *)
(* one.  An application calls next_event and feeds the manager before it   *)
(* calls it again, so an event and what becomes of it are one step.        *)
(* Events that reach nobody's state (errors, pings, relay and DCUtR        *)
(* reports, expired listeners and mDNS entries) are no step.               *)
(***************************************************************************)
EXTENDS Naturals, FiniteSets

CONSTANTS
  Remote,     \* the other peers
  Addr,       \* their addresses
  Owner,      \* Owner[a]: the peer whose address a is
  BootstrapPeers, RelayServers,  \* those of P2pConfig, each by its address
  MaxConn,    \* MaxConn[r]: bound on the connections to r
  Query       \* the kinds of query the application makes

QueryKind == {"bootstrap", "closest", "get", "put", "provide", "providers"}

ASSUME DiscoveryAssumption ==
  /\ Owner \in [Addr -> Remote]
  /\ BootstrapPeers \subseteq Addr /\ RelayServers \subseteq Addr
  /\ MaxConn \in [Remote -> Nat]
  /\ Query \subseteq QueryKind

VARIABLES
  conn,        \* conn[r]: how many connections to r there are
  table,       \* table[r]: r's addresses in the routing table
  updated,     \* the peers with a RoutingUpdated event on its way
  addresses,   \* DiscoveryManager.addresses: [r |-> set of addresses]
  identified,  \* DiscoveryManager.identified: [r |-> addresses of its PeerInfo]
  query,       \* the Kademlia query under way, and its reports so far
  \* Never read by an action.
  connected,   \* the peers that PeerConnected and PeerDisconnected leave
  manual,      \* manual[r]: addresses registered by hand since r was identified
  registered,  \* registered[r]: all addresses registered by hand
  unanswered   \* a get or a bootstrap ended without an event

discoveryVars == <<conn, table, updated, addresses, identified, query, connected,
                   manual, registered, unanswered>>

AddrOf(r) == {a \in Addr : Owner[a] = r}
NoQuery == [kind |-> "none", reports |-> 0]
Start(kind) == [kind |-> kind, reports |-> 0]

\* A map without a key is one whose domain lacks it.
Known == DOMAIN addresses \union DOMAIN identified      \* known_peers
Get(map, r) == IF r \in DOMAIN map THEN map[r] ELSE {}
Put(map, r, v) == [s \in DOMAIN map \union {r} |-> IF s = r THEN v ELSE map[s]]

\* addresses_for
AddressesFor(r) == Get(addresses, r) \union Get(identified, r)

Nothing == [r \in {} |-> {}]

\* A process that does not run, or has just been built.
DiscoveryInit ==
  /\ conn = [r \in Remote |-> 0]
  /\ table = [r \in Remote |-> {}]
  /\ updated = {}
  /\ addresses = Nothing
  /\ identified = Nothing
  /\ query = NoQuery
  /\ connected = {}
  /\ manual = [r \in Remote |-> {}]
  /\ registered = [r \in Remote |-> {}]
  /\ unanswered = FALSE

\* The end of the process.
DiscoveryReset ==
  /\ conn' = [r \in Remote |-> 0]
  /\ table' = [r \in Remote |-> {}]
  /\ updated' = {}
  /\ addresses' = Nothing
  /\ identified' = Nothing
  /\ query' = NoQuery
  /\ connected' = {}
  /\ manual' = [r \in Remote |-> {}]
  /\ registered' = [r \in Remote |-> {}]
  /\ UNCHANGED unanswered

-----------------------------------------------------------------------------
(* kademlia.add_address of the addresses in as. *)

TableWith(as) == [r \in Remote |-> table[r] \union (as \cap AddrOf(r))]
UpdatedWith(as) == updated \union {Owner[a] : a \in {b \in as : b \notin table[Owner[b]]}}
AddToTable(as) == table' = TableWith(as) /\ updated' = UpdatedWith(as)

(* DiscoveryManager.on_event *)

\* Mutant: insert instead of entry().or_default().
OnPeerSeen_Inserts(r) == addresses' = Put(addresses, r, {}) /\ UNCHANGED identified

\* PeerDiscovered, PeerConnected
OnPeerSeen(r) ==
  /\ addresses' = Put(addresses, r, Get(addresses, r))
  /\ UNCHANGED identified

\* PeerIdentified
OnPeerIdentified(r, as) ==
  /\ addresses' = Put(addresses, r, as)
  /\ identified' = Put(identified, r, as)

OnOtherEvent == UNCHANGED <<addresses, identified>>

-----------------------------------------------------------------------------
(* next_event, event by event *)

\* apply_startup_config, once the process listens.  Only bootstrap peers make it
\* bootstrap; dialling all of them leads to the events below.
ApplyStartupConfig ==
  /\ AddToTable(BootstrapPeers \union RelayServers)
  /\ query' = IF BootstrapPeers = {} THEN NoQuery ELSE Start("bootstrap")
  /\ UNCHANGED <<conn, addresses, identified, connected, manual, registered, unanswered>>

ConnectionEstablished(r) ==
  /\ conn[r] < MaxConn[r]
  /\ conn' = [conn EXCEPT ![r] = @ + 1]
  /\ connected' = connected \union {r}
  /\ OnPeerSeen(r)
  /\ UNCHANGED <<table, updated, query, manual, registered, unanswered>>

\* Mutant: every closed connection is reported.
ConnectionClosed_Each(r) ==
  /\ conn[r] > 0
  /\ conn' = [conn EXCEPT ![r] = @ - 1]
  /\ connected' = connected \ {r}
  /\ OnOtherEvent
  /\ UNCHANGED <<table, updated, query, manual, registered, unanswered>>

\* Only the last one is PeerDisconnected.
ConnectionClosed(r) ==
  /\ conn[r] > 0
  /\ conn' = [conn EXCEPT ![r] = @ - 1]
  /\ connected' = IF conn[r] = 1 THEN connected \ {r} ELSE connected
  /\ OnOtherEvent
  /\ UNCHANGED <<table, updated, query, manual, registered, unanswered>>

IdentifyReceived(r, as) ==
  /\ conn[r] > 0
  /\ AddToTable(as)
  /\ OnPeerIdentified(r, as)
  /\ manual' = [manual EXCEPT ![r] = {}]
  /\ UNCHANGED <<conn, query, connected, registered, unanswered>>

\* Mutant: the whole batch is filed under the peer that is reported.
MdnsDiscovered_AllToFirst(batch, first) ==
  /\ first \in batch
  /\ table' = [table EXCEPT ![Owner[first]] = @ \union batch]
  /\ updated' = updated \union {Owner[first]}
  /\ OnPeerSeen(Owner[first])
  /\ UNCHANGED <<conn, query, connected, manual, registered, unanswered>>

\* All addresses of a batch are added; only its first peer is reported.
MdnsDiscovered(batch, first) ==
  /\ first \in batch
  /\ AddToTable(batch)
  /\ OnPeerSeen(Owner[first])
  /\ UNCHANGED <<conn, query, connected, manual, registered, unanswered>>

\* Mutant: routing updates are not reported.
RoutingUpdated_Dropped(r) ==
  /\ r \in updated
  /\ updated' = updated \ {r}
  /\ OnOtherEvent
  /\ UNCHANGED <<conn, table, query, connected, manual, registered, unanswered>>

RoutingUpdated(r) ==
  /\ r \in updated
  /\ updated' = updated \ {r}
  /\ OnPeerSeen(r)
  /\ UNCHANGED <<conn, table, query, connected, manual, registered, unanswered>>

\* A peer Kademlia has an address of, and room for.
RoutablePeer(a) ==
  /\ conn[Owner[a]] > 0
  /\ AddToTable({a})
  /\ OnPeerSeen(Owner[a])
  /\ UNCHANGED <<conn, query, connected, manual, registered, unanswered>>

\* UnroutablePeer, PendingRoutablePeer: without an address, or without room.
UnroutablePeer(r) ==
  /\ conn[r] > 0
  /\ OnPeerSeen(r)
  /\ UNCHANGED <<conn, table, updated, query, connected, manual, registered, unanswered>>

-----------------------------------------------------------------------------
(* External: Kademlia on its own *)

\* It enters a peer it is connected to.
KademliaLearns(a) ==
  /\ conn[Owner[a]] > 0
  /\ AddToTable({a})
  /\ UNCHANGED <<conn, addresses, identified, query, connected, manual, registered, unanswered>>

\* It forgets an address that could not be dialled, or a peer for another one.
KademliaForgets(r) ==
  /\ \E as \in SUBSET table[r] : as # table[r] /\ table' = [table EXCEPT ![r] = as]
  /\ UNCHANGED <<conn, updated, addresses, identified, query, connected, manual, registered, unanswered>>

-----------------------------------------------------------------------------
(* What the application does *)

\* Peer::add_peer_address
AddPeerAddress(a) ==
  /\ AddToTable({a})
  /\ UNCHANGED <<conn, addresses, identified, query, connected, manual, registered, unanswered>>

\* DiscoveryManager::add_address
RegisterAddress(a) ==
  /\ addresses' = Put(addresses, Owner[a], Get(addresses, Owner[a]) \union {a})
  /\ manual' = [manual EXCEPT ![Owner[a]] = @ \union {a}]
  /\ registered' = [registered EXCEPT ![Owner[a]] = @ \union {a}]
  /\ UNCHANGED <<conn, table, updated, identified, query, connected, unanswered>>

\* bootstrap, get_closest_peers, find_peer, get_record, put_record,
\* start_providing, get_providers.  Bootstrapping needs a known peer.  (Kademlia
\* may start one itself.)
StartQuery(kind) ==
  /\ query = NoQuery
  /\ kind = "bootstrap" => \E r \in Remote : table[r] # {}
  /\ query' = Start(kind)
  /\ UNCHANGED <<conn, table, updated, addresses, identified, connected, manual, registered, unanswered>>

(* OutboundQueryProgressed.  None of its events changes the directory. *)

\* The query goes on, and an event is passed on: FoundRecord, FoundProviders, and
\* a bootstrap that has more to refresh.
QueryReports ==
  /\ query.kind \in {"get", "providers", "bootstrap"}
  /\ query' = [query EXCEPT !.reports = 1]
  /\ UNCHANGED <<conn, table, updated, addresses, identified, connected, manual, registered, unanswered>>

\* Mutant: a failed get is dropped, as other failures are.
LastReports_NoNotFound ==
  CASE query.kind = "bootstrap" -> {TRUE}
    [] query.kind \in {"closest", "put", "provide"} -> {TRUE, FALSE}
    [] OTHER -> {FALSE}

\* Whether the last result of the query is passed on, for the results it may have.
\* A bootstrap always is.  Of the others an answer is, and a failure is not, but for
\* get, which reports it as not found.  Get and providers end a query in which they
\* found something with a result that says so, and is not passed on.
LastReports ==
  CASE query.kind = "bootstrap" -> {TRUE}
    [] query.kind = "get" -> {TRUE} \union (IF query.reports > 0 THEN {FALSE} ELSE {})
    [] query.kind \in {"closest", "put", "provide"} -> {TRUE, FALSE}
    [] query.kind = "providers" -> {FALSE}

QueryEnds ==
  /\ query # NoQuery
  /\ \E report \in LastReports :
       unanswered' = (unanswered \/ (/\ query.kind \in {"get", "bootstrap"}
                                    /\ ~report /\ query.reports = 0))
  /\ query' = NoQuery
  /\ UNCHANGED <<conn, table, updated, addresses, identified, connected, manual, registered>>

DiscoveryStep ==
  \/ \E r \in Remote :
       \/ ConnectionEstablished(r) \/ ConnectionClosed(r)
       \/ RoutingUpdated(r) \/ UnroutablePeer(r) \/ KademliaForgets(r)
       \/ \E as \in SUBSET AddrOf(r) : IdentifyReceived(r, as)
  \/ \E batch \in SUBSET Addr, first \in Addr : MdnsDiscovered(batch, first)
  \/ \E a \in Addr :
       RoutablePeer(a) \/ KademliaLearns(a) \/ AddPeerAddress(a) \/ RegisterAddress(a)
  \/ \E kind \in Query : StartQuery(kind)
  \/ QueryReports \/ QueryEnds

-----------------------------------------------------------------------------
\* The variables hold values of the expected kinds, and every peer's addresses
\* are its own.
DiscoveryTypeOK ==
  /\ DOMAIN conn = Remote /\ \A r \in Remote : conn[r] \in 0..MaxConn[r]
  /\ table \in [Remote -> SUBSET Addr]
  /\ manual \in [Remote -> SUBSET Addr] /\ registered \in [Remote -> SUBSET Addr]
  /\ \A r \in Remote : table[r] \union manual[r] \union AddressesFor(r) \subseteq AddrOf(r)
  /\ updated \subseteq Remote /\ connected \subseteq Remote
  /\ Known \subseteq Remote
  /\ query \in [kind : QueryKind \union {"none"}, reports : 0..1]
  /\ unanswered \in BOOLEAN

\* discovery.rs: "an up-to-date view of discovered peers".  A peer in the routing
\* table is in the directory or will be by an event on its way; so the peers of an
\* mDNS batch that are not reported, and those added by hand, get there as well.
TableInDirectory ==
  \A r \in Remote : table[r] # {} => r \in Known \union updated

\* network.rs: PeerConnected comes for every connection and PeerDisconnected for
\* the last one, so that a set kept by them is the set of connected peers, all of
\* them in the directory.
ConnectedView ==
  /\ connected = {r \in Remote : conn[r] > 0}
  /\ connected \subseteq Known

\* discovery.rs, addresses_for: "Identify + manual registration".  It has all that
\* Identify said last and all that was registered by hand after that, whatever other
\* events came, and of what Identify said before only what was registered too.
\* (Whether it should still have what was registered before Identify is left open:
\* on_event discards it, the comment counts it in.)
AddressesCurrent ==
  \A r \in Remote :
    /\ Get(identified, r) \union manual[r] \subseteq AddressesFor(r)
    /\ AddressesFor(r) \subseteq Get(identified, r) \union registered[r]

\* network.rs: a get is always answered, by its value or by "not found", and a
\* bootstrap by its completion.  (A put, an announcement, a search for peers or for
\* providers may end without an event.)
GetsAreAnswered == ~unanswered

=============================================================================
