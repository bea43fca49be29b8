----------------------------- MODULE Addresses -----------------------------
(***************************************************************************)
(* Multiaddresses as the program reads and builds them: the address of a   *)
(* bootstrap peer or relay server on the command line, addresses through a *)
(* relay (relay.rs), and the record of a peer's addresses in the DHT       *)
(* (dht.rs).  An address is the sequence of its components; a text is a    *)
(* sequence of lines, and of a line only matters whether it parses.        *)
(***************************************************************************)
EXTENDS Naturals, Sequences

P2p(id) == [kind |-> "p2p", id |-> id]
Circuit == [kind |-> "p2p-circuit", id |-> "-"]
Transport(where) == [kind |-> "transport", id |-> where]  \* /ip4/.../tcp/... and the like

\* A line that parses as an address, and one that does not.
Line(addr) == [parses |-> TRUE, addr |-> addr]
BadLine == [parses |-> FALSE, addr |-> <<>>]

-----------------------------------------------------------------------------
(* Whose address it is *)

P2pAt(addr) == {n \in DOMAIN addr : addr[n].kind = "p2p"}
NamesPeer(addr) == P2pAt(addr) # {}

\* The last /p2p component counts: the others are relays on the way.
PeerOf(addr) == addr[CHOOSE n \in P2pAt(addr) : \A m \in P2pAt(addr) : m <= n].id

\* RelayConfig::from_multiaddr: with no peer there is no configuration.
FromMultiaddr(line) ==
  IF line.parses /\ NamesPeer(line.addr)
    THEN {[peer_id |-> PeerOf(line.addr), address |-> line.addr]} ELSE {}

\* parse_bootstrap_peers: one bad input fails the whole.
ParseBootstrapPeers(lines) ==
  IF \A n \in DOMAIN lines : FromMultiaddr(lines[n]) # {}
    THEN UNION {FromMultiaddr(lines[n]) : n \in DOMAIN lines} ELSE {}

-----------------------------------------------------------------------------
(* Addresses the program builds *)

\* Peer::local_addresses, for others to be given.
LocalAddress(self, addr) == Append(addr, P2p(self))

\* RelayConfig::relay_listen_address, dial_through_relay
RelayListenAddress(relay) == <<P2p(relay), Circuit>>
DialThroughRelay(relay, target) == <<P2p(relay), Circuit, P2p(target)>>
IsCircuitAddr(addr) == \E n \in DOMAIN addr : addr[n] = Circuit

-----------------------------------------------------------------------------
(* AddressRecord *)

Encode(addresses) == [n \in DOMAIN addresses |-> Line(addresses[n])]

\* Lines that do not parse are skipped.
Decode(lines) ==
  LET good == SelectSeq(lines, LAMBDA line : line.parses)
  IN [n \in DOMAIN good |-> good[n].addr]

\* capped: Vec::truncate
Capped(addresses, max) ==
  IF Len(addresses) <= max THEN addresses ELSE SubSeq(addresses, 1, max)

=============================================================================
