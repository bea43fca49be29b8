------------------------------- MODULE MCNode -------------------------------
(* A small instance of Node: two processes, and two other peers with an     *)
(* address each, one of them behind the other as its relay.                 *)
EXTENDS Node, Addresses, SequencesExt

CONSTANTS p, q, r, s, r1, s1

MCProcess == {p, q}
MCRemote == {r, s}
MCAddr == {r1, s1}

MCOwner == [a \in MCAddr |-> IF a = s1 THEN s ELSE r]

\* The connections to r may overlap.
MCMaxConn == [x \in MCRemote |-> IF x = r THEN 2 ELSE 1]

\* The keypairs are alike, and all properties are invariants.
MCSymmetry == Permutations(Key)

-----------------------------------------------------------------------------
(* The operators of Addresses on all short inputs *)

\* What r prints as its address, and how s is reached through it.
Multiaddr == [a \in MCAddr |-> IF a = r1 THEN LocalAddress(r, <<Transport("a")>>)
                                       ELSE DialThroughRelay(r, s)]

\* Given on the command line they name their owners.
ASSUME ArgumentsNameOwners ==
  \A a \in MCAddr :
    ParseBootstrapPeers(<<Line(Multiaddr[a])>>)
      = {[peer_id |-> MCOwner[a], address |-> Multiaddr[a]]}

Component == {P2p(r), P2p(s), Circuit, Transport("a")}
ShortAddr == UNION {[1..n -> Component] : n \in 0..3}
ShortText == UNION {[1..n -> {Line(Multiaddr[r1]), Line(Multiaddr[s1]), BadLine}] : n \in 0..3}

\* relay.rs, parse_bootstrap_peers: the peer is found by going through the
\* components in order, keeping the last one that names a peer.
ASSUME PeerIsLastNamed ==
  \A a \in ShortAddr :
    NamesPeer(a) =>
      PeerOf(a) = FoldLeft(LAMBDA found, c : IF c.kind = "p2p" THEN c.id ELSE found, "none", a)

\* dht.rs: a record survives encoding, also among lines that are no addresses, and
\* a decoded record has one address for every line that parses, in their order.
ASSUME RecordRoundTrip ==
  /\ \A as \in SeqOf({Multiaddr[r1], Multiaddr[s1]}, 3) : Decode(Encode(as)) = as
  /\ \A text \in ShortText :
       /\ Decode(text) = FlattenSeq([n \in DOMAIN text |->
                           IF text[n].parses THEN <<text[n].addr>> ELSE <<>>])
       /\ Decode(Encode(Capped(Decode(text), 2))) = Capped(Decode(text), 2)

\* One bad argument leaves none.
ASSUME AllOrNothing ==
  \A text \in ShortText :
    BadLine \in {text[n] : n \in DOMAIN text} => ParseBootstrapPeers(text) = {}

=============================================================================
