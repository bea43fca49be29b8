--------------------------- MODULE MCCallDelivery ---------------------------
(* Small instances of CallDelivery: three messages of one peer to another   *)
(* and two the other way.                                                   *)
EXTENDS CallDelivery, TLC

CONSTANTS a, b, m1, m2, m3, m4, m5

MCPeer == {a, b}
MCMsg == {m1, m2, m3, m4, m5}
MCFrom == [m \in MCMsg |-> IF m \in {m4, m5} THEN b ELSE a]
MCTo == [m \in MCMsg |-> IF m \in {m4, m5} THEN a ELSE b]

\* One release: what one peer may send, the other accepts.
MCAccepts == [p \in MCPeer |-> MCMsg]

\* Two releases: b refuses m1, and would not send it.
MixedAccepts == [p \in MCPeer |-> IF p = a THEN MCMsg ELSE MCMsg \ {m1}]

\* Messages of the same peer that are accepted alike play the same role.
Symmetry == Permutations({m2, m3}) \union Permutations({m4, m5})

=============================================================================
