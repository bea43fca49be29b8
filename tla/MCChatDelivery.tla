--------------------------- MODULE MCChatDelivery ---------------------------
(* Small instances of ChatDelivery: three messages of one peer to another   *)
(* and one the other way, so that several outcomes can overtake each other  *)
(* while the roles are also exchanged.                                      *)
EXTENDS ChatDelivery

CONSTANTS a, b, m1, m2, m3, m4

MCPeer == {a, b}
MCMsg == {m1, m2, m3, m4}
MCFrom == [m \in MCMsg |-> IF m = m4 THEN b ELSE a]
MCTo == [m \in MCMsg |-> IF m = m4 THEN a ELSE b]

\* One release: every text that is sent is accepted.
MCSize == [m \in MCMsg |-> 1]
MCMaxChatBytes == [p \in MCPeer |-> 1]

\* Two releases: m1 is within the limit of a's build and beyond that of b's.
MixedSize == [m \in MCMsg |-> IF m = m1 THEN 2 ELSE 1]
MixedMaxChatBytes == [p \in MCPeer |-> IF p = a THEN 2 ELSE 1]

=============================================================================
