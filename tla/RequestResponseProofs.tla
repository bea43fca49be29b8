------------------------ MODULE RequestResponseProofs ------------------------
(***************************************************************************)
(* The outstanding requests between two peers, and how each step of        *)
(* RequestResponse changes them: the facts the proofs about the chat and   *)
(* the signaling path share.                                               *)
(***************************************************************************)
EXTENDS RequestResponse, FiniteSetTheorems, TLAPS

\* There are finitely many outstanding requests between two peers.
LEMMA WaitingFinite ==
  ASSUME NEW p, NEW q
  PROVE  IsFiniteSet(Waiting(p, q)) /\ Cardinality(Waiting(p, q)) \in Nat
<1>1. Waiting(p, q) \in SUBSET Msg
  BY DEF Waiting
<1> QED BY <1>1, MsgFinite, FS_Subset, FS_CardinalityType

\* Sending m adds it to the outstanding requests between its two peers.
LEMMA SendWaiting ==
  ASSUME NEW m \in Msg, status \in [Msg -> Status], SendRequest(m), NEW p, NEW q
  PROVE  IF p = From[m] /\ q = To[m]
           THEN Waiting(p, q)' = Waiting(p, q) \cup {m} /\ m \notin Waiting(p, q)
           ELSE Waiting(p, q)' = Waiting(p, q)
BY DEF SendRequest, Waiting

\* m is given an outcome.
Settle(m, s) ==
  /\ status[m] = "waiting"
  /\ s # "waiting"
  /\ status' = [status EXCEPT ![m] = s]

\* An outcome for m takes it off the outstanding requests between its peers.
LEMMA OutcomeWaiting ==
  ASSUME NEW m \in Msg, NEW s, status \in [Msg -> Status], Settle(m, s),
         NEW p, NEW q
  PROVE  IF p = From[m] /\ q = To[m]
           THEN Waiting(p, q)' = Waiting(p, q) \ {m} /\ m \in Waiting(p, q)
           ELSE Waiting(p, q)' = Waiting(p, q)
BY DEF Settle, Waiting

\* Ending p's process leaves it no outstanding request, and the others theirs.
LEMMA DropWaiting ==
  ASSUME NEW d \in Peer, status \in [Msg -> Status], DropPeer(d), NEW p, NEW q
  PROVE  Waiting(p, q)' = IF p = d THEN {} ELSE Waiting(p, q)
BY DEF DropPeer, Waiting

=============================================================================
