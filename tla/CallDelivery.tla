---------------------------- MODULE CallDelivery ----------------------------
(***************************************************************************)
(* The signaling path of rust-core's Peer (network.rs): send_call_message, *)
(* the translation of the call behaviour's events, and call_outbound, the  *)
(* map of outstanding requests by which an acknowledgement is matched with *)
(* a signaling message.  Peers talk through RequestResponse.               *)
(*                                                                         *)
(* call_outbound is keyed by request id, and its values are looked through *)
(* in the order of a HashMap's iteration, which is arbitrary.              *)
(***************************************************************************)
EXTENDS RequestResponse

CONSTANTS
  Accepts,       \* Accepts[p]: the messages that CallMessage::is_valid
                 \* takes in p's build
  OneAtATime,    \* the peers whose application waits for the outcome of a
                 \* message before it sends the next one to the same peer
  MaxRestarts    \* bound on the number of process restarts explored

ASSUME CallAssumption ==
  /\ Accepts \in [Peer -> SUBSET Msg]
  /\ OneAtATime \subseteq Peer
  /\ MaxRestarts \in Nat

VARIABLES
  call_outbound,  \* call_outbound[p]: the messages in p's map
  restarts,       \* how many times a process was restarted
  \* What the applications were told by next_event; never read by an action.
  received,       \* CallMessageReceived, at the destination
  reported,       \* reported[m]: number of CallMessageSent made from m's entry
  errors          \* errors[p][q]: number of CallError about q at p

callVars == <<call_outbound, restarts, received, reported, errors>>
vars == <<rrVars, callVars>>

\* The entries of p's map whose destination is q.
Entries(p, q) == {m \in call_outbound[p] : To[m] = q}

Init ==
  /\ RRInit
  /\ call_outbound = [p \in Peer |-> {}]
  /\ restarts = 0
  /\ received = {}
  /\ reported = [m \in Msg |-> 0]
  /\ errors = [p \in Peer |-> [q \in Peer |-> 0]]

\* send_call_message: an invalid message is refused before anything is done.
SendCall(m) ==
  /\ m \in Accepts[From[m]]
  /\ From[m] \in OneAtATime => Waiting(From[m], To[m]) = {}
  /\ SendRequest(m)
  /\ call_outbound' = [call_outbound EXCEPT ![From[m]] = @ \union {m}]
  /\ UNCHANGED <<restarts, received, reported, errors>>

\* A valid message is acknowledged and handed to the application.
OnRequest(m) ==
  /\ m \in Accepts[To[m]]
  /\ TakeRequest(m, [ok |-> TRUE])
  /\ received' = received \union {m}
  /\ UNCHANGED <<call_outbound, restarts, reported, errors>>

\* An invalid one is refused, and the application hears nothing of it.
OnInvalidRequest(m) ==
  /\ m \notin Accepts[To[m]]
  /\ TakeRequest(m, [ok |-> FALSE])
  /\ UNCHANGED callVars

\* Mutant: all entries for the peer are taken.
Takeable_All(p, q) == {Entries(p, q)}

\* take_call_outbound: any entry for the peer the answer came from.
Takeable(p, q) == IF Entries(p, q) = {} THEN {{}} ELSE {{m} : m \in Entries(p, q)}

\* An acknowledgement removes such an entry and reports it as sent; without
\* one, nothing is reported.
OnAck(r) ==
  LET p == From[r.id]
      q == To[r.id]
  IN /\ r.ack.ok
     /\ TakeResponse(r, "acked")
     /\ \E taken \in Takeable(p, q) :
          /\ call_outbound' = [call_outbound EXCEPT ![p] = @ \ taken]
          /\ reported' = [m \in Msg |-> IF m \in taken THEN reported[m] + 1
                                                       ELSE reported[m]]
     /\ UNCHANGED <<restarts, received, errors>>

\* Mutant: a refusal is dropped.
OnNok_Silent(r) == ~r.ack.ok /\ TakeResponse(r, "refused") /\ UNCHANGED callVars

\* A refusal is reported as an error; the map keeps its entry.
OnNok(r) ==
  /\ ~r.ack.ok
  /\ TakeResponse(r, "refused")
  /\ errors' = [errors EXCEPT ![From[r.id]][To[r.id]] = @ + 1]
  /\ UNCHANGED <<call_outbound, restarts, received, reported>>

\* Mutant: the entry is kept.
OnFailure_KeepsEntry(m) ==
  /\ FailRequest(m)
  /\ errors' = [errors EXCEPT ![From[m]][To[m]] = @ + 1]
  /\ UNCHANGED <<call_outbound, restarts, received, reported>>

\* A failed request's own entry is removed if it is still there.
OnFailure(m) ==
  /\ FailRequest(m)
  /\ call_outbound' = [call_outbound EXCEPT ![From[m]] = @ \ {m}]
  /\ errors' = [errors EXCEPT ![From[m]][To[m]] = @ + 1]
  /\ UNCHANGED <<restarts, received, reported>>

\* p's process ends and a new one starts with an empty map.
Restart(p) ==
  /\ restarts < MaxRestarts
  /\ DropPeer(p)
  /\ restarts' = restarts + 1
  /\ call_outbound' = [call_outbound EXCEPT ![p] = {}]
  /\ UNCHANGED <<received, reported, errors>>

Next ==
  \/ \E m \in Msg :
       SendCall(m) \/ OnRequest(m) \/ OnInvalidRequest(m) \/ OnFailure(m)
  \/ \E r \in response : OnAck(r) \/ OnNok(r)
  \/ \E p \in Peer : Restart(p)

Spec == Init /\ [][Next]_vars

-----------------------------------------------------------------------------
\* The messages p sent to q whose request ended with outcome s.
Ended(p, q, s) == {m \in Msg : From[m] = p /\ To[m] = q /\ status[m] = s}

\* The variables hold values of the expected kinds, and a map holds only
\* messages its own peer sent, none whose request has failed or was made by an
\* earlier process (remove by request id in OutboundFailure, wherever the
\* acknowledgements of other messages have left the map).
TypeOK ==
  /\ status \in [Msg -> Status]
  /\ request \subseteq Msg
  /\ response \subseteq [id : Msg, ack : [ok : BOOLEAN]]
  /\ call_outbound \in [Peer -> SUBSET Msg]
  /\ \A p \in Peer, m \in Msg :
       m \in call_outbound[p] => From[m] = p /\ status[m] \in {"waiting", "acked", "refused"}
  /\ restarts \in Nat
  /\ received \subseteq Msg
  /\ reported \in [Msg -> Nat]
  /\ errors \in [Peer -> [Peer -> Nat]]

\* Whichever entries acknowledgements take, p's map never holds fewer entries
\* for q than p has requests to q outstanding: take_call_outbound finds one.
EntriesCoverWaiting ==
  \A p, q \in Peer : Cardinality(Waiting(p, q)) <= Cardinality(Entries(p, q))

\* Between two peers there are as many CallMessageSent as acknowledgements and
\* as many CallError as failures and refusals, and no message is reported sent
\* twice: the reports are right in number even when they name the wrong message.
ReportsCount ==
  /\ \A p, q \in Peer :
       LET all == {m \in Msg : From[m] = p /\ To[m] = q}
       IN /\ Cardinality({m \in all : reported[m] > 0}) = Cardinality(Ended(p, q, "acked"))
          /\ errors[p][q] = Cardinality(Ended(p, q, "failed") \union Ended(p, q, "refused"))
  /\ \A m \in Msg : reported[m] <= 1

\* events.rs: CallMessageSent, "a signaling message we sent was acknowledged",
\* names a message whose acknowledgement came.
SentIsAcked == \A m \in Msg : reported[m] > 0 => status[m] = "acked"

\* For an application that sends one message at a time, to a peer that accepts
\* whatever it may send, the map holds exactly what is outstanding, and
\* CallMessageSent names a message whose acknowledgement came.
OneAtATimeExact ==
  \A p \in OneAtATime, q \in Peer :
    Accepts[p] \subseteq Accepts[q] =>
      /\ Entries(p, q) = Waiting(p, q)
      /\ \A m \in Msg : From[m] = p /\ To[m] = q /\ reported[m] > 0 => status[m] = "acked"

=============================================================================
