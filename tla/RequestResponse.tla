--------------------------- MODULE RequestResponse ---------------------------
(***************************************************************************)
(* External: libp2p's request-response behaviour, as rust-core's           *)
(* network.rs uses it twice (Behaviour.chat and Behaviour.call).  Only     *)
(* what that code relies on is stated here:                                *)
(*                                                                         *)
(*   - send_request numbers requests (OutboundRequestId) and never fails;  *)
(*   - every request travels on a substream of its own, so requests, and   *)
(*     the responses to them, overtake one another freely;                 *)
(*   - a request reaches its destination at most once;                     *)
(*   - its sender is given exactly one outcome: the response, or an        *)
(*     OutboundFailure (dial failure, closed connection, timeout), which   *)
(*     may come while the request or its response is still on the way.     *)
(*                                                                         *)
(* A request is identified with the message it carries: message ids are    *)
(* fresh UUIDs, so no message is sent twice.                               *)
(***************************************************************************)
EXTENDS Naturals, FiniteSets

CONSTANTS
  Peer,     \* the peers, by PeerId
  Msg,      \* the messages that may be sent
  From,     \* From[m]: the peer that sends m
  To        \* To[m]: the peer m is for

\* Sending to oneself is left out: libp2p refuses to dial the local peer.
ASSUME RouteAssumption ==
  /\ From \in [Msg -> Peer]
  /\ To \in [Msg -> Peer]
  /\ \A m \in Msg : From[m] # To[m]

ASSUME MsgFinite == IsFiniteSet(Msg)

VARIABLES
  status,    \* status[m]: what m's sender has been told of m's request
  request,   \* the requests on their way to their destination
  response   \* the responses on their way back: [id, ack]

rrVars == <<status, request, response>>

Status == {"unsent", "waiting", "acked", "refused", "failed", "abandoned"}

\* The requests from p to q whose outcome p has not been given.
Waiting(p, q) == {m \in Msg : status[m] = "waiting" /\ From[m] = p /\ To[m] = q}

RRInit ==
  /\ status = [m \in Msg |-> "unsent"]
  /\ request = {}
  /\ response = {}

\* send_request: put the request on the wire.
SendRequest(m) ==
  /\ status[m] = "unsent"
  /\ status' = [status EXCEPT ![m] = "waiting"]
  /\ request' = request \union {m}
  /\ UNCHANGED response

\* Event::Message(Request) at the destination, which answers with ack.
TakeRequest(m, ack) ==
  /\ m \in request
  /\ request' = request \ {m}
  /\ response' = response \union {[id |-> m, ack |-> ack]}
  /\ UNCHANGED status

\* Event::Message(Response) at the sender; s is how it reads the answer.
TakeResponse(r, s) ==
  /\ r \in response
  /\ status[r.id] = "waiting"
  /\ status' = [status EXCEPT ![r.id] = s]
  /\ response' = response \ {r}
  /\ UNCHANGED request

\* Event::OutboundFailure at the sender, whatever became of the request: the
\* request may still arrive, the response will not be looked at any more.
FailRequest(m) ==
  /\ status[m] = "waiting"
  /\ status' = [status EXCEPT ![m] = "failed"]
  /\ response' = {r \in response : r.id # m}
  /\ UNCHANGED request

\* The process of p ends: its connections and their substreams go with it.
DropPeer(p) ==
  /\ status' = [m \in Msg |-> IF status[m] = "waiting" /\ From[m] = p
                              THEN "abandoned" ELSE status[m]]
  /\ request' = {m \in request : p \notin {From[m], To[m]}}
  /\ response' = {r \in response : p \notin {From[r.id], To[r.id]}}

=============================================================================
