-------------------------- MODULE CallSessionProofs --------------------------
(***************************************************************************)
(* Proofs about CallSession, for any two peers and any number of failures. *)
(***************************************************************************)
EXTENDS CallSession, TLAPS

-----------------------------------------------------------------------------
(* The inductive invariant. *)

Sent(m) == status[m] # "unsent"

\* A message that was sent is on its way or has arrived, even if its request
\* failed; while its sender waits, the request or the answer is on its way.
Carried ==
  /\ \A m \in CallMessage : Sent(m) <=> m \in request \/ m \in received
  /\ \A m \in CallMessage : ~(m \in request /\ m \in received)
  /\ \A m \in CallMessage :
       status[m] = "waiting" => m \in request \/ \E r \in response : r.id = m

\* An event in hand is about a message that arrived at its receiver, or about
\* the caller's request.
EventsOK ==
  \A p \in Peer :
    /\ event[p].kind = "received" => event[p].msg \in received /\ Receiver[event[p].msg] = p
    /\ event[p].kind = "sent" => p = caller /\ Sent("call_request")

\* Consent, acceptance, offer and answer come in this order.
InOrder ==
  /\ Sent("sdp_answer") => Sent("sdp_offer")
  /\ Sent("sdp_offer") => Sent("call_accepted")
  /\ Sent("call_accepted") => consent
  /\ NoMediaWithoutConsent

\* The callee's session is made by the request, once, the caller's after it was
\* sent: the last part of TypeOK.
MadeOnce ==
  /\ session[callee] # "none" <=> Dealt("call_request")
  /\ session[caller] # "none" => Sent("call_request")

\* What each side's session tells of the messages, and they of it, as long as no
\* message came to a session that was over or missing.
CallerOver ==
  /\ session[caller] \in Over => Sent("ended_by_caller") \/ session[callee] \in Over
  /\ \/ Dealt("call_rejected") \/ Dealt("ended_by_callee") \/ Sent("ended_by_caller")
     => session[caller] \in Over

CalleeOver ==
  /\ session[callee] \in Over =>
       Sent("call_rejected") \/ Sent("ended_by_callee") \/ Sent("ended_by_caller")
  /\ \/ Sent("call_rejected") \/ Sent("ended_by_callee") \/ Dealt("ended_by_caller")
     => session[callee] \in Over

Negotiated ==
  /\ session[callee] \in {"Negotiating", "InProgress"} => Sent("call_accepted")
  /\ session[caller] \in {"Negotiating", "InProgress"} => Sent("sdp_offer")
  /\ Dealt("call_accepted") => session[caller] \notin {"none", "Pending"}
  /\ Dealt("sdp_offer") => session[callee] \notin {"none", "Pending"}

\* A caller without a session has sent its request at most, and will be told when
\* that is acknowledged.
Unplaced ==
  session[caller] = "none" =>
    /\ ~Sent("sdp_offer") /\ ~Sent("ended_by_caller")
    /\ status["call_request"] = "waiting" => "call_request" \in call_outbound[caller]
    /\ \/ status["call_request"] \in {"unsent", "waiting", "failed"}
       \/ event[caller] = RequestSent

InStep == CallerOver /\ CalleeOver /\ Negotiated /\ Unplaced

SessionInv ==
  /\ TypeOK /\ Carried /\ EventsOK /\ InOrder /\ MadeOnce
  /\ ~stale => InStep

-----------------------------------------------------------------------------
(* What a step does to the signaling path. *)

\* The routes of the call's messages.
LEMMA Routes ==
  /\ caller # callee /\ caller \in Peer /\ callee \in Peer
  /\ Sender \in [CallMessage -> Peer] /\ Receiver \in [CallMessage -> Peer]
  /\ \A m \in CallMessage : Sender[m] = caller <=> m \in FromCaller
  /\ \A m \in CallMessage : Receiver[m] = callee <=> m \in FromCaller
  /\ \A m \in CallMessage : Sender[m] # Receiver[m]
BY SessionAssumption DEF Peer, Sender, Receiver, CallMessage, FromCaller, FromCallee

DeliveryOK == Delivery!TypeOK /\ Carried

\* send_call_message puts m on its way.
LEMMA Sending ==
  ASSUME DeliveryOK, NEW m \in CallMessage, Send(m)
  PROVE  /\ DeliveryOK'
         /\ status[m] = "unsent"
         /\ status' = [status EXCEPT ![m] = "waiting"]
         /\ received' = received
         /\ call_outbound' = [call_outbound EXCEPT ![Sender[m]] = @ \union {m}]
<1> USE Routes
<1>1. /\ status[m] = "unsent" /\ status' = [status EXCEPT ![m] = "waiting"]
      /\ request' = request \union {m} /\ response' = response
      /\ call_outbound' = [call_outbound EXCEPT ![Sender[m]] = @ \union {m}]
      /\ UNCHANGED <<restarts, received, reported, errors>>
  BY DEF Send, Delivery!SendCall, Delivery!SendRequest
<1>2. Delivery!TypeOK'
  BY <1>1 DEF DeliveryOK, Delivery!TypeOK, Delivery!Status
<1>3. Carried'
  BY <1>1 DEF DeliveryOK, Delivery!TypeOK, Carried, Sent
<1> QED BY <1>1, <1>2, <1>3 DEF DeliveryOK

\* next_event hands m to the application and acknowledges it.
LEMMA Delivering ==
  ASSUME DeliveryOK, NEW m \in CallMessage, Delivery!OnRequest(m)
  PROVE  /\ DeliveryOK'
         /\ Sent(m) /\ m \notin received
         /\ received' = received \union {m}
         /\ UNCHANGED <<status, call_outbound>>
<1> USE Routes
<1>1. /\ m \in request /\ request' = request \ {m}
      /\ response' = response \union {[id |-> m, ack |-> [ok |-> TRUE]]}
      /\ received' = received \union {m}
      /\ UNCHANGED <<status, call_outbound, restarts, reported, errors>>
  BY DEF Delivery!OnRequest, Delivery!TakeRequest
<1>2. [id |-> m, ack |-> [ok |-> TRUE]] \in [id : CallMessage, ack : [ok : BOOLEAN]]
  OBVIOUS
<1>3. response' \subseteq [id : CallMessage, ack : [ok : BOOLEAN]]
  BY <1>1, <1>2 DEF DeliveryOK, Delivery!TypeOK
<1>4. Delivery!TypeOK'
  BY <1>1, <1>3 DEF DeliveryOK, Delivery!TypeOK
<1>5. \A n \in CallMessage :
        status'[n] = "waiting" => n \in request' \/ \E r \in response' : r.id = n
  <2>1. \E r \in response' : r.id = m
    <3>1. [id |-> m, ack |-> [ok |-> TRUE]] \in response'
      BY <1>1
    <3> QED BY <3>1
  <2>2. \A r \in response : r \in response'
    BY <1>1
  <2> QED BY <1>1, <2>1, <2>2 DEF DeliveryOK, Carried
<1>6. Carried'
  BY <1>1, <1>5 DEF DeliveryOK, Carried, Sent
<1> QED BY <1>1, <1>4, <1>6 DEF DeliveryOK, Carried

\* The messages an acknowledgement reports as sent.
Named == {m \in CallMessage : reported'[m] # reported[m]}

\* An acknowledgement settles a request, and takes an entry of its sender's for
\* the other peer, which is the message reported, if there is one.
LEMMA Acknowledging ==
  ASSUME DeliveryOK, NEW r \in response, Delivery!OnAck(r)
  PROVE  /\ DeliveryOK'
         /\ r.id \in CallMessage /\ status[r.id] = "waiting"
         /\ status' = [status EXCEPT ![r.id] = "acked"]
         /\ received' = received
         /\ call_outbound' = [call_outbound EXCEPT ![Sender[r.id]] = @ \ Named]
         /\ Named \subseteq call_outbound[Sender[r.id]]
         /\ r.id \in call_outbound[Sender[r.id]] => Named # {}
<1> USE Routes
<1> DEFINE p == Sender[r.id]
           q == Receiver[r.id]
<1>1. /\ status[r.id] = "waiting" /\ status' = [status EXCEPT ![r.id] = "acked"]
      /\ response' = response \ {r} /\ request' = request
      /\ UNCHANGED <<restarts, received, errors>>
  BY DEF Delivery!OnAck, Delivery!TakeResponse
<1>2. r.id \in CallMessage /\ p \in Peer
  BY DEF DeliveryOK, Delivery!TypeOK
<1>3. PICK taken \in Delivery!Takeable(p, q) :
        /\ call_outbound' = [call_outbound EXCEPT ![p] = @ \ taken]
        /\ reported' = [m \in CallMessage |-> IF m \in taken THEN reported[m] + 1
                                                             ELSE reported[m]]
  BY DEF Delivery!OnAck
<1>4. /\ taken \subseteq call_outbound[p]
      /\ r.id \in call_outbound[p] => taken # {}
  BY <1>2, <1>3 DEF Delivery!Takeable, Delivery!Entries
<1>5. taken \subseteq CallMessage /\ reported \in [CallMessage -> Nat]
  BY <1>2, <1>4 DEF DeliveryOK, Delivery!TypeOK
<1>6. Named = taken
  BY <1>3, <1>5 DEF Named
<1>7. Delivery!TypeOK'
  <2>1. status' \in [CallMessage -> Delivery!Status]
    BY <1>1 DEF DeliveryOK, Delivery!TypeOK, Delivery!Status
  <2>2. reported' \in [CallMessage -> Nat]
    BY <1>3, <1>5
  <2>3. /\ call_outbound' \in [Peer -> SUBSET CallMessage]
        /\ \A d \in Peer : call_outbound'[d] \subseteq call_outbound[d]
    BY <1>2, <1>3 DEF DeliveryOK, Delivery!TypeOK
  <2>4. \A d \in Peer, n \in CallMessage :
          n \in call_outbound'[d] =>
            Sender[n] = d /\ status'[n] \in {"waiting", "acked", "refused"}
    <3>1. \A n \in CallMessage : status'[n] = status[n] \/ status'[n] = "acked"
      BY <1>1, <1>2 DEF DeliveryOK, Delivery!TypeOK
    <3> QED BY <2>3, <3>1 DEF DeliveryOK, Delivery!TypeOK
  <2> QED BY <1>1, <2>1, <2>2, <2>3, <2>4 DEF DeliveryOK, Delivery!TypeOK
<1>8. Carried'
  <2>1. \A m \in CallMessage : m # r.id => status'[m] = status[m]
    BY <1>1, <1>2 DEF DeliveryOK, Delivery!TypeOK
  <2>2. status'[r.id] = "acked"
    BY <1>1, <1>2 DEF DeliveryOK, Delivery!TypeOK
  <2>3. \A m \in CallMessage : Sent(m)' <=> Sent(m)
    BY <1>1, <2>1, <2>2 DEF Sent
  <2>4. ASSUME NEW m \in CallMessage, status'[m] = "waiting"
        PROVE  m \in request' \/ \E s \in response' : s.id = m
    BY <1>1, <2>1, <2>2, <2>4 DEF DeliveryOK, Carried
  <2> QED BY <1>1, <2>3, <2>4 DEF DeliveryOK, Carried
<1> QED BY <1>1, <1>2, <1>3, <1>4, <1>6, <1>7, <1>8 DEF DeliveryOK

\* A failed request loses its own entry; it may still arrive.
LEMMA Failing ==
  ASSUME DeliveryOK, NEW m \in CallMessage, Delivery!OnFailure(m)
  PROVE  /\ DeliveryOK'
         /\ status[m] = "waiting"
         /\ status' = [status EXCEPT ![m] = "failed"]
         /\ received' = received
         /\ call_outbound' = [call_outbound EXCEPT ![Sender[m]] = @ \ {m}]
<1> USE Routes
<1>1. /\ status[m] = "waiting" /\ status' = [status EXCEPT ![m] = "failed"]
      /\ response' = {r \in response : r.id # m} /\ request' = request
      /\ call_outbound' = [call_outbound EXCEPT ![Sender[m]] = @ \ {m}]
      /\ errors' = [errors EXCEPT ![Sender[m]][Receiver[m]] = @ + 1]
      /\ UNCHANGED <<restarts, received, reported>>
  BY DEF Delivery!OnFailure, Delivery!FailRequest
<1>2. Delivery!TypeOK'
  BY <1>1 DEF DeliveryOK, Delivery!TypeOK, Delivery!Status
<1>3. Carried'
  BY <1>1 DEF DeliveryOK, Delivery!TypeOK, Carried, Sent
<1> QED BY <1>1, <1>2, <1>3 DEF DeliveryOK

-----------------------------------------------------------------------------
(* What a step does to the messages sent and dealt with. *)

SentAlso(m) == \A n \in CallMessage : Sent(n)' <=> Sent(n) \/ n = m
SameSent == \A n \in CallMessage : Sent(n)' <=> Sent(n)
SameDealt == \A n \in CallMessage : Dealt(n)' <=> Dealt(n)

\* What was dealt with arrived, what arrived was sent.
LEMMA DealtSent ==
  ASSUME Carried, NEW m \in CallMessage, m \in received
  PROVE  Sent(m)
BY DEF Carried

\* Sending makes a message one that was sent.
LEMMA SendingSent ==
  ASSUME DeliveryOK, NEW m \in CallMessage, Send(m)
  PROVE  SentAlso(m) /\ ~Sent(m)
BY Sending DEF SentAlso, Sent, DeliveryOK, Delivery!TypeOK

\* p's application has dealt with m.
LEMMA Taking ==
  ASSUME TypeOK, Carried, EventsOK, NEW p \in Peer, NEW m \in CallMessage,
         Take(p, m), received' = received,
         Sent("call_request")' <=> Sent("call_request")
  PROVE  /\ m \in received /\ Sent(m) /\ Receiver[m] = p
         /\ ~Dealt(m)
         /\ \A n \in CallMessage : Dealt(n)' <=> Dealt(n) \/ n = m
         /\ event' \in [Peer -> {None, RequestSent} \union [kind : {"received"}, msg : CallMessage]]
         /\ EventsOK'
         /\ event'[p] = None
         /\ \A d \in Peer : d # p => event'[d] = event[d]
<1> USE Routes
<1>1. event[p] = [kind |-> "received", msg |-> m] /\ event' = [event EXCEPT ![p] = None]
  BY DEF Take
<1>2. m \in received /\ Receiver[m] = p
  BY <1>1 DEF EventsOK
<1>3. \A n \in CallMessage : n # m => event[p] # [kind |-> "received", msg |-> n]
  BY <1>1
<1>4. DOMAIN event = Peer
  BY DEF TypeOK
<1>5. \A n \in CallMessage : None # [kind |-> "received", msg |-> n]
  BY DEF None
<1>6. ~Dealt(m)
  BY <1>1, <1>2 DEF Dealt, InHand
<1>7. ASSUME NEW n \in CallMessage
      PROVE  Dealt(n)' <=> Dealt(n) \/ n = m
  <2>1. CASE Receiver[n] = p
    BY <1>1, <1>2, <1>3, <1>4, <1>5, <2>1 DEF Dealt, InHand
  <2>2. CASE Receiver[n] # p
    BY <1>1, <1>2, <1>4, <2>2 DEF Dealt, InHand
  <2> QED BY <2>1, <2>2
<1>8. EventsOK'
  BY <1>1, <1>4 DEF EventsOK, None, RequestSent
<1>9. event' \in [Peer -> {None, RequestSent} \union [kind : {"received"}, msg : CallMessage]]
  BY <1>1 DEF TypeOK
<1> QED BY <1>1, <1>2, <1>4, <1>6, <1>7, <1>8, <1>9, DealtSent

-----------------------------------------------------------------------------
(* The applications keep the invariant. *)

\* The part of TypeOK that is not about the signaling path.
SessionTypeOK ==
  /\ session \in [Peer -> {"none"} \union Active \union Over]
  /\ event \in [Peer -> {None, RequestSent} \union [kind : {"received"}, msg : CallMessage]]
  /\ media \subseteq Peer

\* The type invariant, in its parts: the provers want the flags apart.
LEMMA TypeParts ==
  TypeOK <=> /\ Delivery!TypeOK /\ SessionTypeOK /\ MadeOnce
             /\ consent \in BOOLEAN /\ stale \in BOOLEAN
BY Zenon DEF TypeOK, SessionTypeOK, MadeOnce, Sent

\* One step keeps the flags.
LEMMA Flags ==
  ASSUME TypeOK, Next
  PROVE  consent' \in BOOLEAN /\ stale' \in BOOLEAN
<1>0. consent \in BOOLEAN /\ stale \in BOOLEAN
  BY Zenon DEF TypeOK
<1>1. ASSUME NEW p, NEW m, Take(p, m)
      PROVE  consent' \in BOOLEAN /\ stale' \in BOOLEAN
  BY <1>0, <1>1, Zenon DEF Take
<1>2. ASSUME UNCHANGED stale, consent' = TRUE \/ UNCHANGED consent
      PROVE  consent' \in BOOLEAN /\ stale' \in BOOLEAN
  BY <1>0, <1>2, Zenon
<1>3. CASE User
  BY <1>2, <1>3, Zenon DEF User, PlaceCall, Accept, Reject, HangUp
<1>4. CASE Handle
  BY <1>1, <1>2, <1>4, Zenon
     DEF Handle, OnRequest, OnAccepted, OnRejected, OnOffer, OnAnswer, Requested, OnEnded
<1>5. CASE (\E m \in CallMessage : Deliver(m)) \/ (\E m \in CallMessage : Fail(m))
  BY <1>2, <1>5, Zenon DEF Deliver, Fail
<1>6. CASE \E r \in response : Acknowledge(r)
  BY <1>2, <1>6, Zenon DEF Acknowledge
<1>7. CASE \E p \in Peer : MediaEstablished(p)
  BY <1>0, <1>7, Zenon DEF MediaEstablished
<1> QED BY <1>3, <1>4, <1>5, <1>6, <1>7, Zenon DEF Next, Progress

\* The session-level parts of the invariant.
Order == InOrder /\ MadeOnce /\ (~stale => InStep)

\* What a step must keep.
Kept == DeliveryOK /\ SessionTypeOK /\ EventsOK /\ Order

SessionState == {"none"} \union Active \union Over

\* A step that leaves the signaling path alone.
LEMMA SendingNothing ==
  ASSUME DeliveryOK, SendNothing
  PROVE  DeliveryOK' /\ SameSent /\ UNCHANGED <<status, request, response, received, call_outbound>>
BY DEF SendNothing, deliveryVars, DeliveryOK, Delivery!TypeOK, Carried, SameSent, Sent

\* What all the ways to deal with a message have in common.
LEMMA Handling ==
  ASSUME SessionInv, NEW p \in Peer, NEW m \in CallMessage, NEW s \in SessionState,
         Take(p, m), Set(p, s),
         SendNothing \/ Send("sdp_offer") \/ Send("sdp_answer")
  PROVE  /\ DeliveryOK' /\ SessionTypeOK' /\ EventsOK'
         /\ Sent("call_request")' <=> Sent("call_request")
         /\ Sent(m) /\ m \in received /\ Receiver[m] = p /\ ~Dealt(m)
         /\ \A n \in CallMessage : Dealt(n)' <=> Dealt(n) \/ n = m
         /\ session'[p] = s
         /\ \A d \in Peer : d # p => session'[d] = session[d] /\ event'[d] = event[d]
         /\ status'["call_request"] = status["call_request"]
         /\ call_outbound[caller] \subseteq call_outbound'[caller]
         /\ ~stale' => /\ InStep
                       /\ m = "call_request" \/ session[p] # "none"
                       /\ m = "call_accepted" => session[p] \notin Over
         /\ UNCHANGED consent
<1>0. DeliveryOK /\ SessionTypeOK /\ EventsOK /\ TypeOK /\ Carried
  BY TypeParts DEF SessionInv, DeliveryOK
<1> DEFINE Effect ==
             /\ DeliveryOK' /\ received' = received
             /\ status'["call_request"] = status["call_request"]
             /\ call_outbound[caller] \subseteq call_outbound'[caller]
             /\ Sent("call_request")' <=> Sent("call_request")
<1>1. Effect
  <2>1. CASE SendNothing
    BY <1>0, <2>1, SendingNothing DEF SameSent, CallMessage, FromCaller
  <2>2. ASSUME NEW k \in {"sdp_offer", "sdp_answer"}, Send(k)
        PROVE  Effect
    <3>1. k \in CallMessage /\ k # "call_request"
      BY DEF CallMessage, FromCaller, FromCallee
    <3>2. /\ DeliveryOK' /\ received' = received
          /\ status' = [status EXCEPT ![k] = "waiting"]
          /\ call_outbound' = [call_outbound EXCEPT ![Sender[k]] = @ \union {k}]
      BY <1>0, <2>2, <3>1, Sending
    <3>3. /\ status \in [CallMessage -> Delivery!Status]
          /\ call_outbound \in [Peer -> SUBSET CallMessage]
          /\ Sender[k] \in Peer
      BY <1>0, <3>1, Routes DEF DeliveryOK, Delivery!TypeOK
    <3>4. status'["call_request"] = status["call_request"]
      BY <3>1, <3>2, <3>3 DEF CallMessage, FromCaller
    <3>5. call_outbound[caller] \subseteq call_outbound'[caller]
      BY <3>2, <3>3, Routes
    <3> QED BY <3>2, <3>4, <3>5 DEF Sent
  <2> QED BY <2>1, <2>2
<1>2. /\ Sent(m) /\ m \in received /\ Receiver[m] = p /\ ~Dealt(m)
      /\ \A n \in CallMessage : Dealt(n)' <=> Dealt(n) \/ n = m
      /\ EventsOK'
      /\ event' \in [Peer -> {None, RequestSent} \union [kind : {"received"}, msg : CallMessage]]
      /\ \A d \in Peer : d # p => event'[d] = event[d]
  BY <1>0, <1>1, Taking
<1>3. session \in [Peer -> SessionState]
  BY <1>0 DEF SessionTypeOK, SessionState
<1>4. session' \in [Peer -> SessionState] /\ session' = [session EXCEPT ![p] = s]
  BY <1>3 DEF Set
<1>5. SessionTypeOK'
  BY <1>0, <1>2, <1>4 DEF SessionTypeOK, SessionState, Take
<1>6. ~stale' => /\ ~stale
                 /\ m = "call_request" \/ session[p] # "none"
                 /\ m = "call_accepted" => session[p] \notin Over
  BY Zenon DEF Take
<1> QED BY <1>1, <1>2, <1>3, <1>4, <1>5, <1>6 DEF Take, SessionInv

\* The callee is called.
LEMMA OnRequestKeeps ==
  ASSUME SessionInv, OnRequest
  PROVE  Kept'
<1> USE Routes DEF CallMessage, FromCaller, FromCallee, SessionState, Active, Over
<1>1. Take(callee, "call_request") /\ Set(callee, "Pending") /\ SendNothing
  BY DEF OnRequest, on_call_request
<1>2. SameSent
  BY <1>1, SendingNothing, TypeParts DEF SessionInv, DeliveryOK
<1>3. DeliveryOK' /\ SessionTypeOK' /\ EventsOK'
  BY <1>1, Handling
<1>4. /\ ~Dealt("call_request")
      /\ \A n \in CallMessage : Dealt(n)' <=> Dealt(n) \/ n = "call_request"
      /\ session'[callee] = "Pending"
      /\ session'[caller] = session[caller] /\ event'[caller] = event[caller]
      /\ status'["call_request"] = status["call_request"]
      /\ call_outbound[caller] \subseteq call_outbound'[caller]
      /\ ~stale' => InStep
      /\ UNCHANGED consent
  BY <1>1, Handling
<1>5. session[callee] = "none"
  BY <1>4 DEF SessionInv, MadeOnce
<1>6. InOrder' /\ MadeOnce'
  BY <1>2, <1>4, <1>5 DEF SessionInv, InOrder, MadeOnce, SameSent, NoMediaWithoutConsent, Peer
<1>7. InStep => CallerOver' /\ CalleeOver' /\ Negotiated' /\ Unplaced'
  BY <1>2, <1>4, <1>5 DEF InStep, CallerOver, CalleeOver, Negotiated, Unplaced, SameSent
<1> QED BY <1>3, <1>4, <1>6, <1>7 DEF Kept, Order, InStep

\* The caller hears that its call was accepted, and offers.
LEMMA OnAcceptedKeeps ==
  ASSUME SessionInv, OnAccepted
  PROVE  Kept'
<1> USE Routes DEF CallMessage, FromCaller, FromCallee, SessionState, Active, Over
<1> DEFINE s == IF session[caller] = "none" THEN "none" ELSE "Negotiating"
<1>1. /\ Take(caller, "call_accepted") /\ Set(caller, s) /\ Send("sdp_offer")
      /\ s \in SessionState
  BY DEF OnAccepted, on_call_accepted
<1>2. SentAlso("sdp_offer") /\ ~Sent("sdp_offer")
  BY <1>1, SendingSent, TypeParts DEF SessionInv, DeliveryOK
<1>3. DeliveryOK' /\ SessionTypeOK' /\ EventsOK'
  BY <1>1, Handling
<1>4. /\ Sent("call_accepted") /\ ~Dealt("call_accepted")
      /\ \A n \in CallMessage : Dealt(n)' <=> Dealt(n) \/ n = "call_accepted"
      /\ session'[caller] = s
      /\ session'[callee] = session[callee] /\ event'[callee] = event[callee]
      /\ ~stale' => InStep /\ session[caller] # "none" /\ session[caller] \notin Over
      /\ UNCHANGED consent
  BY <1>1, Handling
<1>5. InOrder' /\ MadeOnce'
  BY <1>2, <1>4 DEF SessionInv, InOrder, MadeOnce, SentAlso, NoMediaWithoutConsent, Peer
<1>6. ~stale' => CallerOver' /\ CalleeOver' /\ Negotiated' /\ Unplaced'
  BY <1>2, <1>4 DEF InStep, CallerOver, CalleeOver, Negotiated, Unplaced, SentAlso
<1> QED BY <1>3, <1>5, <1>6 DEF Kept, Order, InStep

\* The caller hears that its call was rejected.
LEMMA OnRejectedKeeps ==
  ASSUME SessionInv, OnRejected
  PROVE  Kept'
<1> USE Routes DEF CallMessage, FromCaller, FromCallee, SessionState, Active, Over
<1> DEFINE s == IF session[caller] = "none" THEN "none" ELSE "Rejected"
<1>1. /\ Take(caller, "call_rejected") /\ Set(caller, s) /\ SendNothing
      /\ s \in SessionState
  BY DEF OnRejected, on_call_rejected
<1>2. SameSent
  BY <1>1, SendingNothing, TypeParts DEF SessionInv, DeliveryOK
<1>3. DeliveryOK' /\ SessionTypeOK' /\ EventsOK'
  BY <1>1, Handling
<1>4. /\ Sent("call_rejected") /\ ~Dealt("call_rejected")
      /\ \A n \in CallMessage : Dealt(n)' <=> Dealt(n) \/ n = "call_rejected"
      /\ session'[caller] = s
      /\ session'[callee] = session[callee] /\ event'[callee] = event[callee]
      /\ ~stale' => InStep /\ session[caller] # "none"
      /\ UNCHANGED consent
  BY <1>1, Handling
<1>5. InOrder' /\ MadeOnce'
  BY <1>2, <1>4 DEF SessionInv, InOrder, MadeOnce, SameSent, NoMediaWithoutConsent, Peer
<1>6. ~stale' => CallerOver' /\ CalleeOver' /\ Negotiated' /\ Unplaced'
  BY <1>2, <1>4 DEF InStep, CallerOver, CalleeOver, Negotiated, Unplaced, SameSent
<1> QED BY <1>3, <1>5, <1>6 DEF Kept, Order, InStep

\* Either side hears that the other hung up.
LEMMA OnEndedKeeps ==
  ASSUME SessionInv, NEW p \in Peer, OnEnded(p)
  PROVE  Kept'
<1> USE Routes DEF CallMessage, FromCaller, FromCallee, SessionState, Active, Over
<1> DEFINE s == IF session[p] = "none" THEN "none" ELSE "Ended"
<1>1. PICK m \in {"ended_by_caller", "ended_by_callee"} :
        Take(p, m) /\ Set(p, s) /\ SendNothing
  BY DEF OnEnded, on_call_ended, Ended
<1>2. SameSent
  BY <1>1, SendingNothing, TypeParts DEF SessionInv, DeliveryOK
<1>3. s \in SessionState /\ m \in CallMessage /\ m # "call_request" /\ m # "call_accepted"
  OBVIOUS
<1>4. DeliveryOK' /\ SessionTypeOK' /\ EventsOK'
  BY <1>1, <1>3, Handling
<1>5. /\ Sent(m) /\ ~Dealt(m) /\ Receiver[m] = p
      /\ \A n \in CallMessage : Dealt(n)' <=> Dealt(n) \/ n = m
      /\ session'[p] = s
      /\ \A d \in Peer : d # p => session'[d] = session[d] /\ event'[d] = event[d]
      /\ status'["call_request"] = status["call_request"]
      /\ call_outbound[caller] \subseteq call_outbound'[caller]
      /\ ~stale' => InStep /\ session[p] # "none"
      /\ UNCHANGED consent
  BY <1>1, <1>3, Handling
<1>6. \/ p = callee /\ m = "ended_by_caller"
      \/ p = caller /\ m = "ended_by_callee"
  BY <1>5 DEF Peer
<1>7. InOrder' /\ MadeOnce'
  BY <1>2, <1>5, <1>6 DEF SessionInv, InOrder, MadeOnce, SameSent, NoMediaWithoutConsent, Peer
<1>8. ~stale' => CallerOver' /\ CalleeOver' /\ Negotiated' /\ Unplaced'
  <2>1. CASE p = callee /\ m = "ended_by_caller"
    BY <1>2, <1>5, <2>1 DEF InStep, CallerOver, CalleeOver, Negotiated, Unplaced, SameSent
  <2>2. CASE p = caller /\ m = "ended_by_callee"
    BY <1>2, <1>5, <2>2 DEF InStep, CallerOver, CalleeOver, Negotiated, Unplaced, SameSent
  <2> QED BY <1>6, <2>1, <2>2
<1> QED BY <1>4, <1>7, <1>8 DEF Kept, Order, InStep

\* The callee has the offer, and answers.
LEMMA OnOfferKeeps ==
  ASSUME SessionInv, OnOffer
  PROVE  Kept'
<1> USE Routes DEF CallMessage, FromCaller, FromCallee, SessionState, Active, Over
<1> DEFINE s == IF session[callee] = "Pending" THEN "Negotiating" ELSE session[callee]
<1>0. session[callee] \in SessionState
  BY DEF SessionInv, TypeOK
<1>1. /\ Take(callee, "sdp_offer") /\ Set(callee, s) /\ Send("sdp_answer")
      /\ s \in SessionState
  BY <1>0 DEF OnOffer, on_sdp_exchange
<1>2. SentAlso("sdp_answer") /\ ~Sent("sdp_answer")
  BY <1>1, SendingSent, TypeParts DEF SessionInv, DeliveryOK
<1>3. DeliveryOK' /\ SessionTypeOK' /\ EventsOK'
  BY <1>1, Handling
<1>4. /\ Sent("sdp_offer") /\ ~Dealt("sdp_offer")
      /\ \A n \in CallMessage : Dealt(n)' <=> Dealt(n) \/ n = "sdp_offer"
      /\ session'[callee] = s
      /\ session'[caller] = session[caller] /\ event'[caller] = event[caller]
      /\ status'["call_request"] = status["call_request"]
      /\ call_outbound[caller] \subseteq call_outbound'[caller]
      /\ ~stale' => InStep /\ session[callee] # "none"
      /\ UNCHANGED consent
  BY <1>1, Handling
<1>5. InOrder' /\ MadeOnce'
  BY <1>2, <1>4 DEF SessionInv, InOrder, MadeOnce, SentAlso, NoMediaWithoutConsent, Peer
<1>6. ~stale' => CallerOver' /\ CalleeOver' /\ Negotiated' /\ Unplaced'
  BY <1>0, <1>2, <1>4 DEF SessionInv, InOrder, InStep, CallerOver, CalleeOver, Negotiated, Unplaced, SentAlso
<1> QED BY <1>3, <1>5, <1>6 DEF Kept, Order, InStep

\* The caller has the answer.
LEMMA OnAnswerKeeps ==
  ASSUME SessionInv, OnAnswer
  PROVE  Kept'
<1> USE Routes DEF CallMessage, FromCaller, FromCallee, SessionState, Active, Over
<1> DEFINE s == IF session[caller] = "Pending" THEN "Negotiating" ELSE session[caller]
<1>0. session[caller] \in SessionState
  BY DEF SessionInv, TypeOK
<1>1. /\ Take(caller, "sdp_answer") /\ Set(caller, s) /\ SendNothing
      /\ s \in SessionState
  BY <1>0 DEF OnAnswer, on_sdp_exchange
<1>2. SameSent
  BY <1>1, SendingNothing, TypeParts DEF SessionInv, DeliveryOK
<1>3. DeliveryOK' /\ SessionTypeOK' /\ EventsOK'
  BY <1>1, Handling
<1>4. /\ Sent("sdp_answer") /\ ~Dealt("sdp_answer")
      /\ \A n \in CallMessage : Dealt(n)' <=> Dealt(n) \/ n = "sdp_answer"
      /\ session'[caller] = s
      /\ session'[callee] = session[callee] /\ event'[callee] = event[callee]
      /\ ~stale' => InStep /\ session[caller] # "none"
      /\ UNCHANGED consent
  BY <1>1, Handling
<1>5. InOrder' /\ MadeOnce'
  BY <1>2, <1>4 DEF SessionInv, InOrder, MadeOnce, SameSent, NoMediaWithoutConsent, Peer
<1>6. ~stale' => CallerOver' /\ CalleeOver' /\ Negotiated' /\ Unplaced'
  BY <1>0, <1>2, <1>4 DEF SessionInv, InOrder, InStep, CallerOver, CalleeOver, Negotiated, Unplaced, SameSent
<1> QED BY <1>3, <1>5, <1>6 DEF Kept, Order, InStep

\* What all that happens without a message in hand has in common: some message
\* may be sent by p, whose session may change.
LEMMA Acting ==
  ASSUME SessionInv, NEW p \in Peer, NEW m \in CallMessage, NEW s \in SessionState,
         Set(p, s), UNCHANGED event, Sender[m] = p,
         media' \subseteq Peer, SendNothing \/ Send(m)
  PROVE  /\ DeliveryOK' /\ SessionTypeOK' /\ EventsOK' /\ SameDealt
         /\ SendNothing => SameSent /\ UNCHANGED <<status, call_outbound>>
         /\ Send(m) => /\ SentAlso(m) /\ ~Sent(m)
                       /\ m # "call_request" => status'["call_request"] = status["call_request"]
         /\ call_outbound[caller] \subseteq call_outbound'[caller]
         /\ session'[p] = s
         /\ \A d \in Peer : d # p => session'[d] = session[d]
<1> USE Routes
<1>0. DeliveryOK /\ SessionTypeOK /\ EventsOK /\ TypeOK /\ Carried
  BY TypeParts DEF SessionInv, DeliveryOK
<1>1. /\ DeliveryOK' /\ received' = received
      /\ SendNothing => SameSent /\ UNCHANGED <<status, call_outbound>>
  BY <1>0, SendingNothing, Sending
<1>2. Send(m) => /\ SentAlso(m) /\ ~Sent(m)
                 /\ status' = [status EXCEPT ![m] = "waiting"]
                 /\ call_outbound' = [call_outbound EXCEPT ![Sender[m]] = @ \union {m}]
  BY <1>0, SendingSent, Sending
<1>3. /\ status \in [CallMessage -> Delivery!Status]
      /\ call_outbound \in [Peer -> SUBSET CallMessage]
  BY <1>0 DEF DeliveryOK, Delivery!TypeOK
<1>4. call_outbound[caller] \subseteq call_outbound'[caller]
  <2>1. CASE SendNothing
    BY <1>1, <2>1
  <2>2. CASE Send(m)
    BY <1>2, <1>3, <2>2
  <2> QED BY <2>1, <2>2
<1>5. Send(m) /\ m # "call_request" => status'["call_request"] = status["call_request"]
  BY <1>2, <1>3 DEF CallMessage, FromCaller
<1>6. SameDealt
  BY <1>1 DEF SameDealt, Dealt, InHand
<1>7. EventsOK'
  BY <1>0, <1>1, <1>2 DEF EventsOK, SameSent, SentAlso, CallMessage, FromCaller
<1>8. session \in [Peer -> SessionState] /\ session' = [session EXCEPT ![p] = s]
  BY <1>0 DEF SessionTypeOK, SessionState, Set
<1>9. session' \in [Peer -> SessionState]
  BY <1>8
<1>10. SessionTypeOK'
  BY <1>0, <1>9 DEF SessionTypeOK, SessionState
<1> QED BY <1>1, <1>2, <1>4, <1>5, <1>6, <1>7, <1>8, <1>10

\* A call is placed.
LEMMA PlaceCallKeeps ==
  ASSUME SessionInv, PlaceCall
  PROVE  Kept'
<1> USE Routes DEF CallMessage, FromCaller, FromCallee, SessionState, Active, Over
<1>0. session \in [Peer -> SessionState] /\ media \subseteq Peer /\ DeliveryOK
  BY TypeParts DEF SessionInv, SessionTypeOK, DeliveryOK
<1>1. /\ Send("call_request") /\ UNCHANGED <<event, consent, stale, media>>
      /\ ~Sent("call_request") /\ SentAlso("call_request")
  BY <1>0, SendingSent DEF PlaceCall
<1>2. PICK s \in SessionState :
        /\ Set(caller, s)
        /\ s = session[caller] \/ (session[caller] = "none" /\ s = "Pending")
  BY <1>0 DEF PlaceCall, on_call_requested, Set
<1>3. /\ DeliveryOK' /\ SessionTypeOK' /\ EventsOK' /\ SameDealt
      /\ session'[caller] = s
      /\ session'[callee] = session[callee]
  BY <1>0, <1>1, <1>2, Acting
<1>4. /\ status'["call_request"] = "waiting"
      /\ "call_request" \in call_outbound'[caller]
  BY <1>0, <1>1, Sending DEF DeliveryOK, Delivery!TypeOK
<1>5. InOrder' /\ MadeOnce'
  BY <1>1, <1>2, <1>3 DEF SessionInv, InOrder, MadeOnce, SentAlso, SameDealt, NoMediaWithoutConsent, Peer
<1>6. InStep => CallerOver' /\ CalleeOver' /\ Negotiated' /\ Unplaced'
  BY <1>1, <1>2, <1>3, <1>4 DEF InStep, CallerOver, CalleeOver, Negotiated, Unplaced, SentAlso, SameDealt
<1> QED BY <1>1, <1>3, <1>5, <1>6 DEF SessionInv, Kept, Order, InStep

\* The callee's user accepts.
LEMMA AcceptKeeps ==
  ASSUME SessionInv, Accept
  PROVE  Kept'
<1> USE Routes DEF CallMessage, FromCaller, FromCallee, SessionState, Active, Over
<1>0. session \in [Peer -> SessionState] /\ media \subseteq Peer /\ DeliveryOK
  BY TypeParts DEF SessionInv, SessionTypeOK, DeliveryOK
<1>1. /\ Send("call_accepted") /\ UNCHANGED <<event, stale, media>>
      /\ ~Sent("call_accepted") /\ SentAlso("call_accepted")
      /\ session[callee] = "Pending"
  BY <1>0, SendingSent DEF Accept
<1>2. consent'
  BY Zenon DEF Accept
<1>3. PICK s \in {"Pending", "Negotiating"} : Set(callee, s)
  BY <1>0, <1>1 DEF Accept, on_call_accepted, Set
<1>4. s \in SessionState /\ Sender["call_accepted"] = callee
  BY DEF Peer
<1>5. /\ DeliveryOK' /\ SessionTypeOK' /\ EventsOK' /\ SameDealt
      /\ session'[callee] = s
      /\ session'[caller] = session[caller]
      /\ status'["call_request"] = status["call_request"]
      /\ call_outbound[caller] \subseteq call_outbound'[caller]
  BY <1>0, <1>1, <1>3, <1>4, Acting
<1>6. InOrder' /\ MadeOnce'
  BY <1>1, <1>2, <1>3, <1>5 DEF SessionInv, InOrder, MadeOnce, SentAlso, SameDealt, NoMediaWithoutConsent, Peer
<1>7. InStep => CallerOver' /\ CalleeOver' /\ Negotiated' /\ Unplaced'
  BY <1>1, <1>3, <1>5 DEF InStep, CallerOver, CalleeOver, Negotiated, Unplaced, SentAlso, SameDealt
<1> QED BY <1>1, <1>5, <1>6, <1>7 DEF SessionInv, Kept, Order, InStep

\* The callee's user rejects.
LEMMA RejectKeeps ==
  ASSUME SessionInv, Reject
  PROVE  Kept'
<1> USE Routes DEF CallMessage, FromCaller, FromCallee, SessionState, Active, Over
<1>0. session \in [Peer -> SessionState] /\ media \subseteq Peer /\ DeliveryOK
  BY TypeParts DEF SessionInv, SessionTypeOK, DeliveryOK
<1>1. /\ Send("call_rejected") /\ UNCHANGED <<event, stale, consent, media>>
      /\ ~Sent("call_rejected") /\ SentAlso("call_rejected")
      /\ session[callee] = "Pending" /\ Set(callee, "Rejected")
  BY <1>0, SendingSent DEF Reject, on_call_rejected
<1>2. Sender["call_rejected"] = callee
  BY DEF Peer
<1>3. /\ DeliveryOK' /\ SessionTypeOK' /\ EventsOK' /\ SameDealt
      /\ session'[callee] = "Rejected"
      /\ session'[caller] = session[caller]
      /\ status'["call_request"] = status["call_request"]
      /\ call_outbound[caller] \subseteq call_outbound'[caller]
  BY <1>0, <1>1, <1>2, Acting
<1>4. InOrder' /\ MadeOnce'
  BY <1>1, <1>3 DEF SessionInv, InOrder, MadeOnce, SentAlso, SameDealt, NoMediaWithoutConsent, Peer
<1>5. InStep => CallerOver' /\ CalleeOver' /\ Negotiated' /\ Unplaced'
  BY <1>1, <1>3 DEF InStep, CallerOver, CalleeOver, Negotiated, Unplaced, SentAlso, SameDealt
<1> QED BY <1>1, <1>3, <1>4, <1>5 DEF SessionInv, Kept, Order, InStep

\* Either user hangs up.
LEMMA HangUpKeeps ==
  ASSUME SessionInv, NEW p \in Peer, HangUp(p)
  PROVE  Kept'
<1> USE Routes DEF CallMessage, FromCaller, FromCallee, SessionState, Active, Over
<1> DEFINE m == Ended(p)
<1>0. session \in [Peer -> SessionState] /\ media \subseteq Peer /\ DeliveryOK
  BY TypeParts DEF SessionInv, SessionTypeOK, DeliveryOK
<1>1. \/ p = caller /\ m = "ended_by_caller"
      \/ p = callee /\ m = "ended_by_callee"
  BY DEF Ended, Peer
<1>2. m \in CallMessage /\ Sender[m] = p /\ m # "call_request"
  BY <1>1 DEF Peer
<1>3. /\ Send(m) /\ UNCHANGED <<event, stale, consent, media>>
      /\ ~Sent(m) /\ SentAlso(m)
      /\ session[p] \in Active /\ Set(p, "Ended")
  BY <1>0, <1>2, SendingSent DEF HangUp, on_call_ended
<1> HIDE DEF m
<1>4. /\ DeliveryOK' /\ SessionTypeOK' /\ EventsOK' /\ SameDealt
      /\ session'[p] = "Ended"
      /\ \A d \in Peer : d # p => session'[d] = session[d]
      /\ status'["call_request"] = status["call_request"]
      /\ call_outbound[caller] \subseteq call_outbound'[caller]
  BY <1>0, <1>2, <1>3, Acting
<1>5. InOrder' /\ MadeOnce'
  BY <1>1, <1>3, <1>4 DEF SessionInv, InOrder, MadeOnce, SentAlso, SameDealt, NoMediaWithoutConsent, Peer
<1>6. InStep => CallerOver' /\ CalleeOver' /\ Negotiated' /\ Unplaced'
  <2>1. CASE p = caller /\ m = "ended_by_caller"
    BY <1>3, <1>4, <2>1 DEF InStep, CallerOver, CalleeOver, Negotiated, Unplaced, SentAlso, SameDealt
  <2>2. CASE p = callee /\ m = "ended_by_callee"
    BY <1>3, <1>4, <2>2 DEF InStep, CallerOver, CalleeOver, Negotiated, Unplaced, SentAlso, SameDealt
  <2> QED BY <1>1, <2>1, <2>2
<1> QED BY <1>3, <1>4, <1>5, <1>6 DEF SessionInv, Kept, Order, InStep

\* The media connection comes up on one side.
LEMMA MediaKeeps ==
  ASSUME SessionInv, NEW p \in Peer, MediaEstablished(p)
  PROVE  Kept'
<1> USE Routes DEF CallMessage, FromCaller, FromCallee, SessionState, Active, Over
<1> DEFINE s == IF session[p] = "none" THEN "none" ELSE "InProgress"
<1>0. session \in [Peer -> SessionState] /\ media \subseteq Peer /\ DeliveryOK
  BY TypeParts DEF SessionInv, SessionTypeOK, DeliveryOK
<1>1. /\ SendNothing /\ UNCHANGED <<event, consent>>
      /\ Set(p, s) /\ media' = media \union {p}
      /\ "sdp_answer" \in received
  BY DEF MediaEstablished, on_media_established, Answered
<1>2. ~stale' => ~stale /\ session[p] \notin Over
  BY Zenon DEF MediaEstablished
<1>3. Sent("sdp_answer") /\ Sent("sdp_offer") /\ Sent("call_accepted") /\ consent
  BY <1>1, DealtSent DEF SessionInv, InOrder
<1>4. PICK m \in {"sdp_offer", "sdp_answer"} : Sender[m] = p
  BY DEF Peer
<1>5. m \in CallMessage /\ s \in SessionState /\ media' \subseteq Peer
  BY <1>0, <1>1
<1>6. /\ DeliveryOK' /\ SessionTypeOK' /\ EventsOK' /\ SameDealt /\ SameSent
      /\ UNCHANGED <<status, call_outbound>>
      /\ session'[p] = s
      /\ \A d \in Peer : d # p => session'[d] = session[d]
  BY <1>1, <1>4, <1>5, Acting
<1>7. InOrder' /\ MadeOnce'
  BY <1>1, <1>3, <1>6 DEF SessionInv, InOrder, MadeOnce, SameSent, SameDealt, NoMediaWithoutConsent, Peer
<1>8. InStep /\ session[p] \notin Over => CallerOver' /\ CalleeOver' /\ Negotiated' /\ Unplaced'
  <2>1. CASE p = caller
    BY <1>0, <1>1, <1>3, <1>6, <2>1 DEF InStep, CallerOver, CalleeOver, Negotiated, Unplaced, SameSent, SameDealt
  <2>2. CASE p = callee
    BY <1>0, <1>1, <1>3, <1>6, <2>2 DEF InStep, CallerOver, CalleeOver, Negotiated, Unplaced, SameSent, SameDealt
  <2> QED BY <2>1, <2>2 DEF Peer
<1> QED BY <1>2, <1>6, <1>7, <1>8 DEF SessionInv, Kept, Order, InStep

\* The caller's application hears that its request was acknowledged.
LEMMA RequestedKeeps ==
  ASSUME SessionInv, Requested
  PROVE  Kept'
<1> USE Routes DEF CallMessage, FromCaller, FromCallee, SessionState, Active, Over
<1>0. /\ session \in [Peer -> SessionState] /\ DeliveryOK /\ SessionTypeOK /\ EventsOK
      /\ event \in [Peer -> {None, RequestSent} \union [kind : {"received"}, msg : CallMessage]]
  BY TypeParts DEF SessionInv, SessionTypeOK, DeliveryOK
<1>1. /\ SendNothing /\ UNCHANGED <<stale, consent, media>>
      /\ event[caller] = RequestSent /\ event' = [event EXCEPT ![caller] = None]
  BY DEF Requested
<1>2. /\ DeliveryOK' /\ SameSent
      /\ UNCHANGED <<status, request, response, received, call_outbound>>
  BY <1>0, <1>1, SendingNothing
<1>3. \A m \in CallMessage : RequestSent # [kind |-> "received", msg |-> m]
                             /\ None # [kind |-> "received", msg |-> m]
  BY DEF None, RequestSent
<1>4. SameDealt
  BY <1>0, <1>1, <1>2, <1>3 DEF SameDealt, Dealt, InHand
<1>5. Sent("call_request")
  BY <1>0, <1>1 DEF EventsOK, RequestSent
<1>6. EventsOK'
  BY <1>0, <1>1, <1>2 DEF EventsOK, None, RequestSent, SameSent
<1>7. PICK s \in SessionState :
        /\ session' = [session EXCEPT ![caller] = s]
        /\ \/ s = session[caller] /\ session[caller] # "none"
           \/ session[caller] = "none" /\ s = "Pending"
  BY <1>0 DEF Requested, on_call_requested, Set
<1>8. event' \in [Peer -> {None, RequestSent} \union [kind : {"received"}, msg : CallMessage]]
  BY <1>0, <1>1
<1>9. SessionTypeOK'
  BY <1>0, <1>1, <1>7, <1>8 DEF SessionTypeOK
<1>10. session'[caller] = s /\ session'[callee] = session[callee]
  BY <1>0, <1>7
<1>11. InOrder' /\ MadeOnce'
  BY <1>1, <1>2, <1>4, <1>5, <1>7, <1>10
     DEF SessionInv, InOrder, MadeOnce, SameSent, SameDealt, NoMediaWithoutConsent, Peer
<1>12. InStep => CallerOver' /\ CalleeOver' /\ Negotiated' /\ Unplaced'
  BY <1>2, <1>4, <1>7, <1>10
     DEF InStep, CallerOver, CalleeOver, Negotiated, Unplaced, SameSent, SameDealt
<1> QED BY <1>1, <1>2, <1>6, <1>9, <1>11, <1>12 DEF SessionInv, Kept, Order, InStep

\* A message is handed to an application.
LEMMA DeliverKeeps ==
  ASSUME SessionInv, NEW m \in CallMessage, Deliver(m)
  PROVE  Kept'
<1> USE Routes DEF CallMessage, FromCaller, FromCallee
<1> DEFINE p == Receiver[m]
<1>0. /\ DeliveryOK /\ SessionTypeOK /\ EventsOK
      /\ event \in [Peer -> {None, RequestSent} \union [kind : {"received"}, msg : CallMessage]]
  BY TypeParts DEF SessionInv, SessionTypeOK, DeliveryOK
<1>1. /\ UNCHANGED <<session, stale, consent, media>> /\ event[p] = None
      /\ event' = [event EXCEPT ![p] = [kind |-> "received", msg |-> m]]
      /\ Delivery!OnRequest(m)
  BY DEF Deliver
<1>2. /\ DeliveryOK' /\ m \notin received
      /\ received' = received \union {m}
      /\ UNCHANGED <<status, call_outbound>>
  BY <1>0, <1>1, Delivering
<1>3. SameSent
  BY <1>2 DEF SameSent, Sent
<1>4. [kind |-> "received", msg |-> m] \in [kind : {"received"}, msg : CallMessage]
  OBVIOUS
<1>5. event' \in [Peer -> {None, RequestSent} \union [kind : {"received"}, msg : CallMessage]]
  BY <1>0, <1>1, <1>4
<1>6. \A n \in CallMessage : None # [kind |-> "received", msg |-> n]
  BY DEF None
<1>7. SameDealt
  <2> SUFFICES ASSUME NEW n \in CallMessage
               PROVE  Dealt(n)' <=> Dealt(n)
    BY DEF SameDealt
  <2>1. CASE n = m
    BY <1>0, <1>1, <1>2, <2>1 DEF Dealt, InHand
  <2>2. CASE n # m
    <3>1. [kind |-> "received", msg |-> n] # [kind |-> "received", msg |-> m]
      BY <2>2
    <3>2. Receiver[n] \in Peer
      OBVIOUS
    <3>3. event'[Receiver[n]] = [kind |-> "received", msg |-> n]
            <=> event[Receiver[n]] = [kind |-> "received", msg |-> n]
      BY <1>0, <1>1, <1>6, <3>1, <3>2
    <3> QED BY <1>2, <2>2, <3>3 DEF Dealt, InHand
  <2> QED BY <2>1, <2>2
<1>8. EventsOK'
  BY <1>0, <1>1, <1>2, <1>3 DEF EventsOK, SameSent
<1>9. SessionTypeOK'
  BY <1>0, <1>1, <1>5 DEF SessionTypeOK
<1>10. InOrder' /\ MadeOnce'
  BY <1>1, <1>3, <1>7 DEF SessionInv, InOrder, MadeOnce, SameSent, SameDealt, NoMediaWithoutConsent
<1>11. event[caller] = RequestSent => event'[caller] = event[caller]
  BY <1>0, <1>1 DEF None, RequestSent
<1>12. InStep => CallerOver' /\ CalleeOver' /\ Negotiated' /\ Unplaced'
  BY <1>1, <1>2, <1>3, <1>7, <1>11 DEF InStep, CallerOver, CalleeOver, Negotiated, Unplaced, SameSent, SameDealt
<1> QED BY <1>1, <1>2, <1>8, <1>9, <1>10, <1>12 DEF SessionInv, Kept, Order, InStep

\* A message is acknowledged.
LEMMA AcknowledgeKeeps ==
  ASSUME SessionInv, NEW r \in response, Acknowledge(r)
  PROVE  Kept'
<1> USE Routes DEF CallMessage, FromCaller, FromCallee
<1> DEFINE p == Sender[r.id]
<1>0. /\ DeliveryOK /\ SessionTypeOK /\ EventsOK
      /\ event \in [Peer -> {None, RequestSent} \union [kind : {"received"}, msg : CallMessage]]
      /\ status \in [CallMessage -> Delivery!Status]
      /\ call_outbound \in [Peer -> SUBSET CallMessage]
  BY TypeParts DEF SessionInv, SessionTypeOK, DeliveryOK, Delivery!TypeOK
<1>1. /\ UNCHANGED <<session, stale, consent, media>> /\ event[p] = None
      /\ Delivery!OnAck(r)
  BY DEF Acknowledge
<1>2. /\ DeliveryOK' /\ r.id \in CallMessage
      /\ status[r.id] = "waiting" /\ status' = [status EXCEPT ![r.id] = "acked"]
      /\ received' = received
      /\ call_outbound' = [call_outbound EXCEPT ![p] = @ \ Named]
      /\ Named \subseteq call_outbound[p]
      /\ r.id \in call_outbound[p] => Named # {}
  BY <1>0, <1>1, Acknowledging
<1>3. p \in Peer /\ Named \subseteq CallMessage
  BY <1>0, <1>2
<1>4. \A n \in Named : Sender[n] = p /\ Sent(n)
  <2>1. \A d \in Peer, n \in CallMessage :
          n \in call_outbound[d] => Sender[n] = d /\ status[n] \in {"waiting", "acked", "refused"}
    BY <1>0 DEF DeliveryOK, Delivery!TypeOK
  <2> HIDE DEF p
  <2> QED BY <1>2, <1>3, <2>1 DEF Sent
<1>5. PICK e \in {None, RequestSent} :
        /\ event' = [event EXCEPT ![p] = e]
        /\ e = RequestSent <=> "call_request" \in Named
  <2>1. event' = IF "call_request" \in Named THEN [event EXCEPT ![p] = RequestSent]
                                             ELSE event
    BY DEF Acknowledge, Named
  <2>2. event = [event EXCEPT ![p] = None]
    BY <1>0, <1>1, <1>3
  <2> HIDE DEF p
  <2>3. None # RequestSent
    BY DEF None, RequestSent
  <2> QED BY <2>1, <2>2, <2>3
<1>6. e = RequestSent => p = caller /\ Sent("call_request")
  BY <1>4, <1>5
<1>8. event' \in [Peer -> {None, RequestSent} \union [kind : {"received"}, msg : CallMessage]]
  BY <1>0, <1>5
<1>9. SameSent
  BY <1>0, <1>2 DEF SameSent, Sent
<1>10. \A n \in CallMessage : e # [kind |-> "received", msg |-> n]
                              /\ None # [kind |-> "received", msg |-> n]
  BY DEF None, RequestSent
<1>11. SameDealt
  BY <1>0, <1>1, <1>2, <1>5, <1>10 DEF SameDealt, Dealt, InHand
<1>12. EventsOK'
  <2>1. e.kind # "received" /\ (e.kind = "sent" => p = caller /\ Sent("call_request"))
    BY <1>6 DEF None, RequestSent
  <2>2. event'[p] = e /\ \A d \in Peer : d # p => event'[d] = event[d]
    BY <1>0, <1>3, <1>5
  <2> HIDE DEF p
  <2> QED BY <1>0, <1>2, <1>9, <2>1, <2>2 DEF EventsOK, SameSent
<1>13. SessionTypeOK'
  BY <1>0, <1>1, <1>8 DEF SessionTypeOK
<1>14. InOrder' /\ MadeOnce'
  BY <1>1, <1>9, <1>11 DEF SessionInv, InOrder, MadeOnce, SameSent, SameDealt, NoMediaWithoutConsent
<1>15. InStep => CallerOver' /\ CalleeOver' /\ Negotiated'
  BY <1>1, <1>9, <1>11 DEF InStep, CallerOver, CalleeOver, Negotiated, SameSent, SameDealt
<1>16. InStep => Unplaced'
  <2> SUFFICES ASSUME Unplaced, session[caller] = "none"
               PROVE  Unplaced'
    BY <1>1 DEF InStep, Unplaced
  <2>1. ~Sent("sdp_offer") /\ ~Sent("ended_by_caller")
    BY DEF Unplaced
  <2>2. CASE p # caller
    <3>1. r.id # "call_request"
      BY <2>2
    <3> QED BY <1>0, <1>1, <1>2, <1>3, <1>5, <1>9, <2>2, <3>1 DEF Unplaced, SameSent
  <2>3. CASE p = caller
    <3>1. r.id = "call_request"
      BY <1>2, <2>1, <2>3 DEF Sent
    <3>2. Named # {} /\ \A n \in Named : n = "call_request"
      BY <1>2, <1>3, <1>4, <2>1, <2>3, <3>1 DEF Unplaced
    <3>3. event'[caller] = RequestSent
      BY <1>0, <1>5, <2>3, <3>2
    <3>4. status'["call_request"] = "acked"
      BY <1>0, <1>2, <3>1
    <3> QED BY <1>1, <1>9, <2>1, <3>3, <3>4 DEF Unplaced, SameSent
  <2> QED BY <2>2, <2>3
<1> QED BY <1>1, <1>2, <1>12, <1>13, <1>14, <1>15, <1>16 DEF SessionInv, Kept, Order, InStep

\* A message fails.
LEMMA FailKeeps ==
  ASSUME SessionInv, NEW m \in CallMessage, Fail(m)
  PROVE  Kept'
<1> USE Routes DEF CallMessage, FromCaller, FromCallee
<1>0. /\ DeliveryOK /\ SessionTypeOK /\ EventsOK
      /\ status \in [CallMessage -> Delivery!Status]
      /\ call_outbound \in [Peer -> SUBSET CallMessage]
  BY TypeParts DEF SessionInv, TypeOK, DeliveryOK, Delivery!TypeOK
<1>1. UNCHANGED <<event, session, stale, consent, media>> /\ Delivery!OnFailure(m)
  BY DEF Fail
<1>2. /\ DeliveryOK'
      /\ status[m] = "waiting" /\ status' = [status EXCEPT ![m] = "failed"]
      /\ received' = received
      /\ call_outbound' = [call_outbound EXCEPT ![Sender[m]] = @ \ {m}]
  BY <1>0, <1>1, Failing
<1>3. SameSent /\ SameDealt
  BY <1>0, <1>1, <1>2 DEF SameSent, SameDealt, Sent, Dealt, InHand
<1>4. EventsOK' /\ SessionTypeOK'
  BY <1>0, <1>1, <1>2, <1>3 DEF EventsOK, SessionTypeOK, SameSent
<1>5. InOrder' /\ MadeOnce'
  BY <1>1, <1>3 DEF SessionInv, InOrder, MadeOnce, SameSent, SameDealt, NoMediaWithoutConsent
<1>6. InStep => CallerOver' /\ CalleeOver' /\ Negotiated'
  BY <1>1, <1>3 DEF InStep, CallerOver, CalleeOver, Negotiated, SameSent, SameDealt
<1>7. InStep => Unplaced'
  <2>1. CASE m = "call_request"
    BY <1>0, <1>1, <1>2, <1>3, <2>1 DEF InStep, Unplaced, SameSent
  <2>2. CASE m # "call_request"
    BY <1>0, <1>1, <1>2, <1>3, <2>2 DEF InStep, Unplaced, SameSent
  <2> QED BY <2>1, <2>2
<1> QED BY <1>1, <1>2, <1>4, <1>5, <1>6, <1>7 DEF SessionInv, Kept, Order, InStep

-----------------------------------------------------------------------------
(* The theorems. *)

\* At first nothing was sent and nobody has a session.
LEMMA SessionInitial ==
  ASSUME Init
  PROVE  SessionInv
<1> USE Routes DEF CallMessage, FromCaller, FromCallee
<1>1. /\ status = [m \in CallMessage |-> "unsent"] /\ request = {} /\ response = {}
      /\ call_outbound = [p \in Peer |-> {}] /\ restarts = 0 /\ received = {}
      /\ reported = [m \in CallMessage |-> 0]
      /\ errors = [p \in Peer |-> [q \in Peer |-> 0]]
      /\ event = [p \in Peer |-> None] /\ session = [p \in Peer |-> "none"]
      /\ media = {}
  BY DEF Init, Delivery!Init, Delivery!RRInit
<1>2. Delivery!TypeOK
  BY <1>1 DEF Delivery!TypeOK, Delivery!Status
<1>3. SessionTypeOK /\ (\A m \in CallMessage : ~Sent(m))
  BY <1>1 DEF SessionTypeOK, Sent
<1>4. consent \in BOOLEAN /\ stale \in BOOLEAN
  BY Zenon DEF Init
<1>5. Carried /\ EventsOK
  BY <1>1 DEF Carried, EventsOK, Sent, None
<1>6. InOrder /\ MadeOnce
  BY <1>1, <1>3 DEF InOrder, MadeOnce, NoMediaWithoutConsent, Dealt, InHand
<1>7. InStep
  BY <1>1, <1>3 DEF InStep, CallerOver, CalleeOver, Negotiated, Unplaced, Dealt, InHand, Over, Sent
<1> QED BY <1>2, <1>3, <1>4, <1>5, <1>6, <1>7, TypeParts DEF SessionInv

\* Every step keeps the invariant.
LEMMA SessionInductive ==
  ASSUME SessionInv, [Next]_vars
  PROVE  SessionInv'
<1>1. CASE Next
  <2>1. consent' \in BOOLEAN /\ stale' \in BOOLEAN
    BY <1>1, Flags DEF SessionInv
  <2>2. Kept'
    <3>1. CASE User
      BY <3>1, PlaceCallKeeps, AcceptKeeps, RejectKeeps, HangUpKeeps DEF User
    <3>2. CASE Handle
      BY <3>2, OnRequestKeeps, OnAcceptedKeeps, OnRejectedKeeps, OnOfferKeeps,
         OnAnswerKeeps, RequestedKeeps, OnEndedKeeps DEF Handle
    <3>3. ASSUME NEW m \in CallMessage, Deliver(m) \/ Fail(m)
          PROVE  Kept'
      BY <3>3, DeliverKeeps, FailKeeps
    <3>4. ASSUME NEW r \in response, Acknowledge(r)
          PROVE  Kept'
      BY <3>4, AcknowledgeKeeps
    <3>5. ASSUME NEW p \in Peer, MediaEstablished(p)
          PROVE  Kept'
      BY <3>5, MediaKeeps
    <3> QED BY <1>1, <3>1, <3>2, <3>3, <3>4, <3>5 DEF Next, Progress
  <2>3. Delivery!TypeOK' /\ SessionTypeOK' /\ MadeOnce' /\ Carried' /\ EventsOK'
    BY <2>2 DEF Kept, DeliveryOK, Order
  <2>4. TypeOK'
    BY <2>1, <2>3, Zenon DEF TypeOK, SessionTypeOK, MadeOnce, Sent
  <2> QED BY <2>2, <2>3, <2>4 DEF SessionInv, Kept, Order
<1>2. CASE UNCHANGED vars
  <2>1. UNCHANGED <<event, session, consent, stale, media, status, request, response,
                    call_outbound, restarts, received, reported, errors>>
    BY <1>2 DEF vars, deliveryVars
  <2>2. TypeOK' /\ Carried' /\ EventsOK'
    BY <2>1 DEF SessionInv, TypeOK, Delivery!TypeOK, Carried, EventsOK, Sent, Dealt, InHand
  <2>3. InOrder' /\ MadeOnce'
    BY <2>1 DEF SessionInv, InOrder, MadeOnce, NoMediaWithoutConsent, Sent, Dealt, InHand
  <2>4. ~stale' => InStep'
    BY <2>1 DEF SessionInv, InStep, CallerOver, CalleeOver, Negotiated, Unplaced, Sent, Dealt, InHand
  <2> QED BY <2>2, <2>3, <2>4 DEF SessionInv
<1> QED BY <1>1, <1>2

\* The inductive invariant holds in every reachable state.
THEOREM SessionInvariant == Spec => []SessionInv
BY SessionInitial, SessionInductive, PTL DEF Spec

\* The variables of a call always hold values of the expected kinds, and a manager
\* has a session only for a call it was told of, whatever overtakes the request.
THEOREM TypeCorrect == Spec => []TypeOK
<1>1. SessionInv => TypeOK
  BY DEF SessionInv
<1> QED BY <1>1, SessionInvariant, PTL

\* No call is negotiated or in progress, on either side, without the consent of
\* the callee's user, whatever overtakes or fails.
THEOREM ConsentFirst == Spec => []NoMediaWithoutConsent
<1>1. SessionInv => NoMediaWithoutConsent
  BY DEF SessionInv, InOrder
<1> QED BY <1>1, SessionInvariant, PTL

\* When everything has arrived, the two sides of a call agree.
THEOREM SidesAgree == Spec => []AgreeWhenQuiet
<1>1. SessionInv => AgreeWhenQuiet
  <2> SUFFICES ASSUME SessionInv, Quiet, ~stale
               PROVE  /\ session[caller] \in Over <=> session[callee] \in Over
                      /\ session[caller] = "Pending" /\ session[callee] = "Negotiating" => FALSE
                      /\ session[callee] = "Pending" => session[caller] = "Pending"
    BY DEF AgreeWhenQuiet
  <2> USE Routes DEF CallMessage, FromCaller, FromCallee
  <2>1. InStep /\ Carried /\ TypeOK
    BY DEF SessionInv
  <2>2. /\ request = {} /\ response = {}
        /\ event[caller] = None /\ event[callee] = None
        /\ status["call_request"] # "failed"
    BY DEF Quiet
  <2>3. \A n \in CallMessage : Receiver[n] \in {caller, callee}
    BY DEF Peer
  <2>4. \A n \in CallMessage : Sent(n) => Dealt(n)
    BY <2>1, <2>2, <2>3 DEF Carried, Dealt, InHand, None
  <2>5. status["call_request"] # "waiting"
    BY <2>1, <2>2 DEF Carried
  <2>6. session[callee] # "none" => Sent("call_request")
    BY DealtSent DEF SessionInv, MadeOnce, Dealt, InHand
  <2>7. session[callee] # "none" => session[caller] # "none"
    BY <2>1, <2>2, <2>5, <2>6 DEF InStep, Unplaced, Sent, None, RequestSent
  <2>8. session[caller] \in {"none"} \union Active \union Over
    BY <2>1 DEF TypeOK
  <2>9. session[caller] \in Over <=> session[callee] \in Over
    BY <2>1, <2>4 DEF InStep, CallerOver, CalleeOver
  <2> QED BY <2>1, <2>4, <2>7, <2>8, <2>9 DEF InStep, Negotiated, Active, Over
<1> QED BY <1>1, SessionInvariant, PTL

\* A session that is over is brought back by a late acceptance or by WebRTC's late
\* report and by nothing else: the request that makes the callee's session comes
\* once, the caller's is there already when its request is acknowledged, and no
\* offer, answer, rejection or hang-up that is still on its way revives either.
THEOREM RevivedByLateNews == Spec => RevivedByLateNewsOnly
<1> DEFINE Late(p) == p \in media' \ media \/ (p = caller /\ InHand(p, "call_accepted"))
<1>1. ASSUME SessionInv, Next, NEW p \in Peer, session[p] \in Over, ~Late(p)
      PROVE  session'[p] \in Over
  <2> USE Routes
  <2>1. session \in [Peer -> SessionState] /\ EventsOK
    BY <1>1 DEF SessionInv, TypeOK, SessionState
  <2>2. ASSUME NEW q \in Peer, NEW s, Set(q, s), s \in Over \/ s = session[q] \/ q # p
        PROVE  session'[p] \in Over
    BY <1>1, <2>1, <2>2 DEF Set
  <2>3. ASSUME UNCHANGED session
        PROVE  session'[p] \in Over
    BY <1>1, <2>3
  <2>4. CASE OnRequest
    <3>1. event[callee] = [kind |-> "received", msg |-> "call_request"]
      BY <2>4 DEF OnRequest, Take
    <3>2. session[callee] = "none"
      BY <1>1, <3>1 DEF SessionInv, MadeOnce, Dealt, InHand, CallMessage, FromCaller
    <3> QED BY <1>1, <2>2, <2>4, <3>2 DEF OnRequest, Over
  <2>5. CASE OnAccepted
    BY <1>1, <2>2, <2>5 DEF OnAccepted, Take, InHand
  <2>6. CASE OnRejected
    BY <2>1, <2>2, <2>6 DEF OnRejected, on_call_rejected, Over
  <2>7. ASSUME NEW q \in Peer, OnEnded(q)
        PROVE  session'[p] \in Over
    BY <2>2, <2>7 DEF OnEnded, on_call_ended, Over
  <2>8. CASE OnOffer \/ OnAnswer
    BY <1>1, <2>2, <2>8 DEF OnOffer, OnAnswer, on_sdp_exchange, Over
  <2>9. CASE Requested
    BY <1>1, <2>2, <2>9 DEF Requested, on_call_requested, Over
  <2>10. ASSUME NEW q \in Peer, MediaEstablished(q)
         PROVE  session'[p] \in Over
    BY <1>1, <2>2, <2>10 DEF MediaEstablished
  <2>11. CASE PlaceCall
    BY <1>1, <2>2, <2>3, <2>11 DEF PlaceCall, on_call_requested, Over
  <2>12. CASE Accept \/ Reject
    BY <1>1, <2>2, <2>3, <2>12 DEF Accept, Reject, Over
  <2>13. ASSUME NEW q \in Peer, HangUp(q)
         PROVE  session'[p] \in Over
    BY <2>2, <2>13 DEF HangUp, on_call_ended, Over
  <2>14. CASE \/ \E m \in CallMessage : Deliver(m) \/ Fail(m)
              \/ \E r \in response : Acknowledge(r)
    BY <2>3, <2>14 DEF Deliver, Fail, Acknowledge
  <2> QED BY <1>1, <2>4, <2>5, <2>6, <2>7, <2>8, <2>9, <2>10, <2>11, <2>12, <2>13, <2>14
          DEF Next, User, Progress, Handle
<1>2. SessionInv /\ [Next]_vars
        => [\A p \in Peer : session[p] \in Over /\ session'[p] \notin Over
              => p \in media' \ media \/ (p = caller /\ InHand(p, "call_accepted"))]_session
  BY <1>1 DEF vars
<1> QED BY <1>2, SessionInvariant, PTL DEF Spec, RevivedByLateNewsOnly

=============================================================================
