---------------------------- MODULE CallSession ----------------------------
(***************************************************************************)
(* One call between two applications of rust-core, each with a CallManager *)
(* (signaling.rs) and the signaling path of CallDelivery.  The             *)
(* applications are those of examples/signaling_demo.rs and                *)
(* tests/signaling_test.rs, with users who may also reject and hang up.    *)
(*                                                                         *)
(* An application takes one event at a time from next_event, tells its     *)
(* manager, and answers if there is something to answer; then it takes the *)
(* next.  Messages travel on substreams of their own and overtake one      *)
(* another.  The manager sets a session's state with hardly a look at the  *)
(* state it is in.                                                         *)
(***************************************************************************)
EXTENDS Naturals, FiniteSets

CONSTANTS
  caller, callee,
  MaxFailures   \* bound on the number of requests that fail

ASSUME SessionAssumption == caller # callee /\ MaxFailures \in Nat

Peer == {caller, callee}

\* The messages of the call, each sent at most once: so a peer hangs up once.
\* Candidates are left out: they follow the answer, and change no session.
FromCaller == {"call_request", "sdp_offer", "ended_by_caller"}
FromCallee == {"call_accepted", "call_rejected", "sdp_answer", "ended_by_callee"}
CallMessage == FromCaller \union FromCallee
Sender == [m \in CallMessage |-> IF m \in FromCaller THEN caller ELSE callee]
Receiver == [m \in CallMessage |-> IF m \in FromCaller THEN callee ELSE caller]
Ended(p) == IF p = caller THEN "ended_by_caller" ELSE "ended_by_callee"

VARIABLES
  status, request, response,                          \* of RequestResponse
  call_outbound, restarts, received, reported, errors,  \* of CallDelivery
  event,     \* event[p]: the event p's application has in hand, or none
  session,   \* session[p]: the state of p's session, "none" without a session
  \* Never read by an action.
  consent,   \* the callee's user accepted
  stale,     \* an acceptance or WebRTC's report came to a session that was over, or
             \* a message to a peer that had no session for it
  media      \* the peers at which WebRTC has reported the connection

\* Every message of CallSignaler passes is_valid; no process restarts.
Delivery == INSTANCE CallDelivery WITH
  Msg <- CallMessage, From <- Sender, To <- Receiver,
  Accepts <- [p \in Peer |-> CallMessage], OneAtATime <- {}, MaxRestarts <- 0

deliveryVars == <<status, request, response, call_outbound, restarts, received,
                  reported, errors>>
vars == <<deliveryVars, event, session, consent, stale, media>>

Active == {"Pending", "Negotiating", "InProgress"}
Over == {"Ended", "Rejected"}
None == [kind |-> "none"]
RequestSent == [kind |-> "sent", msg |-> "call_request"]

Init ==
  /\ Delivery!Init
  /\ event = [p \in Peer |-> None]
  /\ session = [p \in Peer |-> "none"]
  /\ consent = FALSE
  /\ stale = FALSE
  /\ media = {}

-----------------------------------------------------------------------------
(* CallManager: the state of a session after each of its methods. *)

on_call_request(s) == "Pending"
on_call_requested(s) == IF s = "none" THEN "Pending" ELSE s

\* All others do nothing without a session.
on_call_accepted(s) == IF s = "none" THEN s ELSE "Negotiating"
on_call_rejected(s) == IF s = "none" THEN s ELSE "Rejected"

\* Mutant: only a session under way is ended.
on_call_ended_NotPending(s) == IF s \in {"none", "Pending"} THEN s ELSE "Ended"

\* Mutant: an unknown call is entered as ended.
on_call_ended_Enters(s) == "Ended"

on_call_ended(s) == IF s = "none" THEN s ELSE "Ended"

\* Mutant: the present state is not looked at.
on_sdp_exchange_Unguarded(s) == IF s = "none" THEN s ELSE "Negotiating"

on_sdp_exchange(s) == IF s = "Pending" THEN "Negotiating" ELSE s
on_media_established(s) == IF s = "none" THEN s ELSE "InProgress"

-----------------------------------------------------------------------------
(* next_event: possible when the application has dealt with the last event. *)

\* CallMessageReceived
Deliver(m) ==
  /\ event[Receiver[m]] = None
  /\ Delivery!OnRequest(m)
  /\ event' = [event EXCEPT ![Receiver[m]] = [kind |-> "received", msg |-> m]]
  /\ UNCHANGED <<session, consent, stale, media>>

\* CallMessageSent, with the message whose entry was taken; without one, no event.
\* Of any message but the request the application takes no further notice.
Acknowledge(r) ==
  LET p == Sender[r.id]
  IN /\ event[p] = None
     /\ Delivery!OnAck(r)
     /\ event' = IF reported'["call_request"] = reported["call_request"] THEN event
                 ELSE [event EXCEPT ![p] = RequestSent]
     /\ UNCHANGED <<session, consent, stale, media>>

\* CallError: an application learns that something failed, not what.
Fail(m) ==
  /\ event[Sender[m]] = None
  /\ Cardinality({n \in CallMessage : status[n] = "failed"}) < MaxFailures
  /\ Delivery!OnFailure(m)
  /\ UNCHANGED <<event, session, consent, stale, media>>

-----------------------------------------------------------------------------
(* The applications *)

\* p's manager sets the state of its session.
Set(p, s) == session' = [session EXCEPT ![p] = s]

\* p's application has dealt with m.
Take(p, m) ==
  /\ event[p] = [kind |-> "received", msg |-> m]
  /\ event' = [event EXCEPT ![p] = None]
  /\ stale' = (stale \/ (m # "call_request" /\ session[p] = "none")
                     \/ (m = "call_accepted" /\ session[p] \in Over))
  /\ UNCHANGED <<consent, media>>

Send(m) == Delivery!SendCall(m)
SendNothing == UNCHANGED deliveryVars

\* A call is placed.  The demo tells its manager at once; the manager's comment
\* has it told when the request is acknowledged (Requested).
PlaceCall ==
  /\ Send("call_request")
  /\ \/ Set(caller, on_call_requested(session[caller]))
     \/ UNCHANGED session
  /\ UNCHANGED <<event, consent, stale, media>>

Requested ==
  /\ event[caller] = RequestSent
  /\ event' = [event EXCEPT ![caller] = None]
  /\ Set(caller, on_call_requested(session[caller]))
  /\ SendNothing
  /\ UNCHANGED <<consent, stale, media>>

\* Mutant: the callee's application takes every call.
OnRequest_AutoNegotiate ==
  /\ Take(callee, "call_request")
  /\ Set(callee, "Negotiating")
  /\ SendNothing

OnRequest ==
  /\ Take(callee, "call_request")
  /\ Set(callee, on_call_request(session[callee]))
  /\ SendNothing

\* The callee's user answers a call that its manager has as pending.  The demo does
\* not tell its manager of an acceptance, the manager's unit test does; when it was
\* not told, nothing keeps the user from rejecting the call after all.
Accept ==
  /\ event[callee] = None /\ session[callee] = "Pending"
  /\ Send("call_accepted")
  /\ \/ Set(callee, on_call_accepted(session[callee]))
     \/ UNCHANGED session
  /\ consent' = TRUE
  /\ UNCHANGED <<event, stale, media>>

Reject ==
  /\ event[callee] = None /\ session[callee] = "Pending"
  /\ Send("call_rejected")
  /\ Set(callee, on_call_rejected(session[callee]))
  /\ UNCHANGED <<event, consent, stale, media>>

HangUp(p) ==
  /\ event[p] = None /\ session[p] \in Active
  /\ Send(Ended(p))
  /\ Set(p, on_call_ended(session[p]))
  /\ UNCHANGED <<event, consent, stale, media>>

\* Mutant: the offer waits for the answer.
OnAccepted_NoOffer ==
  /\ Take(caller, "call_accepted")
  /\ Set(caller, on_call_accepted(session[caller]))
  /\ SendNothing

OnAccepted ==
  /\ Take(caller, "call_accepted")
  /\ Set(caller, on_call_accepted(session[caller]))
  /\ Send("sdp_offer")

OnRejected ==
  /\ Take(caller, "call_rejected")
  /\ Set(caller, on_call_rejected(session[caller]))
  /\ SendNothing

OnEnded(p) ==
  /\ \E q \in Peer : Take(p, Ended(q))
  /\ Set(p, on_call_ended(session[p]))
  /\ SendNothing

OnOffer ==
  /\ Take(callee, "sdp_offer")
  /\ Set(callee, on_sdp_exchange(session[callee]))
  /\ Send("sdp_answer")

OnAnswer ==
  /\ Take(caller, "sdp_answer")
  /\ Set(caller, on_sdp_exchange(session[caller]))
  /\ SendNothing

\* The caller's application has dealt with the answer.
Answered ==
  /\ "sdp_answer" \in received
  /\ event[caller] # [kind |-> "received", msg |-> "sdp_answer"]

\* External: WebRTC connects, and tells each application once, which tells its
\* manager.  The report may come late, when the call is over.
MediaEstablished(p) ==
  /\ Answered
  /\ event[p] = None /\ p \notin media
  /\ media' = media \union {p}
  /\ Set(p, on_media_established(session[p]))
  /\ stale' = (stale \/ session[p] \in Over)
  /\ SendNothing
  /\ UNCHANGED <<event, consent>>

-----------------------------------------------------------------------------
\* An application deals with the event in hand.
Handle ==
  \/ Requested \/ OnRequest \/ OnAccepted \/ OnRejected \/ OnOffer \/ OnAnswer
  \/ \E p \in Peer : OnEnded(p)

User == PlaceCall \/ Accept \/ Reject \/ \E p \in Peer : HangUp(p)

\* What goes on without a user, or the failure of a request.  All of it happens
\* a bounded number of times, so fairness to the whole is fairness to each.
Progress ==
  \/ Handle
  \/ \E m \in CallMessage : Deliver(m)
  \/ \E r \in response : Acknowledge(r)
  \/ \E p \in Peer : MediaEstablished(p)

Next ==
  \/ User \/ Progress
  \/ \E m \in CallMessage : Fail(m)

Spec == Init /\ [][Next]_vars

\* next_event is called again and again and the network delivers; whether a user
\* does anything is open.
Fairness == WF_vars(Progress)
FairSpec == Spec /\ Fairness

-----------------------------------------------------------------------------
\* The application of p has m in hand, or has dealt with it.
InHand(p, m) == event[p] = [kind |-> "received", msg |-> m]
Dealt(m) == m \in received /\ ~InHand(Receiver[m], m)

\* The variables hold values of the expected kinds.  A manager has a session only
\* for a call that it was told of: the callee's has one exactly when its
\* application has dealt with the request, whatever other message of the call has
\* overtaken it, and the caller's only after the call was placed.
TypeOK ==
  /\ Delivery!TypeOK
  /\ session \in [Peer -> {"none"} \union Active \union Over]
  /\ event \in [Peer -> {None, RequestSent} \union [kind : {"received"}, msg : CallMessage]]
  /\ consent \in BOOLEAN /\ stale \in BOOLEAN
  /\ media \subseteq Peer
  /\ session[callee] # "none" <=> Dealt("call_request")
  /\ session[caller] # "none" => status["call_request"] # "unsent"

\* signaling.rs: a call is negotiated or in progress, on either side, only if the
\* callee's user accepted it, in whatever order messages arrive.
NoMediaWithoutConsent ==
  \A p \in Peer : session[p] \in {"Negotiating", "InProgress"} => consent

\* signaling.rs: of all that may still arrive when a call is over for one side,
\* offers, answers and the other's hang-up included, only two things bring its
\* session back: WebRTC's report, and at the caller the acceptance
\* (on_media_established and on_call_accepted, which look at no state).
RevivedByLateNewsOnly ==
  [][\A p \in Peer :
       session[p] \in Over /\ session'[p] \notin Over
         => p \in media' \ media \/ (p = caller /\ InHand(p, "call_accepted"))]_session

\* Nothing is under way, and nothing failed.
Quiet ==
  /\ request = {} /\ response = {}
  /\ \A p \in Peer : event[p] = None
  /\ \A m \in CallMessage : status[m] # "failed"

\* When all messages have arrived both sides agree whether the call waits for an
\* answer, is on or is over, unless an acceptance or WebRTC's report has brought back
\* a session that was over, or a message came to a peer that had no session yet.
AgreeWhenQuiet ==
  Quiet /\ ~stale =>
    /\ session[caller] \in Over <=> session[callee] \in Over
    /\ session[caller] = "Pending" /\ session[callee] = "Negotiating" => FALSE
    /\ session[callee] = "Pending" => session[caller] = "Pending"

\* An accepted call comes up on both sides unless somebody hangs up, the callee's
\* user rejects it after all, a message fails, or a message or WebRTC's report came
\* to a session that was over or not there yet.
AcceptedCallConnects ==
  consent ~> \/ \A p \in Peer : session[p] = "InProgress"
             \/ \E p \in Peer : status[Ended(p)] # "unsent"
             \/ status["call_rejected"] # "unsent"
             \/ \E m \in CallMessage : status[m] = "failed"
             \/ stale

=============================================================================
