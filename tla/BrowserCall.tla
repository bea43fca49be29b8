----------------------------- MODULE BrowserCall -----------------------------
(***************************************************************************)
(* The browser client's calls: one Controller per browser (controller.ts), *)
(* the WebRtcManager it creates for each call it places or accepts         *)
(* (webrtc-manager.ts), and the signaling messages between browsers.       *)
(*                                                                         *)
(* JavaScript runs one event handler at a time, up to its next real wait.  *)
(* An action is such a stretch: a user's click, a signaling message, the   *)
(* end of a getUserMedia prompt, the end of createOffer/createAnswer, a    *)
(* change of a connection's state, or a timer.  What a handler does after  *)
(* a wait is an action of its own, and acts on the controller's state as   *)
(* it finds it then.                                                       *)
(*                                                                         *)
(* Signaling keeps the order of messages from one browser to another (one  *)
(* WebSocket from each browser to the hub); a message may be refused or    *)
(* lost.  Mute buttons, statistics and the texts of errors are left out.   *)
(***************************************************************************)
EXTENDS Naturals, SequencesExt, FiniteSetsExt

CONSTANTS
  Browser,     \* the browsers
  CallId,      \* the call ids that newCallId may return
  None,        \* the null of the code
  MaxAccepts,  \* bound on how often a user presses accept for one call
  Trickle,     \* FALSE: candidates are left out, a connection needs none.  TRUE: each
               \* manager sends one, and a connection needs one to reach its other end
  Faults       \* TRUE: there are also behaviours with faults: sends fail, the hub
               \* loses messages, prompts are denied, WebRTC fails

ASSUME BrowserCallAssumption ==
  /\ None \notin CallId /\ None \notin Nat
  /\ MaxAccepts \in Nat
  /\ Trickle \in BOOLEAN /\ Faults \in BOOLEAN

VARIABLES
  \* Controller
  activeCall,    \* activeCall[b]: the call shown, [call_id, remote, status, outgoing]
  webrtc,        \* webrtc[b]: the current manager, an index of managers[b], or None
  endedCallIds,  \* endedCallIds[b]: the ids whose messages are ignored
  pendingOffer,  \* pendingOffer[b]: the call whose offer is buffered
  timers,        \* timers[b]: how many 2.5 s timers of endCall are running
  \* WebRtcManager
  managers,      \* managers[b]: all managers ever created, oldest first
  \* signaling
  wire,          \* wire[a][b]: the messages on their way from a to b
  used,          \* the call ids newCallId has returned
  faulty         \* whether there are faults in this behaviour; it never changes

ctrlVars == <<activeCall, webrtc, endedCallIds, pendingOffer, timers>>
netVars == <<wire, used, faulty>>
vars == <<ctrlVars, managers, netVars>>

CallStatus == {"outgoing", "incoming", "connecting", "active", "ended", "error"}

ActiveCall == [call_id : CallId, remote : Browser, status : CallStatus,
               outgoing : BOOLEAN]

\* media: the local capture, "asking" while the prompt is open.
\* sdp: how far the negotiation is; "offering", "answering" and "early", which is
\* answering an offer that came before the user accepted, are waits.
\* conn: the last connection state the manager was told of.
\* gathered: its own candidate was sent.  candidate: the one of the other end,
\* "pending" in pendingCandidates or added to the connection.
Manager == [call_id : CallId, remote : Browser, caller : BOOLEAN,
            media : {"asking", "live", "off"},
            pc : {"none", "open", "closed"},
            sdp : {"none", "offering", "offered", "answering", "early", "stable",
                   "failed"},
            conn : {"new", "connected", "failed"},
            gathered : BOOLEAN, candidate : {"none", "pending", "added"}]

Msg == [type : {"call_request", "call_accepted", "call_rejected", "call_ended",
                "sdp_offer", "sdp_answer", "ice_candidate"},
        call_id : CallId]

Init ==
  /\ activeCall = [b \in Browser |-> None]
  /\ webrtc = [b \in Browser |-> None]
  /\ endedCallIds = [b \in Browser |-> {}]
  /\ pendingOffer = [b \in Browser |-> None]
  /\ timers = [b \in Browser |-> 0]
  /\ managers = [b \in Browser |-> <<>>]
  /\ wire = [a \in Browser |-> [b \in Browser |-> <<>>]]
  /\ used = {}
  /\ faulty \in {FALSE, Faults}

-----------------------------------------------------------------------------
(* Helpers the handlers share. *)

\* Whether b's current call is c.
InCall(b, c) == activeCall[b] # None /\ activeCall[b].call_id = c

\* b's managers, one for each time the user accepted the call c.
Accepted(b, c) ==
  {i \in DOMAIN managers[b] : managers[b][i].call_id = c /\ ~managers[b][i].caller}

\* updateCall with a status: it changes whatever call is current, if any.
UpdateCall(b, status) ==
  activeCall' = IF activeCall[b] = None THEN activeCall
                ELSE [activeCall EXCEPT ![b].status = status]

\* The user can accept or decline.
Ringing(b) == activeCall[b] # None /\ activeCall[b].status = "incoming"

NewManager(c, remote, caller) ==
  [call_id |-> c, remote |-> remote, caller |-> caller, media |-> "asking", pc |-> "none",
   sdp |-> "none", conn |-> "new", gathered |-> FALSE, candidate |-> "none"]

\* Mutant: the new manager is not created.
CreateManager_Missing(b, c, remote, caller) ==
  /\ UNCHANGED managers
  /\ webrtc' = [webrtc EXCEPT ![b] = Len(managers[b]) + 1]

\* A new manager becomes the current one, whatever the old one is doing.
CreateManager(b, c, remote, caller) ==
  /\ managers' = [managers EXCEPT ![b] = Append(@, NewManager(c, remote, caller))]
  /\ webrtc' = [webrtc EXCEPT ![b] = Len(managers[b]) + 1]

\* Mutant: no timer is started.
StartTimer_Forgotten(b) == UNCHANGED timers

StartTimer(b) == timers' = [timers EXCEPT ![b] = @ + 1]

\* send throws ("refused") while the hub's socket is closed; the hub forgets
\* ("lost") what is for a browser that is offline.
SendOutcome == IF faulty THEN {"sent", "refused", "lost"} ELSE {"sent"}

\* Send messages of these types, in this order, for the call r, to its remote.
Send(b, r, types, outcome) ==
  wire' = IF outcome = "sent"
            THEN [wire EXCEPT ![b][r.remote] =
                    @ \o [k \in DOMAIN types |-> [type |-> types[k], call_id |-> r.call_id]]]
            ELSE wire

\* Mutant: hangUp forgets to close the connection.
HungUp_StaysOpen(m) == [m EXCEPT !.media = IF @ = "live" THEN "off" ELSE @]

\* WebRtcManager.hangUp: close the connection and stop the capture if there is
\* one; a prompt still open is not withdrawn.
HungUp(m) == [m EXCEPT !.pc = IF @ = "open" THEN "closed" ELSE @,
                       !.media = IF @ = "live" THEN "off" ELSE @]

\* endCall: hang up the current manager, whichever call it is for, and show the
\* current call as ended; a timer will clear it.  mgrs is what the handler has
\* made of the managers so far.
EndCall(b, mgrs) ==
  /\ managers' = IF webrtc[b] = None THEN mgrs
                 ELSE [mgrs EXCEPT ![b][webrtc[b]] = HungUp(@)]
  /\ webrtc' = [webrtc EXCEPT ![b] = None]
  /\ IF activeCall[b] = None
       THEN UNCHANGED <<activeCall, endedCallIds, timers>>
       ELSE /\ activeCall' = [activeCall EXCEPT ![b].status = "ended"]
            /\ endedCallIds' = [endedCallIds EXCEPT ![b] = @ \union {activeCall[b].call_id}]
            /\ StartTimer(b)

-----------------------------------------------------------------------------
(* The user. *)

\* callPeer, up to the getUserMedia prompt.
CallPeer(b, peer) ==
  /\ activeCall[b] = None
  /\ peer # b
  /\ \E c \in CallId \ used :
       /\ used' = used \union {c}
       /\ activeCall' = [activeCall EXCEPT ![b] =
            [call_id |-> c, remote |-> peer, status |-> "outgoing", outgoing |-> TRUE]]
       /\ CreateManager(b, c, peer, TRUE)
  /\ UNCHANGED <<endedCallIds, pendingOffer, timers, wire, faulty>>

\* acceptCall, up to the prompt.  The status stays 'incoming' until the prompt
\* is answered, so the button can be pressed again.
AcceptCall(b) ==
  /\ Ringing(b)
  /\ Cardinality(Accepted(b, activeCall[b].call_id)) < MaxAccepts
  /\ CreateManager(b, activeCall[b].call_id, activeCall[b].remote, FALSE)
  /\ UNCHANGED <<activeCall, endedCallIds, pendingOffer, timers, netVars>>

\* rejectCall: the decline button of an incoming call.
RejectCall(b) ==
  /\ Ringing(b)
  /\ \E outcome \in SendOutcome : Send(b, activeCall[b], <<"call_rejected">>, outcome)
  /\ EndCall(b, managers)
  /\ UNCHANGED <<pendingOffer, used, faulty>>

\* hangUp: its button is shown for a call that is neither incoming nor ended.
\* After an error the other side is not told.
HangUp(b) ==
  /\ activeCall[b] # None
  /\ activeCall[b].status \notin {"incoming", "ended"}
  /\ \E outcome \in SendOutcome :
       Send(b, activeCall[b], IF activeCall[b].status = "error" THEN <<>>
                                                        ELSE <<"call_ended">>, outcome)
  /\ EndCall(b, managers)
  /\ UNCHANGED <<pendingOffer, used, faulty>>

-----------------------------------------------------------------------------
(* Continuations after a wait. *)

\* The prompt of manager i is granted, whatever became of its call: the capture
\* is live, and the current call, whichever it is, is 'connecting'.  The caller
\* now sends its request, the callee its acceptance, unless an offer is buffered:
\* that is answered first.  A send that throws is shown as an error.
MediaGranted(b, i) ==
  LET m == managers[b][i]
      early == ~m.caller /\ pendingOffer[b] # None
      types == IF early THEN <<>>
               ELSE IF m.caller THEN <<"call_request">> ELSE <<"call_accepted">>
  IN /\ m.media = "asking"
     /\ managers' = [managers EXCEPT ![b][i] =
          [m EXCEPT !.media = "live",
                    !.pc = IF early THEN "open" ELSE m.pc,
                    !.sdp = IF early THEN "early" ELSE m.sdp]]
     /\ pendingOffer' = IF early THEN [pendingOffer EXCEPT ![b] = None] ELSE pendingOffer
     /\ \E outcome \in SendOutcome :
          /\ Send(b, m, types, outcome)
          /\ UpdateCall(b, IF outcome = "refused" /\ ~early THEN "error" ELSE "connecting")
     /\ UNCHANGED <<webrtc, endedCallIds, timers, used, faulty>>

\* The prompt is denied: the current call, whichever it is, is an error.
MediaDenied(b, i) ==
  /\ faulty
  /\ managers[b][i].media = "asking"
  /\ managers' = [managers EXCEPT ![b][i].media = "off"]
  /\ UpdateCall(b, "error")
  /\ UNCHANGED <<webrtc, endedCallIds, pendingOffer, timers, netVars>>

Describing == {"offering", "answering", "early"}

\* Mutant: the offer is sent, but not set as the local description.
Described_NotSet(sdp) == IF sdp = "offering" THEN "none" ELSE "stable"

\* What is sent when the local description is set, and where that leaves the
\* negotiation.
Description(sdp) ==
  CASE sdp = "offering"  -> <<"sdp_offer">>
    [] sdp = "answering" -> <<"sdp_answer">>
    [] sdp = "early"     -> <<"sdp_answer", "call_accepted">>
Described(sdp) == IF sdp = "offering" THEN "offered" ELSE "stable"

\* Mutant: what is pending is thrown away.
Flushed_Dropped(m) == [m EXCEPT !.candidate = IF @ = "pending" THEN "none" ELSE @]

\* flushPendingCandidates
Flushed(m) == [m EXCEPT !.candidate = IF @ = "pending" THEN "added" ELSE @]

\* createOffer and createAnswer are done: set the local description and send
\* it; before an answer is sent, the candidates that wait for the offer to be set
\* are added.  Nothing comes of them once the connection is closed.
DescriptionReady(b, i) ==
  LET m == managers[b][i]
  IN /\ m.pc = "open"
     /\ m.sdp \in Describing
     /\ managers' = [managers EXCEPT ![b][i] =
          [(IF m.sdp = "offering" THEN m ELSE Flushed(m)) EXCEPT !.sdp = Described(m.sdp)]]
     /\ \E outcome \in SendOutcome :
          /\ Send(b, m, Description(m.sdp), outcome)
          /\ IF outcome = "refused" THEN UpdateCall(b, "error") ELSE UNCHANGED activeCall
     /\ UNCHANGED <<webrtc, endedCallIds, pendingOffer, timers, used, faulty>>

\* One of the steps towards a description fails: onError.  The acceptance that
\* follows an early answer is sent all the same.
DescriptionFails(b, i) ==
  LET m == managers[b][i]
  IN /\ faulty
     /\ m.pc = "open"
     /\ m.sdp \in Describing
     /\ managers' = [managers EXCEPT ![b][i].sdp = "failed"]
     /\ UpdateCall(b, "error")
     /\ \E outcome \in SendOutcome :
          Send(b, m, IF m.sdp = "early" THEN <<"call_accepted">> ELSE <<>>, outcome)
     /\ UNCHANGED <<webrtc, endedCallIds, pendingOffer, timers, used, faulty>>

\* onicecandidate, once there is a local description.  Nobody looks at whether it
\* could be sent.
CandidateGathered(b, i) ==
  LET m == managers[b][i]
  IN /\ Trickle
     /\ m.pc = "open" /\ m.sdp \in {"offered", "stable"} /\ ~m.gathered
     /\ managers' = [managers EXCEPT ![b][i].gathered = TRUE]
     /\ \E outcome \in SendOutcome : Send(b, m, <<"ice_candidate">>, outcome)
     /\ UNCHANGED <<ctrlVars, used, faulty>>

\* endCall's timer clears the call that is current by then.
ClearCall(b) ==
  /\ timers[b] > 0
  /\ timers' = [timers EXCEPT ![b] = @ - 1]
  /\ activeCall' = [activeCall EXCEPT ![b] = None]
  /\ UNCHANGED <<webrtc, endedCallIds, pendingOffer, managers, netVars>>

-----------------------------------------------------------------------------
(* WebRTC: external, but for the handler of connection states. *)

\* The open ends, at the other browser, of the connection manager i makes.
OtherEnd(b, i) ==
  LET m == managers[b][i]
  IN {j \in DOMAIN managers[m.remote] :
        LET n == managers[m.remote][j]
        IN /\ n.call_id = m.call_id /\ n.caller # m.caller
           /\ n.pc = "open" /\ n.sdp \in {"offered", "stable"} /\ n.conn # "failed"}

\* How many of the two ends have the other one's candidate.  One may do: the other
\* learns it from the packets that come.
Paths(b, i) ==
  {j \in OtherEnd(b, i) : managers[managers[b][i].remote][j].candidate = "added"}
  \union (IF managers[b][i].candidate = "added" THEN {0} ELSE {})

\* Both descriptions are set at both ends and a path is found: 'connected'.
\* The current call, whichever it is, is active.
Connected(b, i) ==
  LET m == managers[b][i]
  IN /\ m.pc = "open" /\ m.sdp = "stable" /\ m.conn = "new"
     /\ \E j \in OtherEnd(b, i) : managers[m.remote][j].sdp = "stable"
     /\ Trickle => Paths(b, i) # {}
     /\ managers' = [managers EXCEPT ![b][i].conn = "connected"]
     /\ UpdateCall(b, "active")
     /\ UNCHANGED <<webrtc, endedCallIds, pendingOffer, timers, netVars>>

\* 'failed': the other end is gone, or the path is lost.  The current call,
\* whichever it is, is ended.
ConnectionFailed(b, i) ==
  LET m == managers[b][i]
  IN /\ m.pc = "open" /\ m.sdp = "stable" /\ m.conn # "failed"
     /\ faulty \/ OtherEnd(b, i) = {}
     /\ EndCall(b, [managers EXCEPT ![b][i].conn = "failed"])
     /\ UNCHANGED <<pendingOffer, netVars>>

-----------------------------------------------------------------------------
(* Signaling messages: handleEnvelope at b, for the oldest message from a. *)

Arriving(a, b, type) == wire[a][b] # <<>> /\ Head(wire[a][b]).type = type
Callid(a, b) == Head(wire[a][b]).call_id
Take(a, b) == wire' = [wire EXCEPT ![a][b] = Tail(@)]

\* Mutant: a message need not be for the current call.
Heeded_AnyCall(a, b) ==
  /\ Callid(a, b) \notin endedCallIds[b]

\* Messages of ended calls are ignored, and so are those of a call that is not
\* the current one, except for a request.
Heeded(a, b) ==
  /\ Callid(a, b) \notin endedCallIds[b]
  /\ Arriving(a, b, "call_request") \/ InCall(b, Callid(a, b))

Ignore(a, b) ==
  /\ wire[a][b] # <<>>
  /\ ~Heeded(a, b)
  /\ Take(a, b)
  /\ UNCHANGED <<ctrlVars, managers, used, faulty>>

\* onCallRequest: a new call takes the place of the current one, if any.
OnCallRequest(a, b) ==
  /\ Arriving(a, b, "call_request") /\ Heeded(a, b)
  /\ Take(a, b)
  /\ activeCall' = [activeCall EXCEPT ![b] =
       [call_id |-> Callid(a, b), remote |-> a, status |-> "incoming", outgoing |-> FALSE]]
  /\ UNCHANGED <<webrtc, endedCallIds, pendingOffer, timers, managers, used, faulty>>

\* Mutant: a second acceptance makes a second offer.
Offers_Again(m) == m.media = "live"

Offers(m) == m.media = "live" /\ m.sdp = "none"

\* startOutbound on the current manager: a connection, and with the capture
\* live an offer.  Adding the same tracks again is an error.
OnCallAccepted(a, b) ==
  /\ Arriving(a, b, "call_accepted") /\ Heeded(a, b)
  /\ Take(a, b)
  /\ IF webrtc[b] = None
       THEN UpdateCall(b, "connecting") /\ UNCHANGED managers
       ELSE LET m == managers[b][webrtc[b]]
            IN /\ managers' = [managers EXCEPT ![b][webrtc[b]] =
                    [m EXCEPT !.pc = "open", !.sdp = IF Offers(m) THEN "offering" ELSE m.sdp]]
               /\ UpdateCall(b, IF m.media = "live" /\ ~Offers(m) THEN "error"
                                                                  ELSE "connecting")
  /\ UNCHANGED <<webrtc, endedCallIds, pendingOffer, timers, used, faulty>>

\* call_rejected and call_ended.
OnCallOver(a, b) ==
  /\ Arriving(a, b, "call_rejected") \/ Arriving(a, b, "call_ended")
  /\ Heeded(a, b)
  /\ Take(a, b)
  /\ EndCall(b, managers)
  /\ UNCHANGED <<pendingOffer, used, faulty>>

\* acceptInbound on the current manager, or else the offer is buffered.
OnSdpOffer(a, b) ==
  /\ Arriving(a, b, "sdp_offer") /\ Heeded(a, b)
  /\ Take(a, b)
  /\ IF webrtc[b] # None
       THEN /\ managers' = [managers EXCEPT ![b][webrtc[b]] =
                 [@ EXCEPT !.pc = "open", !.sdp = "answering"]]
            /\ UNCHANGED pendingOffer
       ELSE /\ pendingOffer' = [pendingOffer EXCEPT ![b] = Callid(a, b)]
            /\ UNCHANGED managers
  /\ UNCHANGED <<activeCall, webrtc, endedCallIds, timers, used, faulty>>

\* handleAnswer on the current manager, if it has a connection.  An answer that
\* cannot be applied is an error.
OnSdpAnswer(a, b) ==
  /\ Arriving(a, b, "sdp_answer") /\ Heeded(a, b)
  /\ Take(a, b)
  /\ IF webrtc[b] = None \/ managers[b][webrtc[b]].pc # "open"
       THEN UNCHANGED <<activeCall, managers>>
       ELSE \E applies \in IF faulty THEN BOOLEAN ELSE {TRUE} :
              IF applies /\ managers[b][webrtc[b]].sdp = "offered"
                THEN /\ managers' = [managers EXCEPT ![b][webrtc[b]] =
                          [Flushed(@) EXCEPT !.sdp = "stable"]]
                     /\ UNCHANGED activeCall
                ELSE UpdateCall(b, "error") /\ UNCHANGED managers
  /\ UNCHANGED <<webrtc, endedCallIds, pendingOffer, timers, used, faulty>>

\* handleCandidate on the current manager, if it has a connection: added when the
\* remote description is set, which happens somewhere while an answer is made, or
\* else pending.  A connection refuses the candidate of another call.
OnIceCandidate(a, b) ==
  /\ Arriving(a, b, "ice_candidate") /\ Heeded(a, b)
  /\ Take(a, b)
  /\ IF webrtc[b] = None \/ managers[b][webrtc[b]].pc # "open"
       THEN UNCHANGED managers
       ELSE LET m == managers[b][webrtc[b]]
            IN \E remoteDescription \in CASE m.sdp = "stable" -> {TRUE}
                                         [] m.sdp \in {"none", "offering", "offered"} -> {FALSE}
                                         [] OTHER -> BOOLEAN :
                 managers' = IF m.call_id # Callid(a, b) THEN managers
                             ELSE [managers EXCEPT ![b][webrtc[b]].candidate =
                                     IF remoteDescription THEN "added" ELSE "pending"]
  /\ UNCHANGED <<ctrlVars, used, faulty>>

-----------------------------------------------------------------------------
User(b) ==
  \/ \E peer \in Browser : CallPeer(b, peer)
  \/ AcceptCall(b)
  \/ RejectCall(b)
  \/ HangUp(b)

Continue(b) ==
  \/ \E i \in DOMAIN managers[b] :
       \/ MediaGranted(b, i) \/ MediaDenied(b, i)
       \/ DescriptionReady(b, i) \/ DescriptionFails(b, i) \/ CandidateGathered(b, i)
       \/ Connected(b, i) \/ ConnectionFailed(b, i)
  \/ ClearCall(b)

HandleEnvelope(a, b) ==
  \/ Ignore(a, b) \/ OnCallRequest(a, b) \/ OnCallAccepted(a, b)
  \/ OnCallOver(a, b) \/ OnSdpOffer(a, b) \/ OnSdpAnswer(a, b)
  \/ OnIceCandidate(a, b)

Next ==
  \/ \E b \in Browser : User(b) \/ Continue(b)
  \/ \E a, b \in Browser : HandleEnvelope(a, b)

Spec == Init /\ [][Next]_vars

\* What the browser does by itself in the end: a prompt is answered, WebRTC
\* finishes a negotiation, finds a candidate, connects when both ends have the
\* other's, and notices that the other end is gone.
Settle(b) ==
  \/ \E i \in DOMAIN managers[b] :
       \/ MediaGranted(b, i) \/ MediaDenied(b, i)
       \/ DescriptionReady(b, i) \/ DescriptionFails(b, i) \/ CandidateGathered(b, i)
       \/ (Trickle => Cardinality(Paths(b, i)) > 1) /\ Connected(b, i)
       \/ OtherEnd(b, i) = {} /\ ConnectionFailed(b, i)
  \/ ClearCall(b)

\* A browser takes finitely many of these steps, so that fairness to their
\* disjunction starves none.  The user's own actions are never forced.
FairSpec ==
  /\ Spec
  /\ \A b \in Browser :
       /\ WF_vars(Settle(b))
       /\ \A a \in Browser : WF_vars(HandleEnvelope(a, b))

-----------------------------------------------------------------------------
(* Properties. *)

\* Every variable has the shape the code gives it.
TypeOK ==
  /\ activeCall \in [Browser -> ActiveCall \union {None}]
  /\ webrtc \in [Browser -> Nat \union {None}]
  /\ endedCallIds \in [Browser -> SUBSET CallId]
  /\ pendingOffer \in [Browser -> CallId \union {None}]
  /\ timers \in [Browser -> Nat]
  /\ managers \in [Browser -> Seq(Manager)]
  /\ wire \in [Browser -> [Browser -> Seq(Msg)]]
  /\ used \subseteq CallId
  /\ faulty \in BOOLEAN
  /\ \A b \in Browser : webrtc[b] = None \/ webrtc[b] \in DOMAIN managers[b]

Shows(b, c, status) == InCall(b, c) /\ activeCall[b].status = status

\* Negotiation messages meet the manager they are for: when an offer or an
\* answer is heeded, the current manager belongs to its call, in the role that
\* the message expects; an offer finds a negotiation not yet begun, an answer
\* finds the offer it answers.  handleEnvelope looks at activeCall only, and
\* passes the message to whatever manager is current.
SdpFindsItsManager ==
  \A a, b \in Browser :
    (Arriving(a, b, "sdp_offer") \/ Arriving(a, b, "sdp_answer")) /\ Heeded(a, b)
      => /\ webrtc[b] # None
         /\ LET m == managers[b][webrtc[b]]
                answer == Arriving(a, b, "sdp_answer")
            IN /\ m.call_id = Callid(a, b) /\ m.remote = a /\ m.caller = answer
               /\ m.sdp = IF answer THEN "offered" ELSE "none"

\* An offer is made at most once for a call, and only after the callee
\* accepted it: as long as it is on its way, every manager the callee made for
\* the call still waits for it, even after accept was pressed twice.
OfferOnce ==
  \A a, b \in Browser, c \in CallId :
    LET offers == {k \in DOMAIN wire[a][b] : wire[a][b][k] = [type |-> "sdp_offer", call_id |-> c]}
    IN offers # {} => /\ Cardinality(offers) = 1
                      /\ Accepted(b, c) # {}
                      /\ \A i \in Accepted(b, c) : managers[b][i].sdp = "none"

\* A call that is over does not stay on the screen: as long as it is shown, in
\* whatever status a late callback left it, a timer that clears it is running.
EndedCallIsCleared ==
  \A b \in Browser :
    activeCall[b] # None /\ activeCall[b].call_id \in endedCallIds[b] => timers[b] > 0

\* Without faults, a call is shown as an error only when the other side's user
\* pressed accept twice for it, whoever hangs up, declines or calls when.
NoErrorWithoutCause ==
  ~faulty => \A b \in Browser :
    activeCall[b] # None /\ activeCall[b].status = "error"
      => Cardinality(Accepted(activeCall[b].remote, activeCall[b].call_id)) > 1

\* controller.ts:209-210: "the connection becomes active only when
\* RTCPeerConnection reports 'connected'".
ActiveMeansConnected ==
  \A b \in Browser, c \in CallId :
    Shows(b, c, "active") =>
      \E i \in DOMAIN managers[b] :
        managers[b][i].call_id = c /\ managers[b][i].conn = "connected"

\* docs/protocol.md:103-104: "Call ids from ended calls are ignored (replay
\* protection)": a call that its caller has ended does not ring any more once
\* everything the caller said of it has arrived.
EndedCallNeverRings ==
  \A a, b \in Browser, c \in CallId :
    Shows(b, c, "incoming") /\ activeCall[b].remote = a /\ c \in endedCallIds[a]
      => \E k \in DOMAIN wire[a][b] : wire[a][b][k].call_id = c

\* Once the callee's user has accepted, the call becomes active at both ends
\* unless one of them ends it, accept is pressed twice, or something fails.
AcceptedCallConnects ==
  \A a, b \in Browser, c \in CallId :
    ~faulty /\ Accepted(b, c) # {} /\ InCall(a, c) /\ a # b
      ~> \/ Shows(a, c, "active") /\ Shows(b, c, "active")
         \/ c \in endedCallIds[a] \union endedCallIds[b]
         \/ Cardinality(Accepted(b, c)) > 1

\* When one end of an active call has ended it, the other does not go on
\* showing it as active, even if the message that says so is lost.
HangUpIsNoticed ==
  \A a, b \in Browser, c \in CallId :
    a # b /\ c \in endedCallIds[a] /\ Shows(b, c, "active") ~> ~Shows(b, c, "active")

=============================================================================
