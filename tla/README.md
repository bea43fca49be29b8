# vid2peer: models and proofs

TLA+ models of the peer-to-peer chat and call client in this repository: its
Rust core (`rust-core/`), the C and JNI wrapper (`android-ffi/`), the Android
application and the browser client (`frontend/`). TLC checks the models on
small instances; TLAPS proves the main results for instances of every size.

## 1. Inventory

| Component | State | Operations | Hard behaviour | What makes it correct |
|---|---|---|---|---|
| rust-core, chat path (`network.rs` 468-547, 657-673; `protocol.rs`) | `chat_outbound`: per destination a FIFO of (request id, message id) | `send_chat`, request, response and failure events | acknowledgements overtake one another; a timed-out request may still arrive; the queue dies with the process | one report per message, of the right kind, naming the right message |
| rust-core, call signaling path (`network.rs` 549-620, 677-691) | `call_outbound`: request id -> (destination, call id, type) | `send_call_message`, the same events | the same, with a map that is searched in arbitrary order and acknowledgements without an id | every acknowledgement reported; reports right in number; named right when possible |
| rust-core, call sessions (`signaling.rs`) | `CallManager.sessions`, `history` | one setter per signaling or media event | late and repeated events | the session follows the state machine of `docs/protocol.md` |
| rust-core, discovery (`discovery.rs`, `events.rs`, `network.rs` 278-466) | `identified`, `addresses`; Kademlia's table | network events, `add_address`, queries | several connections per peer, mDNS batches, identify replacing addresses | the directory holds whom the events named, and does not forget addresses |
| rust-core, identity (`identity.rs`) | the key file | `load_or_create_keypair` | crash while writing, two processes starting | one identity per file, for ever |
| rust-core, DHT (`dht.rs`), relay and startup (`relay.rs`, `network.rs`) | records; startup configuration | put, get, provide; listen, dial | encoding limits; one step of several failing | records round-trip; start-up reaches what was configured |
| android-ffi (`lib.rs`, `jni.rs`) | handle: peer behind a mutex, event channel, runtime | create, actions, `next_event`, free | the event task holds the mutex while it waits; free races `next_event` | actions are not starved; nothing is used after free |
| Android application (Kotlin) | handle, drain thread | open, actions, close | close against the drain thread | as above |
| frontend, calls (`controller.ts`, `webrtc-manager.ts`, `CallPanel.tsx`) | `activeCall`, `webrtc`, `endedCallIds`, `pendingOffer`; per manager: connection, capture, negotiation, candidates | buttons, envelopes, continuations after prompts and negotiation, timers | everything happens between two awaits; two browsers; glare | what is shown is what is so; an accepted call connects; an ended call ends |
| frontend, hub signaling (`signal-hub.ts`, `scripts/signal-hub.mjs`) | socket, backoff; the hub's `peers` | hello, signal, rename, close, reconnect | reconnection, a second socket with one id, missed leave messages | presence becomes right; a newer socket is not removed by an older one |
| frontend, broadcast signaling (`broadcast.ts`) | heartbeats and last-seen times | beat, receive, expire | throttled timers | who is shown online was heard of lately |
| frontend, libp2p signaling (`libp2p-signaling.ts`) | relay connection, streams | dial, send, receive | an envelope split over chunks | envelopes arrive whole or not at all |
| frontend, user interface, identity, types | rendering | - | - | - |
| bootstrap node, relay node, scripts | none of their own | event loops that log | - | - |

How they interact. Two Rust peers talk through libp2p's request-response
behaviour, once for chat and once for signaling; what happens is told to the
application by `next_event`, which `android-ffi` calls from a task and hands to
Java through a channel. `CallManager` and `DiscoveryManager` are fed from that
event stream. Two browsers talk through one of three signaling back ends
(hub, broadcast channel, libp2p), all of which deliver envelopes to
`Controller.handleEnvelope`; the controller drives one `WebRtcManager` per call
attempt, whose callbacks change the controller's state.

`PROJECT.json` lists the components with what is modelled of each, and under
"hazards" each place where the code could go wrong in a way a test would hardly
reach.

## 2. Modules

| Module | Models |
|---|---|
| `RequestResponse` | external: what the core relies on of libp2p's request-response |
| `ChatDelivery` | the chat path of `Peer` |
| `ChatService` | abstract: what sending a chat message promises |
| `CallDelivery` | the call signaling path of `Peer` |
| `CallSession` | two applications with a `CallManager` each, over `CallDelivery` |
| `Startup` | the identity file and the start of processes that share it |
| `Discovery` | connections, identify, mDNS and Kademlia events, queries, `DiscoveryManager` |
| `Node` | `Startup` and `Discovery` together: a node that starts, runs and stops |
| `Addresses` | multiaddresses of peers and relays, the DHT's address record: operators |
| `FfiPeer` | the C interface: handle, mutex, event task, channel |
| `AndroidApp` | the Android application over `FfiPeer` |
| `BrowserCall` | the browser's calls: controllers, managers, signaling between browsers |
| `SignalHub` | presence over the hub, with sockets that break and are superseded |
| `StreamFraming` | envelopes on a stream of the libp2p back end: operators |
| `MC...` | small instances |
| `RequestResponseProofs`, `ChatDeliveryProofs`, `CallDeliveryProofs`, `CallSessionProofs`, `NodeProofs`, `AndroidAppProofs`, `SignalHubProofs`, `BrowserCallProofs` | theorems |

### RequestResponse, ChatDelivery, CallDelivery

A request is identified with the message it carries. `status[m]` is what the
sender has been told: waiting, acked (`ok: true`), refused (`ok: false`), failed
(`OutboundFailure`), or abandoned, when the sender's process ended. `request`
and `response` are sets, as each request has a substream of its own. A request
that failed at its sender stays in `request`: it may still arrive.

The actions of `ChatDelivery` are the arms of `translate_chat_event` and the
public method `send_chat`:

| Action | Code |
|---|---|
| `SendChat` | `send_chat`: validation first, then `send_request` and the queue's `push_back` |
| `OnRequest`, `OnInvalidRequest` | the Request arm; only a valid message is handed over |
| `OnAck` | Response with `ok`: `take_chat_outbound` pops the oldest entry, the event takes the id from the acknowledgement |
| `OnNok` | Response without `ok`: no event, the queue keeps its entry |
| `OnFailure` | OutboundFailure: the request's own entry is removed if it is still there; if not, the error has an empty id |
| `Restart` | the process ends; the queue was in memory only |

`CallDelivery` has the same shape; `Takeable` is `take_call_outbound`, which
yields whichever entry for the peer the `HashMap` iterates over first. Message
texts are their lengths, signaling messages are opaque; what a peer's build
accepts is a constant, so that two releases can be put together (a message that
passes the sender's check and fails the receiver's).

`received`, `delivered`, `errored`, `unnamed`, `reported` and `errors` are what
applications were told; no action reads them.

### CallSession

Each application takes one event at a time from `next_event`, tells its manager
and answers (`examples/signaling_demo.rs`, `tests/signaling_test.rs`), so that
an action is the handling of one event; the messages themselves are
`CallDelivery`'s, by INSTANCE, and overtake one another. The manager's setters
are operators named like those of `signaling.rs`; most set the state whatever
it was. WebRTC's report (`MediaEstablished`) comes to each side once, at any time
after the caller has dealt with the answer, also when the call is over. The demo
accepts every request; here a user may answer a pending session as `CallSignaler`
and `CallManager` allow, which includes rejecting after an acceptance of which the
manager was not told. `consent` remembers that the callee's user accepted. `stale`
remembers that an acceptance or WebRTC's report came to a session that was over,
or a message to a peer with no session: after that the two sides need not agree,
see section 5.

### Startup, Discovery, Node

`Startup` has a step for each system call of `load_or_create_keypair` and
`save_keypair`: testing for the file, reading it, truncating it, writing it; a
process may crash or fail between any two. Listening on an address that another
process has is no error, as libp2p's TCP transport allows a port to be reused. `Discovery` has an action for each
arm of the event translation in `network.rs` that reaches anybody's state, with
what `DiscoveryManager::on_event` makes of the event in the same action, and one
for each call of the application. Kademlia is external: its routing table, and
the `RoutingUpdated` event it queues for a new address. `Node` begins
`Discovery` with `apply_startup_config` when a process listens and drops it when
the process ends. `connected`, `manual`, `registered` and `unanswered` are what an
application would keep; no action reads them.

`Addresses` has no state. `MCNode` checks its operators on all short inputs, as
assumptions: arguments name their owners, the peer of an address is the last
one that going through its components meets, a record survives encoding and
decoding, one bad argument leaves none.

### FfiPeer, AndroidApp

The mutex is the queue of those who hold it or wait for it, as Tokio's is fair.
A call of the interface is up to three steps: it is made with the pointer, it
queues for the lock, it acts and returns. The drain thread is followed from
reading the handle to posting the event, since `close()` can come between any
two of these. Once the handle is freed, a call that still uses it may do
anything the build can produce: end the process, return or never return
(`Undefined`). `p2pvc_init` may end the process as well (`PeerPanics`,
`OpenAborts`): it builds the peer outside of the runtime that `Peer::new` asks for
(`network.rs:113`), and a panic can not leave an `extern "C"` function. `passed` counts the events
reported while a thread waits.

### SignalHub

A socket is a pair of queues with two ends, each of which notices the end of the
connection in its own time: a client can be back, with a new socket, before the
hub has given up the old one. Two tabs may have one id, as a duplicated tab has a
copy of the session storage. The actions are the hub's message, close and hello
handlers and the client's `onopen`, `onmessage`, `onclose`, its timer, `rename`
and `stop`. Relayed envelopes change nothing the hub reads: `BrowserCall` has
them as queues.

`StreamFraming` is the other back end's `send` and read loop as operators;
`MCSignalHub` checks on all cuts of short streams that exactly the envelopes
that lie in one chunk are read (`WholeOrNothing`).

### BrowserCall

An action is a stretch of JavaScript up to its next real wait. `callPeer` and
`acceptCall` are two actions each: up to the `getUserMedia` prompt (`CallPeer`,
`AcceptCall`) and after it (`MediaGranted`, `MediaDenied`). `startOutbound` and
`acceptInbound` are the step that starts them (`OnCallAccepted`, `OnSdpOffer`)
and `DescriptionReady` or `DescriptionFails`. All managers ever made are kept,
because a manager that is no longer current still has a prompt open and
callbacks to call: these act on `activeCall` whichever call it is, as in
`onConnectionState`. `wire[a][b]` is a queue, since a browser's messages to
another pass through one socket to the hub and one from it. `ConnectionFailed`
happens when the other end has closed or, with faults, at any time.

Candidates. With `Trickle`, every manager sends one candidate once it has a
local description (several are alike), and `candidate` is what became of the
other end's: dropped, kept in `pendingCandidates`, or added. A connection can
come up when one end has the other's candidate, and has to when both have.

`faulty` is chosen in the initial state and never changes: it tells behaviours
in which sends throw, messages are lost, prompts are denied and negotiations or
connections fail from those in which nothing of the kind happens. One run can
then ask what must hold without faults and what must hold with them.

## 3. Runs

| Run | Instance | What it shows |
|---|---|---|
| `chat_delivery` | 2 peers with different text limits, 3 messages one way and 1 the other, 2 restarts | queue and reports are right in any order of events; the chat path implements `ChatService`; every message is reported on in the end |
| `chat_queue_pending` | the same peers, one release | violated: the queue does not hold the pending messages |
| `call_delivery` | 2 peers of two releases, 3 messages one way and 2 the other, 1 restart | every acknowledgement finds an entry; as many reports as outcomes; exact for the peer that sends one at a time |
| `call_sent_not_acked` | the same peers, one release | violated: `CallMessageSent` names a message that was not acknowledged |
| `call_session` | one call, both sides may hang up at any time, one request fails | no negotiation without the callee's consent; only a late acceptance or a late report of WebRTC revives a session that is over; both sides agree when all has arrived; an accepted call connects |
| `node` | 2 processes on one file, 2 keypairs; 2 other peers with an address each, one with 2 connections | one identity per file; what makes a file unreadable; the directory and the connected view are right; every get is answered |
| `android_app` | main thread, drain thread, 1 other thread, 3 events | an action waits for one event at most; events arrive once and in order; actions return; the drain thread stops |
| `signal_hub` | 3 tabs with 2 ids, one of them with 3 sockets, 1 break, 1 rename | the open socket is the registered one; presence is right when all is noticed; clients come back |
| `browser_call` | 3 browsers, 2 calls, no faults | calls that cross in every way on reliable signaling |
| `browser_call_faults` | 2 browsers, 1 call accepted up to twice, candidates, with and without faults | one offer per call; an accepted call becomes active without faults, so that no candidate that is needed gets lost; the end of a call is noticed with faults |
| `browser_call_glare` | 2 browsers, 2 calls | violated: a ringing call is shown as active |
| `browser_call_rings` | 2 browsers, 1 call | violated: a call that has ended rings |

Bounds. Messages matter only in pairs between the same two peers (one outcome
takes the entry of another); three in one direction let an outcome hit the entry
of a third. Two peers suffice, as queues and entries of different pairs never
meet. `MaxRestarts` bounds only the number of restarts; a second one adds a restart of the
other peer. For calls between browsers, three browsers and two calls give glare, a second caller and a call back
during the 2.5 s in which an ended call is still shown. `MaxAccepts = 2` is the
second press of the button. Larger instances than those in the configurations
(two browsers, two calls, two accepts; two browsers, two calls with faults in
signaling) satisfy the same invariants; candidates are left out of the runs with
two calls, where they would only multiply the states.

Each message of a `call_session` call is sent at most once, as the code does,
so the run is all of one call; sessions of different calls never meet in
`CallManager`. In `node`, two processes are enough for every race on the file; a peer with two connections is the case in which counting events
goes wrong, and two addresses make an mDNS batch with a peer that is not
reported. The proofs of section 4 remove these bounds for every invariant of
the passing runs, and leave them for liveness. In `android_app`, the third event
is a signaling message, and an action can wait over two events if it were to;
a second other thread adds another waiter to the queue. In `signal_hub`, one
break and a client with three sockets give the socket that is noticed late, and one
that is lost again after the client came back; the two tabs with one id give the
superseded one. `ClientComesBack` is meant for the sockets in between: a client that
has opened its last one has nothing left to come back with, so its loss is excused,
that of the others is not. The second tab opens one socket, so the two tabs' duel
(section 5) goes one round.

Symmetry is used only in the runs without liveness: browsers and call ids in
`browser_call`, messages of one sender that are accepted alike in
`call_delivery`, keypairs in `node`. Deadlock is not checked: a system in which every message was
sent and every call made stops.

Fairness. For chat: weak fairness of each message's outcome, which libp2p's
request timeout gives as long as the application calls `next_event`, as its
documentation demands; nothing makes a request arrive. For `call_session`: weak
fairness of everything that is neither a user nor a failure, for the same
reason. For `android_app`: each thread and the event task run; no event has to
come, no user to click, and a use of freed memory need not end. For
`signal_hub`: messages and closings are noticed and the client's timer fires;
nothing forces a break. For browser calls: weak fairness
of the delivery of envelopes and of what the browser does by itself (a prompt is
answered, WebRTC finishes a step or fails it, gathers a candidate, connects when
both ends have the other's, notices a closed end; the timer of `endCall` fires).
Users are never forced to do anything. A path that works is never forced to
fail.

Every property has a mutant of a mapped definition, kept beside the definition
it changes and marked as such, with which the run finds the property violated.

## 4. What is proved

For every finite set of messages, any set of peers, any limits, any releases and any number
of restarts (assumptions: `RouteAssumption`, `MsgFinite`, `SizeAssumption`,
`CallAssumption`):

- `ChatDeliveryProofs!TypeCorrect`, `CallDeliveryProofs!TypeCorrect`: the type
  invariants.
- `QueueCovers`: `Spec => []QueueCoversWaiting`. `take_chat_outbound` pops an
  entry that may belong to another message; that an acknowledgement always
  finds some entry is a counting fact: every outcome takes at most one entry
  off the queue and exactly one request off the outstanding ones. It is
  inductive by itself, from lemmas on what removing and popping do to a queue's length
  (`RemoveEntryLength`, `TakeOutboundLength`) and on how each step changes the
  outstanding requests (`RequestResponseProofs`).
- `DeliveriesReported` (`DeliveryReports`) and `FailuresReported`
  (`FailureReports`, which leaves open whether a refusal is reported). Neither is inductive: a report is right because the
  acknowledgement names its own request, of which the application was told,
  which is `WireInv`; and it is made at all because the queue is not empty, which
  is `QueueCovers`. `Reports`, the conjunction of the three, is the inductive
  invariant.
- `ChatImplementsService`: `Spec => ServiceSpec`. With the reports right, a
  message's verdict is a function of its request's status
  (`VerdictFollowsStatus`); each action then maps to an action of `ChatService`
  or to a stuttering step.
- `EntriesCover`: the same counting argument for `call_outbound`, whichever entry is taken.
- `CountsRight` (`ReportsCount`): as many `CallMessageSent` events as
  acknowledgements. `CountInv` adds that a message whose entry was taken is not
  reported again (`ReportedOnce`); an acknowledgement then moves one message into
  each of two finite sets, though not the same one.
- `OneAtATimeReports`: an application that sends one message at a time to a peer
  that accepts what it may send gets exact reports. The invariant, `PairInv`,
  says that at most one request of the pair is outstanding, that its entry is
  the only one, and that no refusal is on its way.

For any number of processes, keypairs, peers, addresses and connections
(`StartupAssumption`, `DiscoveryAssumption`, `NodeAssumption`), `NodeProofs` has
one inductive invariant, `NodeInv`, in two parts that meet only where a process
begins and ends:

- `StartupInv`. `IdentityKept` (`IdentitySurvives`) is not inductive: it holds
  because, unless two processes found no file at once, at most one is ever
  saving a keypair (`OneSaves`), nothing was saved before it, and whoever listens
  or ever ran has the keypair of the file (`FileIsKey`). `FileReadable`
  (`UnreadableOnlyIfCut`) says what is left when a write is cut off.
- `DirectoryInv`. `TableKnown`, `ViewCorrect`, `AddressesKept` and
  `GetsAnswered` (`TableInDirectory`, `ConnectedView`, `AddressesCurrent`,
  `GetsAreAnswered`) are each kept by every event, from lemmas on the kinds of
  change there are: an address added to the table (`TableGrows`), a peer seen
  (`SeenKeeps`), a query (`QueryStepKept`).
  What `addresses_for` returns exactly is `AddressesExact`, of which the property
  is the part that the code's comment and the code agree on.
- `TypeCorrect`, the type invariant, with it: every address a node keeps is filed
  under its own peer.

For any number of clients, ids and sockets (`HubAssumption`), `SignalHubProofs`:

- `NewestSocketStays`: `Spec => []OpenSocketIsRegistered`. `hello` puts its
  socket in the map and closes the one that was there, so at most one socket of
  an id stays open; `close` takes an entry only with its own socket. That this
  is enough needs that a socket is opened once only, and before it has said
  hello (`Fresh`, `Greeted`): opened twice, it would be open without an entry.
  `HubInv` is the conjunction.
- `TypeCorrect`, the type invariant, which also says whose sockets the map holds.
- `PresenceRight` (`PresenceWhenQuiet`). What a client shows is right only once
  its queue is empty, so the invariant, `PresenceInv`, is about what it will show
  when it has taken all of it (`WillShow`: the last message that names a peer
  decides). That, for a socket that has said hello, contains the hub's peers
  (`ShowsAll`), and without a lost socket or a rename nothing else
  (`ShowsOnly`); lemmas say how a message more, or one taken, changes it.

For any two peers and any number of failures (`SessionAssumption`),
`CallSessionProofs`, with the inductive invariant `SessionInv`:

- `ConsentFirst` (`NoMediaWithoutConsent`): answer, offer, acceptance and consent
  are sent in this order (`InOrder`), because each is sent on an event that the
  one before caused; that needs that a message that was sent is on its way or
  has arrived, even if its request failed (`Carried`), and that an event in hand
  is about one that arrived (`EventsOK`).
- `SidesAgree` (`AgreeWhenQuiet`): `InStep` relates each side's session to the
  messages that were sent and dealt with, as long as nothing came to a session that
  was over or missing (`stale`). With nothing on its way that decides both.
- `RevivedByLateNews`: the action property `RevivedByLateNewsOnly`. The setters of
  the request would revive a session too; but the callee's application gets the
  request once (`MadeOnce`), and the caller's tells its manager of a call that it
  has already.
- `TypeCorrect`, the type invariant, which also says for which calls a manager has
  a session: the callee's exactly when its application has dealt with the request.

For any number of threads and events (`AndroidAssumption`, `FfiAssumption`),
`AndroidAppProofs`:

- `OneEventPasses` (`OneEventAtMost`): the mutex's queue has no one twice, and
  everybody whom an event passed is ahead of the event task when that queues
  again (`PassedIsAhead`), so that it can not be passed by another.
- `EventsKeepOrder` (`EventsInOrder`): what `onEvent` was given, what is posted, what
  is in the channel and what the event task has in hand, one after the other, are
  all the events reported, in order. Each step moves the first of one to the end of
  the next; lemmas say that this leaves the whole as it was.
- `TypeCorrect`, the type invariant.

For any number of browsers, calls and presses of accept, with and without faults
and candidates (`BrowserCallAssumption`), `BrowserCallProofs`. `CallInv` says of
every call what the messages on their way and the managers at its two ends can be
at the same time:

- A call has one caller, and its caller and callee are whom managers, messages and
  the calls on the screen say (`OneCaller`, `Paired`). Its id is not known anywhere
  before it is placed (`Known`), and not at the callee before its only request
  arrives (`Requested`).
- A browser that shows a call that it has accepted and not ended has one of its
  managers as the current one (`CurrentIsFor`). This is what makes it right that
  `handleEnvelope` compares the call that is shown and then uses `webrtc`.
- One offer, then one answer: `Negotiated` says which managers of the callee may be
  where for each point the caller is at. One prompt was granted for each
  acceptance that was sent (`Acceptances`), so that an acceptance that finds the
  caller offering already is a second one (`ErrorsCaused`).

Each action preserves it (`CallStep`), most of them through lemmas on the kinds of
step there are: those that touch no negotiation (`QuietStep`), those that take one
manager a step further (`SdpStep`), and those that make a manager (`Grown`).
`SdpMeetsManager`, `OneOffer`, `ErrorsHaveCause`, `EndedCallsCleared` and
`TypeCorrect` follow (`SdpFindsItsManager`, `OfferOnce`, `NoErrorWithoutCause`,
`EndedCallIsCleared`, `TypeOK`). `ActiveMeansConnected` is false as soon as there are
two calls, as the run `browser_call_glare` shows, and is not proved.
That `None` is no number, which `BrowserCallAssumption` says, is what tells the
code's `null` from a manager.

Only model-checked: all liveness (out of the prover's reach, as ENABLED is): that
messages are reported on, calls connect, hang-ups are noticed, actions return, the
drain thread stops and clients come back; and the operators of `Addresses` and
`StreamFraming`, on short inputs: they go through sequences element by element, and
what such a definition computes for every input is an induction the provers can
not do. The parts of the inductive invariants that no run lists were checked on
small instances before they were proved; their proofs check them from then on.

## 5. What the models found

Disagreements between the code and what the repository says of it, each shown by
a run:

- `chat_queue_pending`: `chat_outbound` is called a FIFO of pending messages
  (`network.rs:103-106`, `docs/protocol.md:40-42`), with which responses are
  correlated "by per-peer delivery order". Outcomes need not come in that order,
  and a refusal leaves its entry behind. Reports stay right only because the
  acknowledgement carries the message id.
- `call_sent_not_acked`: `CallMessageSent` ("a signaling message we sent was
  acknowledged", `events.rs:75`) may name a message that was not.
- `browser_call_glare`: a call is shown as active although its own connection
  is not there (`controller.ts:209-210`).
- `browser_call_rings`: a call that its caller ended during the camera prompt
  rings at the callee (`docs/protocol.md:103-104`).

Three more, each with the statement it is against, that no run shows: the
properties near them are stated so that they hold whichever side is right.

- A chat message that its destination refuses is never reported: the response is
  dropped (`network.rs:520-523`), while `ChatError` is "An outgoing chat message
  failed" (`events.rs:69-70`) and the signaling path reports refusals
  (`network.rs:586-591`). `FailureReports` allows a report and does not demand one;
  `EventuallyReported` excuses refused messages.
- `addresses_for` returns "All known addresses for a peer (Identify + manual
  registration)" (`discovery.rs:66`), but Identify replaces what was registered by
  hand before it (`discovery.rs:30-32`). `AddressesCurrent` demands what was
  registered since, and allows what was registered before.
- A late acceptance (`on_call_accepted`) or a late report of WebRTC
  (`on_media_established`) revives a session that has ended or was rejected, against
  the state machine of `docs/protocol.md:47-52` and "Call ids from ended calls are
  ignored" (`:103-104`). `RevivedByLateNewsOnly` says that nothing else does.

Other behaviour of the models, listed here for the maintainers; most of it contradicts
no statement of the repository (where it does, the statement is named). Calls between browsers:

- When two users call each other at once, each one's request replaces the
  other's outgoing call, and both can wait for ever.
- Accepting a call twice while the prompt is open makes two managers; the caller
  ends in `error` because tracks are added twice, and the first capture stays on.
- Hanging up during the prompt finds no capture to stop; when the prompt is
  granted afterwards the camera goes live without a call.
- Declining a second caller hangs up the manager of the first call.
- The 2.5 s timer of one call clears whichever call is shown when it fires.
- Hanging up a call that is shown as an error tells the other side nothing.

Call sessions of the Rust core (`CallSession`, excluded from its properties by
`stale`):

- A hang-up that overtakes the request is dropped, and the request then rings.
- An application that registers a call only when its request is acknowledged, as
  the comment at `signaling.rs:97` has it, loses an answer that comes before.

Start-up and discovery:

- Two processes that find no key file at the same time end up with different
  identities, one of which is not the file's; a file that was cut off never
  parses again, and nothing replaces it.
- Only the first peer of an mDNS batch is reported as discovered; the others come
  with `RoutingUpdated`. `PeersFound` is ignored by `DiscoveryManager`.
- A get that found a value and then times out reports "not found" as well;
  puts, announcements and searches may fail in silence; every step of a bootstrap
  is reported as its completion, with `peers: 0` for a failed one.
- `dial_peer` through a relay panics on `"/ipfs".parse()` (`network.rs:639`);
  relay servers are dialled, but no reservation is asked for (`network.rs:224`);
  `enable_mdns` and `agent_version` are not used.

Android:

- `p2pvc_init` calls `Peer::new` outside of its runtime (`lib.rs:155-162`); where
  libp2p needs one there, the process ends.
- The event task waits for the next event with the peer locked, so each action,
  those in `init` on the main thread included, waits for an event of the swarm.
- `close()` frees the handle while the drain thread may be in `nNextEvent`
  (`lib.rs:193-202`, `:269`); what was posted reaches `onEvent` after `onDestroy`.
- A signaling message reaches the application with serde's external tag, while
  `MainActivity.kt:40-42` reads `message.type`: the first one ends the process.
  `sendCallMessage` with the JSON its comment documents fails.

Hub:

- A client that was away does not learn who left meanwhile; two tabs with one id
  close each other's sockets for ever; a rename that a superseded socket sent may
  announce a peer that has left.

## 6. What is not modelled, and the plan

- The user interface's rendering, `identity.ts` and `types.ts`; statistics and the
  mute buttons, which change flags and tracks only.
- `BroadcastSignaling`: its presence is a matter of real time (8 s against 3 s
  beats that a browser may throttle).
- Of the libp2p back end everything but its framing: the node, its relay
  reservation and its streams are js-libp2p's.
- `dial_peer` and the building of the swarm:
  calls into libp2p without state of the repository's own.
- Kademlia, Noise, Yamux, WebRTC, Tokio and Android's looper themselves; argument
  parsing but for bootstrap addresses; the event loops of the bootstrap and relay
  nodes, which only log; the demos and scripts.
- The relaying of envelopes by the hub, which changes nothing it reads.

Theorems to come: that a hang-up leaves no capture on in a browser whose prompt
was answered before it; which captures the managers that are no longer the current
one still hold (section 5: an acceptance pressed twice, a call that was replaced);
lemmas on the operators of `Addresses` that need no induction.
