----------------------------- MODULE AndroidApp -----------------------------
(***************************************************************************)
(* The Android application over FfiPeer: one MainActivity with its         *)
(* P2pvcNative.  The main thread runs onCreate, clicks, posted events and  *)
(* onDestroy, one after the other, and is blocked while a native call of   *)
(* its own waits for the peer.  The executor's only thread, the drain      *)
(* thread, waits for events in nNextEvent and posts them to the main       *)
(* thread.  Other threads of an application may call P2pvcNative as well;  *)
(* its handle is volatile, and nothing else protects it.                   *)
(*                                                                         *)
(* What a call does that is inside the native code when the handle is      *)
(* freed is undefined: it may crash the process or return.                 *)
(***************************************************************************)
EXTENDS FfiPeer

CONSTANTS
  Main,    \* the main thread
  Worker   \* the other threads that call actions

ASSUME AndroidAssumption == Main \notin Worker /\ Thread = Worker \union {Main}

VARIABLES
  alive,     \* the process runs
  activity,  \* where the main thread is in the activity's life
  handle,    \* P2pvcNative.handle is not 0
  draining,  \* the flag of the same name
  drain,     \* the drain thread: "unstarted", "testing" the flag, "reading" the
             \* handle, "called" with the pointer, "receiving", "stopped"
  looper,    \* the events posted to the main thread
  handled    \* the events onEvent was called with; never read by an action

appVars == <<activity, handle, draining, drain, looper, handled>>
vars == <<ffiVars, alive, appVars>>

Init ==
  /\ FfiInit
  /\ alive = TRUE
  /\ activity = "created"
  /\ handle = FALSE
  /\ draining = FALSE
  /\ drain = "unstarted"
  /\ looper = <<>>
  /\ handled = <<>>

-----------------------------------------------------------------------------
(* The main thread *)

\* onCreate: init succeeds and goes on to ask for the peer id.
Open ==
  /\ activity = "created"
  /\ \E cfg \in Config : PeerInit(cfg)
  /\ activity' = "init"
  /\ handle' = TRUE
  /\ UNCHANGED <<draining, drain, looper, handled>>

\* init fails: a bad configuration, no runtime, no key file or no listen address.
OpenFails ==
  /\ activity = "created"
  /\ activity' = "running"
  /\ UNCHANGED <<ffiVars, handle, draining, drain, looper, handled>>

\* init ends the process.
OpenAborts ==
  /\ activity = "created"
  /\ \E cfg \in Config : PeerPanics(cfg)
  /\ alive' = FALSE
  /\ UNCHANGED appVars

\* nPeerId at the end of init, then bootstrap.
StartUp(from, to) ==
  /\ activity = from /\ call[Main] = "none"
  /\ activity' = to
  /\ call' = [call EXCEPT ![Main] = "called"]
  /\ UNCHANGED <<box, mutex, task, reported, rx, passed, handle, draining, drain,
                 looper, handled>>

\* drainEvents starts the drain thread.
DrainEvents ==
  /\ activity = "bootstrap" /\ call[Main] = "none"
  /\ activity' = "running"
  /\ draining' = TRUE
  /\ drain' = "testing"
  /\ UNCHANGED <<ffiVars, handle, looper, handled>>

\* onEvent of a posted event.  A signaling message is looked up by "type", which
\* its object does not have: the exception ends the process.
OnEvent ==
  LET json == EventJson(Head(looper))
  IN /\ activity \in {"running", "destroyed"} /\ call[Main] = "none"
     /\ looper # <<>>
     /\ looper' = Tail(looper)
     /\ IF json.tag = "call_in" /\ "type" \notin json.message
          THEN alive' = FALSE /\ UNCHANGED handled
          ELSE alive' = alive /\ handled' = Append(handled, Head(looper))
     /\ UNCHANGED <<ffiVars, activity, handle, draining, drain>>

\* Mutant: the flag is not reset, and the thread does not see the handle go.
Close_KeepsDraining ==
  /\ activity = "running" /\ call[Main] = "none"
  /\ activity' = IF handle THEN "closing" ELSE "destroyed"
  /\ UNCHANGED <<ffiVars, handle, draining, drain, looper, handled>>

\* onDestroy: close, up to nFree.
Close ==
  /\ activity = "running" /\ call[Main] = "none"
  /\ draining' = FALSE
  /\ handle' = FALSE
  /\ activity' = IF handle THEN "closing" ELSE "destroyed"
  /\ UNCHANGED <<ffiVars, drain, looper, handled>>

\* nFree, in two steps; executor.shutdownNow() interrupts, which native code does
\* not notice.
Free ==
  /\ activity = "closing"
  /\ \/ DropRuntime /\ UNCHANGED activity
     \/ DropHandle /\ activity' = "destroyed"
  /\ UNCHANGED <<handle, draining, drain, looper, handled>>

-----------------------------------------------------------------------------
(* Actions, on any thread *)

\* An action reads the handle and goes on with what it read.
CallAction(t) ==
  /\ call[t] = "none"
  /\ handle
  /\ t = Main => activity = "running"
  /\ call' = [call EXCEPT ![t] = "called"]
  /\ UNCHANGED <<box, mutex, task, reported, rx, passed, appVars>>

\* A call on a freed handle.
UndefinedCall(t) ==
  /\ box = "freed" /\ call[t] # "none"
  /\ \/ alive' = FALSE /\ UNCHANGED call
     \/ alive' = alive /\ call' = [call EXCEPT ![t] = "none"]
  /\ UNCHANGED <<box, mutex, task, reported, rx, passed, appVars>>

-----------------------------------------------------------------------------
(* The drain thread *)

\* while (draining.get()) nNextEvent(handle): the flag and the handle are read
\* one after the other.
TestDraining ==
  /\ drain = "testing"
  /\ drain' = IF draining THEN "reading" ELSE "stopped"
  /\ UNCHANGED <<ffiVars, activity, handle, draining, looper, handled>>

ReadHandle ==
  /\ drain = "reading"
  /\ drain' = IF handle THEN "called" ELSE "stopped"
  /\ UNCHANGED <<ffiVars, activity, handle, draining, looper, handled>>

Receive ==
  /\ drain = "called" /\ box \in {"live", "closing"}
  /\ drain' = "receiving"
  /\ UNCHANGED <<ffiVars, activity, handle, draining, looper, handled>>

\* blocking_recv returns an event, which is posted to the main thread.
PostEvent ==
  /\ drain = "receiving" /\ box \in {"live", "closing"}
  /\ rx # <<>>
  /\ rx' = Tail(rx)
  /\ looper' = Append(looper, Head(rx))
  /\ drain' = "testing"
  /\ UNCHANGED <<box, mutex, task, reported, call, passed, activity, handle,
                 draining, handled>>

\* It returns None, as the sender is gone: nNextEvent returns null.
ChannelClosed ==
  /\ drain = "receiving" /\ box = "closing"
  /\ task = "gone" /\ rx = <<>>
  /\ drain' = "stopped"
  /\ UNCHANGED <<ffiVars, activity, handle, draining, looper, handled>>

\* nNextEvent on a freed handle.
UndefinedReceive ==
  /\ box = "freed" /\ drain \in {"called", "receiving"}
  /\ \/ alive' = FALSE /\ UNCHANGED drain
     \/ alive' = alive /\ drain' = "stopped"
  /\ UNCHANGED <<ffiVars, activity, handle, draining, looper, handled>>

-----------------------------------------------------------------------------
\* Steps of the threads that nobody else has to cause.
MainStep ==
  \/ StartUp("init", "peer_id") \/ StartUp("peer_id", "bootstrap")
  \/ DrainEvents \/ Free
DrainStep == TestDraining \/ ReadHandle \/ Receive \/ PostEvent \/ ChannelClosed
TaskStep == (LockPeer \/ SendEvent) /\ UNCHANGED appVars
CallStep(t) == (BadArgument(t) \/ Wait(t) \/ Act(t)) /\ UNCHANGED appVars
Undefined == UndefinedReceive \/ \E t \in Thread : UndefinedCall(t)

Next ==
  /\ alive
  /\ \/ /\ \/ Open \/ OpenFails \/ Close \/ MainStep \/ DrainStep \/ TaskStep
           \/ ReportEvent /\ UNCHANGED appVars
           \/ \E t \in Thread : CallAction(t) \/ CallStep(t)
        /\ UNCHANGED alive
     \/ OpenAborts \/ OnEvent \/ Undefined

Spec == Init /\ [][Next]_vars

\* Every thread and the task run; an event need not come, a user need not click,
\* and a use of freed memory need not end.
Fairness ==
  /\ WF_vars(alive /\ MainStep /\ UNCHANGED alive)
  /\ WF_vars(alive /\ DrainStep /\ UNCHANGED alive)
  /\ WF_vars(alive /\ TaskStep /\ UNCHANGED alive)
  /\ \A t \in Thread : WF_vars(alive /\ CallStep(t) /\ UNCHANGED alive)
FairSpec == Spec /\ Fairness

-----------------------------------------------------------------------------
\* The event the task has in hand, as a sequence.
InHand == IF task = "sending" THEN <<reported>> ELSE <<>>

\* The variables hold values of the expected kinds; a thread is in the mutex's
\* queue exactly while it waits, and once; the task does not outlive its runtime.
TypeOK ==
  /\ box \in {"none", "live", "closing", "freed"}
  /\ mutex \in Seq(Thread \union {Task})
  /\ \A i, j \in DOMAIN mutex : mutex[i] = mutex[j] => i = j
  /\ \A t \in Thread : box # "freed" =>
       (call[t] = "waiting" <=> \E i \in DOMAIN mutex : mutex[i] = t)
  /\ task \in {"none", "unlocked", "locking", "sending", "gone"}
  /\ task = "locking" <=> \E i \in DOMAIN mutex : mutex[i] = Task
  /\ box \in {"closing", "freed"} => task = "gone"
  /\ reported \in 0..MaxEvents
  /\ rx \in Seq(1..MaxEvents) /\ looper \in Seq(1..MaxEvents)
  /\ handled \in Seq(1..MaxEvents)
  /\ call \in [Thread -> {"none", "called", "waiting"}]
  /\ passed \in [Thread -> Nat]
  /\ activity \in {"created", "init", "peer_id", "bootstrap", "running", "closing",
                   "destroyed"}
  /\ drain \in {"unstarted", "testing", "reading", "called", "receiving", "stopped"}
  /\ alive \in BOOLEAN /\ handle \in BOOLEAN /\ draining \in BOOLEAN

\* lib.rs, the event task: it keeps the peer locked while it waits, but lets it
\* go after each event; an action never has to wait for a second one.
OneEventAtMost == \A t \in Thread : passed[t] <= 1

\* Up to the time the handle is freed, what onEvent was given, what is posted,
\* what is in the channel and what the task is sending are, in this order, all
\* the events reported: none is lost, repeated or overtaken by another.
EventsInOrder ==
  box # "freed" /\ alive =>
    handled \o looper \o rx \o InHand = [n \in 1..reported |-> n]

\* An action that waits while an event is reported returns; it needs no other
\* event, unless the process ends or the handle is freed under it.
ActionReturns ==
  \A t \in Thread :
    (call[t] = "waiting" /\ passed[t] = 1) ~> (call[t] = "none" \/ box = "freed" \/ ~alive)

\* P2pvcNative.close: a drain thread that is not inside nNextEvent when the handle
\* is closed stops, without going there again, unless the process ends.  (One that
\* is inside uses the handle while it is freed.)
DrainStops ==
  [](activity = "closing" /\ drain \notin {"called", "receiving"}
       => <>(drain = "stopped" \/ ~alive))

=============================================================================
