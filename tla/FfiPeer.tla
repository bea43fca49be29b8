------------------------------ MODULE FfiPeer ------------------------------
(***************************************************************************)
(* The C interface to the Rust peer (android-ffi, lib.rs).  A PeerHandle   *)
(* on the heap owns a Tokio runtime, the peer behind a mutex, and the      *)
(* receiving end of an unbounded channel.  One task of the runtime locks   *)
(* the peer, waits for the next event with the peer locked, unlocks it and *)
(* sends the event.  Every other function borrows the handle from a raw    *)
(* pointer and locks the peer on the caller's thread.                      *)
(*                                                                         *)
(* Tokio's mutex serves its waiters in the order in which they came; it is *)
(* modelled as that queue, whose first element holds the lock.  Events     *)
(* that next_event swallows (translate_event returns None) leave the task  *)
(* where it is and are no step.  Events are numbered as they are reported. *)
(***************************************************************************)
EXTENDS Naturals, SequencesExt

CONSTANTS
  Thread,     \* the threads that call the interface, without the drain thread
  CallIn,     \* the numbers of the events that are CallMessageReceived
  MaxEvents   \* bound on the number of events reported

Task == "task"  \* the event task

ASSUME FfiAssumption ==
  /\ Task \notin Thread
  /\ MaxEvents \in Nat
  /\ CallIn \subseteq 1..MaxEvents

VARIABLES
  box,       \* the PeerHandle: "none", "live", "closing" (its runtime is gone),
             \* "freed"
  mutex,     \* who holds the peer's lock, and who waits for it, in order
  task,      \* the event task: "none", "unlocked", "locking" (it waits for the
             \* lock or, holding it, for an event), "sending", "gone"
  reported,  \* how many events next_event has returned to the task
  rx,        \* the channel's events
  call,      \* call[t]: "none", "called" with the pointer, "waiting" in the mutex
  passed     \* passed[t]: the events reported since t began to wait

ffiVars == <<box, mutex, task, reported, rx, call, passed>>

FfiInit ==
  /\ box = "none"
  /\ mutex = <<>>
  /\ task = "none"
  /\ reported = 0
  /\ rx = <<>>
  /\ call = [t \in Thread |-> "none"]
  /\ passed = [t \in Thread |-> 0]

-----------------------------------------------------------------------------
(* Conversions.  Only what decides whether a message is understood is kept: *)
(* the names at the top level of its JSON object.                           *)

Part == {"json", "listen_addrs", "bootstrap_peers", "relay_servers"}
Config == [Part -> {"absent", "wellformed", "malformed"}]

\* config_from_json: a part that is missing is left at its default, except the
\* text itself; one malformed entry fails the whole.
ConfigAccepted(cfg) ==
  /\ cfg["json"] = "wellformed"
  /\ \A part \in Part : cfg[part] # "malformed"

\* Event::tag: what an application tells events apart by.
Tag(n) == IF n \in CallIn THEN "call_in" ELSE "other"

\* event_to_json: the tag, and for a signaling message the names in its object,
\* of which serde writes one, that of the variant.
EventJson(n) ==
  [tag |-> Tag(n), message |-> IF n \in CallIn THEN {"CallRequest"} ELSE {}]

-----------------------------------------------------------------------------
\* p2pvc_init, when the configuration is accepted and the peer can be built.
PeerInit(cfg) ==
  /\ box = "none"
  /\ ConfigAccepted(cfg)
  /\ box' = "live"
  /\ task' = "unlocked"
  /\ UNCHANGED <<mutex, reported, rx, call, passed>>

\* Peer::new is called outside of the runtime that p2pvc_init has built, though it
\* asks for an active one.  Where it or libp2p needs one it panics, and a panic
\* that reaches an extern "C" function ends the process.
PeerPanics(cfg) ==
  /\ box = "none"
  /\ ConfigAccepted(cfg)
  /\ UNCHANGED ffiVars

\* Mutant: a lock without a queue, which the task takes again at once.
LockPeer_Barging ==
  /\ task = "unlocked"
  /\ task' = "locking"
  /\ mutex' = <<Task>> \o mutex
  /\ UNCHANGED <<box, reported, rx, call, passed>>

\* The event task: peer.lock().await.
LockPeer ==
  /\ task = "unlocked"
  /\ task' = "locking"
  /\ mutex' = Append(mutex, Task)
  /\ UNCHANGED <<box, reported, rx, call, passed>>

\* Mutant: the guard is kept for the whole loop.
ReportEvent_KeepsGuard ==
  /\ task = "locking" /\ Head(mutex) = Task
  /\ reported < MaxEvents
  /\ reported' = reported + 1
  /\ rx' = Append(rx, reported')
  /\ passed' = [t \in Thread |-> IF call[t] = "waiting" THEN passed[t] + 1 ELSE 0]
  /\ UNCHANGED <<box, mutex, task, call>>

\* next_event().await returns; the guard is dropped with the statement.
ReportEvent ==
  /\ task = "locking" /\ Head(mutex) = Task
  /\ reported < MaxEvents
  /\ reported' = reported + 1
  /\ task' = "sending"
  /\ mutex' = Tail(mutex)
  /\ passed' = [t \in Thread |-> IF call[t] = "waiting" THEN passed[t] + 1 ELSE 0]
  /\ UNCHANGED <<box, rx, call>>

\* Mutant: a channel for one event, and try_send.
SendEvent_Bounded ==
  /\ task = "sending"
  /\ rx' = IF rx = <<>> THEN <<reported>> ELSE rx
  /\ task' = "unlocked"
  /\ UNCHANGED <<box, mutex, reported, call, passed>>

\* tx.send(ev).
SendEvent ==
  /\ task = "sending"
  /\ rx' = Append(rx, reported)
  /\ task' = "unlocked"
  /\ UNCHANGED <<box, mutex, reported, call, passed>>

\* p2pvc_send_chat and the others: an argument does not parse, and the call
\* returns without having touched the peer.
BadArgument(t) ==
  /\ call[t] = "called"
  /\ call' = [call EXCEPT ![t] = "none"]
  /\ UNCHANGED <<box, mutex, task, reported, rx, passed>>

\* rt.block_on: the caller's thread gets in the mutex's queue.
Wait(t) ==
  /\ call[t] = "called" /\ box \in {"live", "closing"}
  /\ call' = [call EXCEPT ![t] = "waiting"]
  /\ passed' = [passed EXCEPT ![t] = 0]
  /\ mutex' = Append(mutex, t)
  /\ UNCHANGED <<box, task, reported, rx>>

\* The caller has the lock, uses the peer, unlocks it and returns.
Act(t) ==
  /\ call[t] = "waiting" /\ box \in {"live", "closing"} /\ Head(mutex) = t
  /\ call' = [call EXCEPT ![t] = "none"]
  /\ passed' = [passed EXCEPT ![t] = 0]
  /\ mutex' = Tail(mutex)
  /\ UNCHANGED <<box, task, reported, rx>>

\* Mutant: the task goes on without a runtime, and the channel stays open.
DropRuntime_Detached ==
  /\ box = "live" /\ task = "locking"
  /\ box' = "closing"
  /\ UNCHANGED <<mutex, task, reported, rx, call, passed>>

\* p2pvc_free drops the fields in their order.  The runtime goes first, once the
\* task is at a point where it waits; with the task go its place in the queue
\* and the sending end of the channel.
DropRuntime ==
  /\ box = "live" /\ task = "locking"
  /\ box' = "closing"
  /\ task' = "gone"
  /\ \E i \in DOMAIN mutex : mutex[i] = Task /\ mutex' = RemoveAt(mutex, i)
  /\ UNCHANGED <<reported, rx, call, passed>>

\* Then the peer and the channel; the memory is returned.
DropHandle ==
  /\ box = "closing"
  /\ box' = "freed"
  /\ rx' = <<>>
  /\ UNCHANGED <<mutex, task, reported, call, passed>>

=============================================================================
