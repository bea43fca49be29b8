---------------------------- MODULE ChatService -----------------------------
(***************************************************************************)
(* What sending a chat message promises to the application, with nothing   *)
(* of how it is done: a message arrives at most once, gets at most one     *)
(* verdict, and is called delivered only when it has arrived.  A message   *)
(* called failed, or never spoken of again, may have arrived or may still. *)
(***************************************************************************)
CONSTANT Msg
VARIABLES
  arrived,  \* the messages handed to their destination's application
  verdict   \* verdict[m]: what the sending application knows of m

serviceVars == <<arrived, verdict>>

Init ==
  /\ arrived = {}
  /\ verdict = [m \in Msg |-> "unsent"]

Submit(m) ==
  /\ verdict[m] = "unsent"
  /\ verdict' = [verdict EXCEPT ![m] = "pending"]
  /\ UNCHANGED arrived

Arrive(m) ==
  /\ verdict[m] \in {"pending", "failed"}
  /\ m \notin arrived
  /\ arrived' = arrived \union {m}
  /\ UNCHANGED verdict

Confirm(m) ==
  /\ verdict[m] = "pending"
  /\ m \in arrived
  /\ verdict' = [verdict EXCEPT ![m] = "delivered"]
  /\ UNCHANGED arrived

Fail(m) ==
  /\ verdict[m] = "pending"
  /\ verdict' = [verdict EXCEPT ![m] = "failed"]
  /\ UNCHANGED arrived

\* Refused by the destination, or forgotten when the sending process ends.
Forget(S) ==
  /\ \A m \in S : verdict[m] = "pending"
  /\ verdict' = [m \in Msg |-> IF m \in S THEN "unknown" ELSE verdict[m]]
  /\ UNCHANGED arrived

Next ==
  \/ \E m \in Msg : Submit(m) \/ Arrive(m) \/ Confirm(m) \/ Fail(m)
  \/ \E S \in SUBSET Msg : Forget(S)

Spec == Init /\ [][Next]_serviceVars

=============================================================================
