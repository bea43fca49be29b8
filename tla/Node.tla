-------------------------------- MODULE Node --------------------------------
(***************************************************************************)
(* A node of the network: processes that start on one identity file        *)
(* (Startup), and what one of them, Self, learns of other peers while it   *)
(* runs (Discovery).  All that was learnt is lost when it ends.            *)
(***************************************************************************)
EXTENDS Startup, Discovery

CONSTANT Self   \* the process that is looked at

ASSUME NodeAssumption == Self \in Process

vars == <<startupVars, discoveryVars>>

Init == StartupInit /\ DiscoveryInit

\* A process begins to listen; the node applies the rest of its configuration.
Run(p) ==
  /\ Listen(p)
  /\ IF p = Self THEN ApplyStartupConfig ELSE UNCHANGED discoveryVars

Stop(p) ==
  /\ Exit(p)
  /\ IF p = Self THEN DiscoveryReset ELSE UNCHANGED discoveryVars

\* The node's event loop.
Loop ==
  /\ pc[Self] = "running"
  /\ DiscoveryStep
  /\ UNCHANGED startupVars

Next ==
  \/ \E p \in Process : StartStep(p) /\ UNCHANGED discoveryVars
  \/ \E p \in Process : Run(p) \/ Stop(p)
  \/ Loop

Spec == Init /\ [][Next]_vars

\* Startup and Discovery hold values of the expected kinds, and a node that does
\* not run has no connections.
TypeOK ==
  /\ StartupTypeOK
  /\ DiscoveryTypeOK
  /\ pc[Self] # "running" => connected = {} /\ query = NoQuery

=============================================================================
