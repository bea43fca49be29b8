----------------------------- MODULE SignalHub -----------------------------
(***************************************************************************)
(* Presence over the signaling hub: the hub (signal-hub.mjs) and its       *)
(* clients (signal-hub.ts).  A client's socket can break at any time; the  *)
(* two ends notice it each in its own time, so a client may be back with a *)
(* new socket before the hub has given up the old one.  Two clients may    *)
(* have the same id (a duplicated tab has a copy of its session storage).  *)
(*                                                                         *)
(* Relaying a signal and answering a ping change nothing the hub reads,    *)
(* and are left out; so are names.  Every socket is a pair of FIFO queues. *)
(***************************************************************************)
EXTENDS Naturals, Sequences, FiniteSets

CONSTANTS
  Client,     \* the browser tabs
  Id,         \* the peer ids
  IdOf,       \* IdOf[c]: the peer id of c
  MaxSockets, \* MaxSockets[c]: bound on the sockets c opens
  MaxRenames, \* bound on the renames
  MaxBreaks   \* bound on the connections that break

ASSUME HubAssumption ==
  /\ IdOf \in [Client -> Id]
  /\ MaxSockets \in [Client -> Nat] /\ MaxRenames \in Nat /\ MaxBreaks \in Nat

Socket == UNION {{c} \X (1..MaxSockets[c]) : c \in Client}
NoSocket == <<>>

VARIABLES
  client,   \* client[c]: "idle", "connecting", "open", "waiting" for the timer of
            \* onclose, "stopped"
  made,     \* made[c]: how many sockets c has opened; the last one is this.ws
  online,   \* online[c]: the peers c shows as online
  side,     \* side[s]: the hub's end of s: "none", "open", "closing", "closed"
  broken,   \* the sockets whose connection is gone
  up,       \* up[s]: what s carries to the hub
  down,     \* down[s]: what s carries to the client
  greeted,  \* the sockets whose handler has a peerId
  peers,    \* peers[i]: the socket of i in the hub's map
  renames   \* how many renames there were

vars == <<client, made, online, side, broken, up, down, greeted, peers, renames>>

IdOfSocket(s) == IdOf[s[1]]
Current(c) == <<c, made[c]>>
\* The client's end of s is open.
ClientEnd(s) == s = Current(s[1]) /\ client[s[1]] = "open"

Init ==
  /\ client = [c \in Client |-> "idle"]
  /\ made = [c \in Client |-> 0]
  /\ online = [c \in Client |-> {}]
  /\ side = [s \in Socket |-> "none"]
  /\ broken = {}
  /\ up = [s \in Socket |-> <<>>]
  /\ down = [s \in Socket |-> <<>>]
  /\ greeted = {}
  /\ peers = [i \in Id |-> NoSocket]
  /\ renames = 0

-----------------------------------------------------------------------------
(* The hub *)

Registered == {i \in Id : peers[i] # NoSocket}
Welcome(ids) == [type |-> "welcome", ids |-> ids]
Join(i) == [type |-> "peer-join", ids |-> {i}]
Leave(i) == [type |-> "peer-leave", ids |-> {i}]

\* broadcast, over the hub's map as it is afterwards: to every socket in it that
\* is open, but for i's own.  What the client has no end for any more is lost.
Broadcast(map, ends, queues, i, msg) ==
  [s \in Socket |->
     IF ends[s] = "open" /\ ClientEnd(s) /\ s \in {map[j] : j \in Id \ {i}}
       THEN Append(queues[s], msg) ELSE queues[s]]

\* hello: an older socket of the same id is closed.
OnHello(s) ==
  LET i == IdOfSocket(s)
      older == peers[i] \notin {NoSocket, s}
      ends == IF older /\ side[peers[i]] = "open"
                THEN [side EXCEPT ![peers[i]] = "closing"] ELSE side
      queues == IF side[s] = "open" /\ ClientEnd(s)
                  THEN [down EXCEPT ![s] = Append(@, Welcome(Registered \ {i}))] ELSE down
  IN /\ side' = ends
     /\ peers' = [peers EXCEPT ![i] = s]
     /\ greeted' = greeted \union {s}
     /\ down' = Broadcast(peers', ends, queues, i, Join(i))

OnRename(s) ==
  /\ down' = IF s \in greeted
               THEN Broadcast(peers, side, down, IdOfSocket(s), Join(IdOfSocket(s)))
               ELSE down
  /\ UNCHANGED <<side, peers, greeted>>

\* A message event, which a socket that is closing may still give.
HubMessage(s) ==
  /\ side[s] \in {"open", "closing"} /\ up[s] # <<>>
  /\ up' = [up EXCEPT ![s] = Tail(@)]
  /\ CASE Head(up[s]) = "hello"  -> OnHello(s)
       [] Head(up[s]) = "rename" -> OnRename(s)
  /\ UNCHANGED <<client, made, online, broken, renames>>

\* Mutant: whoever closes takes the entry along.
OnClose_AnySocket(s) ==
  IF s \in greeted
    THEN /\ peers' = [peers EXCEPT ![IdOfSocket(s)] = NoSocket]
         /\ down' = Broadcast(peers', side', down, IdOfSocket(s), Leave(IdOfSocket(s)))
    ELSE UNCHANGED <<peers, down>>

\* Mutant: the leave is announced, the entry kept.
OnClose_KeepsEntry(s) ==
  /\ down' = IF s \in greeted /\ peers[IdOfSocket(s)] = s
               THEN Broadcast(peers, side', down, IdOfSocket(s), Leave(IdOfSocket(s)))
               ELSE down
  /\ UNCHANGED peers

\* The close handler: only the socket in the map takes its entry along.
OnClose(s) ==
  IF s \in greeted /\ peers[IdOfSocket(s)] = s
    THEN /\ peers' = [peers EXCEPT ![IdOfSocket(s)] = NoSocket]
         /\ down' = Broadcast(peers', side', down, IdOfSocket(s), Leave(IdOfSocket(s)))
    ELSE UNCHANGED <<peers, down>>

\* A close event: the client has closed and all it sent has come, or the hub has
\* noticed that the connection is gone; what was still on the way is lost.
HubClosed(s) ==
  /\ side[s] \in {"open", "closing"}
  /\ s \in broken \/ (~ClientEnd(s) /\ up[s] = <<>>)
  /\ side' = [side EXCEPT ![s] = "closed"]
  /\ up' = [up EXCEPT ![s] = <<>>]
  /\ OnClose(s)
  /\ UNCHANGED <<client, made, online, broken, greeted, renames>>

-----------------------------------------------------------------------------
(* The clients *)

\* connect, of start or of the timer.
Connect(c) ==
  /\ client[c] \in {"idle", "waiting"} /\ made[c] < MaxSockets[c]
  /\ client' = [client EXCEPT ![c] = "connecting"]
  /\ made' = [made EXCEPT ![c] = @ + 1]
  /\ UNCHANGED <<online, side, broken, up, down, greeted, peers, renames>>

\* onopen
Opened(c) ==
  /\ client[c] = "connecting"
  /\ client' = [client EXCEPT ![c] = "open"]
  /\ side' = [side EXCEPT ![Current(c)] = "open"]
  /\ up' = [up EXCEPT ![Current(c)] = <<"hello">>]
  /\ UNCHANGED <<made, online, broken, down, greeted, peers, renames>>

ConnectFails(c) ==
  /\ client[c] = "connecting"
  /\ client' = [client EXCEPT ![c] = "waiting"]
  /\ UNCHANGED <<made, online, side, broken, up, down, greeted, peers, renames>>

\* Mutant: who leaves is not looked at.
ClientMessage_IgnoresLeave(c) ==
  LET s == Current(c)
  IN /\ client[c] = "open" /\ down[s] # <<>>
     /\ down' = [down EXCEPT ![s] = Tail(@)]
     /\ online' = [online EXCEPT ![c] = @ \union Head(down[s]).ids]
     /\ UNCHANGED <<client, made, side, broken, up, greeted, peers, renames>>

\* onmessage: welcome, peer-join, peer-leave.
ClientMessage(c) ==
  LET s == Current(c)
      msg == Head(down[s])
  IN /\ client[c] = "open" /\ down[s] # <<>>
     /\ down' = [down EXCEPT ![s] = Tail(@)]
     /\ online' = [online EXCEPT ![c] = IF msg.type = "peer-leave" THEN @ \ msg.ids
                                                                   ELSE @ \union msg.ids]
     /\ UNCHANGED <<client, made, side, broken, up, greeted, peers, renames>>

\* Mutant: the client waits for the user.
ClientClosed_NoTimer(c) ==
  /\ client[c] = "open"
  /\ Current(c) \in broken \/ (side[Current(c)] \in {"closing", "closed"} /\ down[Current(c)] = <<>>)
  /\ client' = [client EXCEPT ![c] = "closed"]
  /\ down' = [down EXCEPT ![Current(c)] = <<>>]
  /\ UNCHANGED <<made, online, side, broken, up, greeted, peers, renames>>

\* onclose: the connection is gone, or the hub has closed it.
ClientClosed(c) ==
  /\ client[c] = "open"
  /\ Current(c) \in broken \/ (side[Current(c)] \in {"closing", "closed"} /\ down[Current(c)] = <<>>)
  /\ client' = [client EXCEPT ![c] = "waiting"]
  /\ down' = [down EXCEPT ![Current(c)] = <<>>]
  /\ UNCHANGED <<made, online, side, broken, up, greeted, peers, renames>>

Rename(c) ==
  /\ client[c] = "open" /\ renames < MaxRenames
  /\ renames' = renames + 1
  /\ up' = [up EXCEPT ![Current(c)] = Append(@, "rename")]
  /\ UNCHANGED <<client, made, online, side, broken, down, greeted, peers>>

\* stop: the timer is cleared, the socket closed.
Stop(c) ==
  /\ client[c] # "stopped"
  /\ client' = [client EXCEPT ![c] = "stopped"]
  /\ down' = [s \in Socket |-> IF s[1] = c THEN <<>> ELSE down[s]]
  /\ UNCHANGED <<made, online, side, broken, up, greeted, peers, renames>>

\* External: the connection of a socket is gone.
Break(s) ==
  /\ s \notin broken /\ side[s] \in {"open", "closing"} /\ Cardinality(broken) < MaxBreaks
  /\ broken' = broken \union {s}
  /\ UNCHANGED <<client, made, online, side, up, down, greeted, peers, renames>>

-----------------------------------------------------------------------------
\* What happens without a user or a failure.
Progress ==
  \/ \E s \in Socket : HubMessage(s) \/ HubClosed(s)
  \/ \E c \in Client : Connect(c) \/ Opened(c) \/ ClientMessage(c) \/ ClientClosed(c)

Next ==
  \/ Progress
  \/ \E c \in Client : ConnectFails(c) \/ Rename(c) \/ Stop(c)
  \/ \E s \in Socket : Break(s)

Spec == Init /\ [][Next]_vars

\* Timers fire, the network delivers, both ends run.  Sockets and renames are
\* bounded, so fairness to all of it is fairness to each step.
FairSpec == Spec /\ WF_vars(Progress)

-----------------------------------------------------------------------------
Message == [type : {"welcome", "peer-join", "peer-leave"}, ids : SUBSET Id]

\* The variables hold values of the expected kinds, and the hub's map holds only
\* sockets of the peer that have said hello and are not closed.
TypeOK ==
  /\ client \in [Client -> {"idle", "connecting", "open", "waiting", "stopped"}]
  /\ made \in [Client -> Nat] /\ \A c \in Client : made[c] <= MaxSockets[c]
  /\ online \in [Client -> SUBSET Id]
  /\ side \in [Socket -> {"none", "open", "closing", "closed"}]
  /\ broken \subseteq Socket /\ greeted \subseteq Socket
  /\ up \in [Socket -> Seq({"hello", "rename"})]
  /\ down \in [Socket -> Seq(Message)]
  /\ \A i \in Registered :
       peers[i] \in greeted /\ IdOfSocket(peers[i]) = i /\ side[peers[i]] # "closed"
  /\ renames \in 0..MaxRenames

\* signal-hub.mjs, close: the end of an older socket does not take away the entry
\* of the one that superseded it.  A socket that said hello and is still open on
\* the hub's side is the one its peer is reached by.
OpenSocketIsRegistered ==
  \A s \in greeted : side[s] = "open" => peers[IdOfSocket(s)] = s

\* Nothing is on its way or waits to be noticed.
Quiet ==
  /\ \A s \in Socket :
       \/ side[s] \in {"none", "closed"}
       \/ side[s] = "open" /\ s \notin broken /\ ClientEnd(s) /\ up[s] = <<>> /\ down[s] = <<>>
  /\ \A c \in Client : client[c] # "connecting"
       /\ (client[c] = "open" => side[Current(c)] = "open" /\ Current(c) \notin broken)

\* signal-hub.ts: when all has been noticed, a connected client shows every peer of
\* the hub as online, and, if it never lost its socket, nobody else.  (A rename may
\* come from a socket that was superseded, after its peer has left: the hub then
\* announces a peer it does not have.  So the second part is for runs without one.)
PresenceWhenQuiet ==
  Quiet =>
    \A c \in Client : client[c] = "open" =>
      LET others == Registered \ {IdOf[c]}
      IN /\ others \subseteq online[c]
         /\ made[c] = 1 /\ renames = 0 => online[c] \ {IdOf[c]} = others

\* signal-hub.ts, onclose: a client that was started is, at whatever time, in the end
\* reached through the hub, over a connection that works, however often it lost one
\* or failed to connect before; unless it is stopped, or the last socket it may open
\* is lost too.
ClientComesBack ==
  \A c \in Client :
    []<>(\/ client[c] \in {"idle", "stopped"}
         \/ client[c] = "waiting" /\ made[c] = MaxSockets[c]
         \/ peers[IdOf[c]] = Current(c) /\ Current(c) \notin broken)

=============================================================================
