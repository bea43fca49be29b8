-------------------------- MODULE SignalHubProofs --------------------------
(***************************************************************************)
(* Proofs about SignalHub, for any number of clients, ids and sockets.     *)
(*                                                                         *)
(* That an open socket is the registered one needs that a socket is opened *)
(* once only, before it has said hello: Fresh and Greeted say so.          *)
(***************************************************************************)
EXTENDS SignalHub, TLAPS

\* A socket still to be opened is not known to the hub; one being opened has a number.
Fresh ==
  \A c \in Client :
    /\ client[c] = "connecting" => made[c] >= 1
    /\ client[c] = "open" => made[c] >= 1
    /\ \A k \in 1..MaxSockets[c] :
         k > made[c] \/ (k = made[c] /\ client[c] = "connecting") => side[<<c, k>>] = "none"

\* Who has said hello was opened.
Greeted == \A s \in greeted : side[s] # "none"

\* The map holds sockets.
MapType == peers \in [Id -> Socket \union {NoSocket}]

HubInv == TypeOK /\ MapType /\ Fresh /\ Greeted /\ OpenSocketIsRegistered

-----------------------------------------------------------------------------
LEMMA SocketParts ==
  /\ \A s \in Socket : s[1] \in Client /\ s[2] \in 1..MaxSockets[s[1]] /\ s = <<s[1], s[2]>>
  /\ \A c \in Client : \A k \in 1..MaxSockets[c] :
       <<c, k>> \in Socket /\ <<c, k>>[1] = c /\ <<c, k>>[2] = k
  /\ NoSocket \notin Socket
BY DEF Socket, NoSocket

LEMMA IdOfSocketType == \A s \in Socket : IdOfSocket(s) \in Id
BY SocketParts, HubAssumption DEF IdOfSocket

\* The client's socket.
LEMMA CurrentType ==
  ASSUME TypeOK, NEW c \in Client, made[c] >= 1
  PROVE  /\ Current(c) \in Socket /\ Current(c)[1] = c /\ IdOfSocket(Current(c)) = IdOf[c]
         /\ Current(c) = <<c, made[c]>> /\ made[c] \in 1..MaxSockets[c]
<1>1. made[c] \in 1..MaxSockets[c]
  BY HubAssumption DEF TypeOK
<1> QED
  BY <1>1, SocketParts DEF Current, IdOfSocket

LEMMA BroadcastType ==
  ASSUME NEW map, NEW ends, NEW queues \in [Socket -> Seq(Message)], NEW i, NEW msg \in Message
  PROVE  Broadcast(map, ends, queues, i, msg) \in [Socket -> Seq(Message)]
BY DEF Broadcast

LEMMA InitInv == Init => HubInv
BY HubAssumption, SocketParts
   DEF Init, HubInv, TypeOK, MapType, Fresh, Greeted, OpenSocketIsRegistered, Registered

-----------------------------------------------------------------------------
\* hello: whoever was in the map is closing, or was not open.
LEMMA HelloKeeps ==
  ASSUME HubInv, NEW s \in Socket, side[s] \in {"open", "closing"}, OnHello(s),
         UNCHANGED <<client, made>>
  PROVE  /\ side' \in [Socket -> {"none", "open", "closing", "closed"}]
         /\ greeted' \subseteq Socket
         /\ down' \in [Socket -> Seq(Message)]
         /\ \A j \in Registered' :
              peers'[j] \in greeted' /\ IdOfSocket(peers'[j]) = j /\ side'[peers'[j]] # "closed"
         /\ MapType' /\ Fresh' /\ Greeted' /\ OpenSocketIsRegistered'
<1> DEFINE i == IdOfSocket(s)
<1>1. i \in Id
  BY IdOfSocketType
<1>2. /\ peers' = [peers EXCEPT ![i] = s]
      /\ greeted' = greeted \union {s}
      /\ side' = IF peers[i] \notin {NoSocket, s} /\ side[peers[i]] = "open"
                   THEN [side EXCEPT ![peers[i]] = "closing"] ELSE side
  BY DEF OnHello
<1>3. peers[i] \in Socket \union {NoSocket}
  BY <1>1 DEF HubInv, MapType
<1>4. /\ side' \in [Socket -> {"none", "open", "closing", "closed"}]
      /\ \A t \in Socket : /\ side'[t] \in {"none", "open", "closed"} => side'[t] = side[t]
                           /\ side'[t] = "closing" => side[t] \in {"open", "closing"}
                           /\ t = peers[i] /\ t # s => side'[t] # "open"
  BY <1>2, <1>3, SocketParts DEF HubInv, TypeOK
<1>5. greeted' \subseteq Socket
  BY <1>2 DEF HubInv, TypeOK
<1>6. MapType'
  BY <1>1, <1>2 DEF HubInv, MapType
<1>7. Fresh'
  BY <1>4, SocketParts DEF HubInv, Fresh
<1>8. Greeted'
  BY <1>2, <1>4 DEF HubInv, TypeOK, Greeted
<1>9. OpenSocketIsRegistered'
  <2> SUFFICES ASSUME NEW t \in greeted', side'[t] = "open"
               PROVE  peers'[IdOfSocket(t)] = t
    BY DEF OpenSocketIsRegistered, IdOfSocket
  <2>1. CASE t = s
    BY <1>1, <1>2, <2>1 DEF HubInv, MapType
  <2>2. CASE t # s
    <3>1. t \in greeted /\ t \in Socket /\ side[t] = "open"
      BY <1>2, <1>4, <1>5, <2>2
    <3>2. peers[IdOfSocket(t)] = t
      BY <3>1 DEF HubInv, OpenSocketIsRegistered
    <3>3. IdOfSocket(t) # i
      BY <1>4, <2>2, <3>1, <3>2
    <3> QED
      BY <1>2, <3>2, <3>3, <3>1, IdOfSocketType DEF HubInv, MapType
  <2> QED BY <2>1, <2>2
<1>10. \A j \in Registered' :
         peers'[j] \in greeted' /\ IdOfSocket(peers'[j]) = j /\ side'[peers'[j]] # "closed"
  <2> SUFFICES ASSUME NEW j \in Id, peers'[j] # NoSocket
               PROVE  peers'[j] \in greeted' /\ IdOfSocket(peers'[j]) = j
                      /\ side'[peers'[j]] # "closed"
    BY DEF Registered, IdOfSocket
  <2>1. CASE j = i
    BY <1>1, <1>2, <1>4, <2>1 DEF HubInv, MapType
  <2>2. CASE j # i
    <3>1. peers'[j] = peers[j]
      BY <1>2, <2>2 DEF HubInv, MapType
    <3>2. j \in Registered
      BY <3>1 DEF Registered
    <3> QED
      BY <1>2, <1>4, <3>1, <3>2 DEF HubInv, TypeOK
  <2> QED BY <2>1, <2>2
<1>11. down' \in [Socket -> Seq(Message)]
  <2>1. Welcome(Registered \ {i}) \in Message /\ Join(i) \in Message
    BY <1>1 DEF Welcome, Join, Message, Registered
  <2>2. (IF side[s] = "open" /\ ClientEnd(s)
           THEN [down EXCEPT ![s] = Append(@, Welcome(Registered \ {i}))] ELSE down)
        \in [Socket -> Seq(Message)]
    BY <2>1 DEF HubInv, TypeOK
  <2> QED
    BY <2>1, <2>2, BroadcastType DEF OnHello
<1> QED
  BY <1>4, <1>5, <1>6, <1>7, <1>8, <1>9, <1>10, <1>11

LEMMA HubMessageInv ==
  ASSUME HubInv, NEW s \in Socket, HubMessage(s)
  PROVE  HubInv'
<1>1. /\ side[s] \in {"open", "closing"}
      /\ UNCHANGED <<client, made, online, broken, renames>>
      /\ up' \in [Socket -> Seq({"hello", "rename"})]
      /\ Head(up[s]) \in {"hello", "rename"}
  BY DEF HubMessage, HubInv, TypeOK
<1>2. CASE OnHello(s)
  BY <1>1, <1>2, HelloKeeps DEF HubInv, TypeOK
<1>3. CASE OnRename(s)
  <2>1. UNCHANGED <<side, peers, greeted>>
    BY <1>3 DEF OnRename
  <2>2. Join(IdOfSocket(s)) \in Message
    BY IdOfSocketType DEF Join, Message
  <2>3. down' \in [Socket -> Seq(Message)]
    BY <1>3, <2>2, BroadcastType DEF OnRename, HubInv, TypeOK
  <2>4. Registered' = Registered
    BY <2>1 DEF Registered
  <2> QED
    BY <1>1, <2>1, <2>3, <2>4
       DEF HubInv, TypeOK, MapType, Fresh, Greeted, OpenSocketIsRegistered, IdOfSocket
<1>4. OnHello(s) \/ OnRename(s)
  BY <1>1 DEF HubMessage
<1> QED BY <1>2, <1>3, <1>4

\* close: an entry goes only with its own socket.
LEMMA HubClosedInv ==
  ASSUME HubInv, NEW s \in Socket, HubClosed(s)
  PROVE  HubInv'
<1> DEFINE i == IdOfSocket(s)
<1>1. i \in Id
  BY IdOfSocketType
<1>2. /\ side[s] \in {"open", "closing"}
      /\ side' = [side EXCEPT ![s] = "closed"]
      /\ UNCHANGED <<client, made, online, broken, greeted, renames>>
      /\ up' = [up EXCEPT ![s] = <<>>]
      /\ OnClose(s)
  BY DEF HubClosed
<1>3. /\ side' \in [Socket -> {"none", "open", "closing", "closed"}]
      /\ up' \in [Socket -> Seq({"hello", "rename"})]
  BY <1>2 DEF HubInv, TypeOK
<1>4. \A t \in Socket : IF t = s THEN side'[t] = "closed" ELSE side'[t] = side[t]
  BY <1>2 DEF HubInv, TypeOK
<1>5. peers' = IF s \in greeted /\ peers[i] = s THEN [peers EXCEPT ![i] = NoSocket] ELSE peers
  BY <1>2 DEF OnClose
<1>6. down' \in [Socket -> Seq(Message)]
  <2>1. Leave(i) \in Message
    BY <1>1 DEF Leave, Message
  <2>2. Broadcast(peers', side', down, i, Leave(i)) \in [Socket -> Seq(Message)]
    BY <2>1, BroadcastType DEF HubInv, TypeOK
  <2> QED
    BY <1>2, <2>2 DEF OnClose, HubInv, TypeOK
<1>7. MapType'
  BY <1>5 DEF HubInv, MapType
<1>8. Fresh'
  BY <1>2, <1>4, SocketParts DEF HubInv, Fresh
<1>9. Greeted'
  BY <1>2, <1>4 DEF HubInv, TypeOK, Greeted
<1>10. OpenSocketIsRegistered'
  <2> SUFFICES ASSUME NEW t \in greeted, side'[t] = "open"
               PROVE  peers'[IdOfSocket(t)] = t
    BY <1>2 DEF OpenSocketIsRegistered, IdOfSocket
  <2>1. t \in Socket /\ t # s /\ side[t] = "open"
    BY <1>4 DEF HubInv, TypeOK
  <2>2. peers[IdOfSocket(t)] = t
    BY <2>1 DEF HubInv, OpenSocketIsRegistered
  <2> QED
    BY <1>5, <2>1, <2>2, IdOfSocketType DEF HubInv, MapType
<1>11. \A j \in Registered' :
         peers'[j] \in greeted' /\ IdOfSocket(peers'[j]) = j /\ side'[peers'[j]] # "closed"
  <2> SUFFICES ASSUME NEW j \in Id, peers'[j] # NoSocket
               PROVE  peers'[j] \in greeted /\ IdOfSocket(peers'[j]) = j
                      /\ side'[peers'[j]] # "closed"
    BY <1>2 DEF Registered, IdOfSocket
  <2>1. peers'[j] = peers[j] /\ ~(j = i /\ s \in greeted /\ peers[i] = s)
    BY <1>1, <1>5 DEF HubInv, MapType
  <2>2. peers[j] \in greeted /\ IdOfSocket(peers[j]) = j /\ side[peers[j]] # "closed"
        /\ peers[j] \in Socket
    BY <2>1 DEF HubInv, TypeOK, Registered
  <2>3. peers[j] # s
    BY <2>1, <2>2
  <2> QED
    BY <1>4, <2>1, <2>2, <2>3
<1> QED
  BY <1>2, <1>3, <1>6, <1>7, <1>8, <1>9, <1>10, <1>11 DEF HubInv, TypeOK

-----------------------------------------------------------------------------
(* The clients.  None but Opened changes what the hub knows. *)

LEMMA HubUntouched ==
  ASSUME HubInv, UNCHANGED <<side, greeted, peers>>
  PROVE  /\ side' \in [Socket -> {"none", "open", "closing", "closed"}]
         /\ greeted' \subseteq Socket
         /\ \A j \in Registered' :
              peers'[j] \in greeted' /\ IdOfSocket(peers'[j]) = j /\ side'[peers'[j]] # "closed"
         /\ MapType' /\ Greeted' /\ OpenSocketIsRegistered'
<1>1. Registered' = Registered
  BY DEF Registered
<1> QED
  BY <1>1 DEF HubInv, TypeOK, MapType, Greeted, OpenSocketIsRegistered, IdOfSocket

LEMMA OpenedInv ==
  ASSUME HubInv, NEW c \in Client, Opened(c)
  PROVE  HubInv'
<1> DEFINE s == Current(c)
<1>1. made[c] >= 1
  BY DEF Opened, HubInv, Fresh
<1>2. s \in Socket /\ s = <<c, made[c]>> /\ made[c] \in 1..MaxSockets[c]
  BY <1>1, CurrentType DEF HubInv
<1>3. side[s] = "none"
  BY <1>2 DEF Opened, HubInv, Fresh
<1>4. /\ side' = [side EXCEPT ![s] = "open"]
      /\ up' = [up EXCEPT ![s] = <<"hello">>]
      /\ client' = [client EXCEPT ![c] = "open"]
      /\ UNCHANGED <<made, online, broken, down, greeted, peers, renames>>
  BY DEF Opened
<1>5. s \notin greeted
  BY <1>3 DEF HubInv, Greeted
<1>6. /\ side' \in [Socket -> {"none", "open", "closing", "closed"}]
      /\ \A t \in Socket : IF t = s THEN side'[t] = "open" ELSE side'[t] = side[t]
  BY <1>2, <1>4 DEF HubInv, TypeOK
<1>7. up' \in [Socket -> Seq({"hello", "rename"})]
  BY <1>2, <1>4 DEF HubInv, TypeOK
<1>8. /\ client' \in [Client -> {"idle", "connecting", "open", "waiting", "stopped"}]
      /\ \A d \in Client : IF d = c THEN client'[d] = "open" ELSE client'[d] = client[d]
  BY <1>4 DEF HubInv, TypeOK
<1>9. Fresh'
  <2> SUFFICES ASSUME NEW d \in Client
               PROVE  /\ client'[d] = "connecting" => made[d] >= 1
                      /\ client'[d] = "open" => made[d] >= 1
                      /\ \A k \in 1..MaxSockets[d] :
                           k > made[d] \/ (k = made[d] /\ client'[d] = "connecting")
                             => side'[<<d, k>>] = "none"
    BY <1>4 DEF Fresh
  <2>1. \A k \in 1..MaxSockets[d] :
          <<d, k>> \in Socket /\ (<<d, k>> = s => d = c /\ k = made[c])
    BY <1>2, SocketParts
  <2>2. made[d] \in Nat /\ MaxSockets[d] \in Nat
    BY HubAssumption DEF HubInv, TypeOK
  <2>3. CASE d = c
    <3>1. \A k \in 1..MaxSockets[d] :
            k > made[d] => <<d, k>> # s /\ side[<<d, k>>] = "none"
      BY <1>2, <2>1, <2>2, <2>3 DEF HubInv, Fresh
    <3> QED
      BY <1>1, <1>6, <1>8, <2>1, <2>3, <3>1
  <2>4. CASE d # c
    <3>1. client'[d] = client[d] /\ \A k \in 1..MaxSockets[d] : side'[<<d, k>>] = side[<<d, k>>]
      BY <1>6, <1>8, <2>1, <2>4
    <3> QED
      BY <2>2, <3>1 DEF HubInv, Fresh
  <2> QED BY <2>3, <2>4
<1>10. Greeted' /\ OpenSocketIsRegistered'
  BY <1>4, <1>5, <1>6 DEF HubInv, TypeOK, Greeted, OpenSocketIsRegistered, IdOfSocket
<1>11. Registered' = Registered
  BY <1>4 DEF Registered
<1>12. \A j \in Registered' :
         peers'[j] \in greeted' /\ IdOfSocket(peers'[j]) = j /\ side'[peers'[j]] # "closed"
  BY <1>4, <1>6, <1>11 DEF HubInv, TypeOK, IdOfSocket
<1> QED
  BY <1>4, <1>6, <1>7, <1>8, <1>9, <1>10, <1>12 DEF HubInv, TypeOK, MapType

\* Steps after which a client connects no more than before.
LEMMA FreshKept ==
  ASSUME HubInv, UNCHANGED <<side, made>>,
         \A c \in Client :
           client'[c] \in {"connecting", "open"} => client'[c] = client[c]
  PROVE  Fresh'
BY DEF HubInv, Fresh

LEMMA ClientInv ==
  ASSUME HubInv, NEW c \in Client,
         \/ Connect(c) \/ ConnectFails(c) \/ ClientMessage(c) \/ ClientClosed(c)
         \/ Rename(c) \/ Stop(c)
  PROVE  HubInv'
<1> USE HubAssumption
<1>1. CASE Connect(c)
  <2>1. UNCHANGED <<online, side, broken, up, down, greeted, peers, renames>>
    BY <1>1 DEF Connect
  <2>2. /\ client' \in [Client -> {"idle", "connecting", "open", "waiting", "stopped"}]
        /\ made' \in [Client -> Nat] /\ \A d \in Client : made'[d] <= MaxSockets[d]
        /\ \A d \in Client : IF d = c THEN client'[d] = "connecting" /\ made'[d] = made[d] + 1
                                      ELSE client'[d] = client[d] /\ made'[d] = made[d]
    BY <1>1 DEF Connect, HubInv, TypeOK
  <2>3. Fresh'
    <3> SUFFICES ASSUME NEW d \in Client
                 PROVE  /\ client'[d] \in {"connecting", "open"} => made'[d] >= 1
                        /\ \A k \in 1..MaxSockets[d] :
                             k > made'[d] \/ (k = made'[d] /\ client'[d] = "connecting")
                               => side[<<d, k>>] = "none"
      BY <2>1 DEF Fresh
    <3>1. made[d] \in Nat /\ MaxSockets[d] \in Nat
      BY DEF HubInv, TypeOK
    <3>2. CASE d = c
      BY <2>2, <3>1, <3>2 DEF HubInv, Fresh
    <3>3. CASE d # c
      BY <2>2, <3>1, <3>3 DEF HubInv, Fresh
    <3> QED BY <3>2, <3>3
  <2> QED
    BY <2>1, <2>2, <2>3, HubUntouched DEF HubInv, TypeOK
<1>2. CASE ConnectFails(c)
  <2>1. UNCHANGED <<made, online, side, broken, up, down, greeted, peers, renames>>
    BY <1>2 DEF ConnectFails
  <2>2. /\ client' \in [Client -> {"idle", "connecting", "open", "waiting", "stopped"}]
        /\ \A d \in Client : client'[d] \in {"connecting", "open"} => client'[d] = client[d]
    BY <1>2 DEF ConnectFails, HubInv, TypeOK
  <2>3. Fresh'
    BY <2>1, <2>2, FreshKept
  <2> QED
    BY <2>1, <2>2, <2>3, HubUntouched DEF HubInv, TypeOK
<1>3. CASE ClientMessage(c)
  <2>1. UNCHANGED <<client, made, side, broken, up, greeted, peers, renames>>
    BY <1>3 DEF ClientMessage
  <2>2. Current(c) \in Socket
    BY <1>3, CurrentType DEF ClientMessage, HubInv, Fresh
  <2>3. Head(down[Current(c)]) \in Message /\ down' \in [Socket -> Seq(Message)]
    BY <1>3, <2>2 DEF ClientMessage, HubInv, TypeOK
  <2>4. Head(down[Current(c)]).ids \subseteq Id
    BY <2>3 DEF Message
  <2>5. online' \in [Client -> SUBSET Id]
    BY <1>3, <2>4 DEF ClientMessage, HubInv, TypeOK
  <2>6. Fresh'
    BY <2>1, FreshKept
  <2> QED
    BY <2>1, <2>3, <2>5, <2>6, HubUntouched DEF HubInv, TypeOK
<1>4. CASE ClientClosed(c)
  <2>1. UNCHANGED <<made, online, side, broken, up, greeted, peers, renames>>
    BY <1>4 DEF ClientClosed
  <2>2. /\ client' \in [Client -> {"idle", "connecting", "open", "waiting", "stopped"}]
        /\ \A d \in Client : client'[d] \in {"connecting", "open"} => client'[d] = client[d]
    BY <1>4 DEF ClientClosed, HubInv, TypeOK
  <2>3. down' \in [Socket -> Seq(Message)]
    <3>1. down' = [down EXCEPT ![Current(c)] = <<>>] /\ <<>> \in Seq(Message)
      BY <1>4 DEF ClientClosed
    <3> QED
      BY <3>1 DEF HubInv, TypeOK
  <2>4. Fresh'
    BY <2>1, <2>2, FreshKept
  <2> QED
    BY <2>1, <2>2, <2>3, <2>4, HubUntouched DEF HubInv, TypeOK
<1>5. CASE Rename(c)
  <2>1. UNCHANGED <<client, made, online, side, broken, down, greeted, peers>>
    BY <1>5 DEF Rename
  <2>2. renames' \in 0..MaxRenames
    BY <1>5 DEF Rename, HubInv, TypeOK
  <2>3. Current(c) \in Socket
    BY <1>5, CurrentType DEF Rename, HubInv, Fresh
  <2>4. up' \in [Socket -> Seq({"hello", "rename"})]
    <3>1. up' = [up EXCEPT ![Current(c)] = Append(up[Current(c)], "rename")]
          /\ up[Current(c)] \in Seq({"hello", "rename"})
      BY <1>5, <2>3 DEF Rename, HubInv, TypeOK
    <3>2. Append(up[Current(c)], "rename") \in Seq({"hello", "rename"})
      BY <3>1
    <3> QED
      BY <3>1, <3>2 DEF HubInv, TypeOK
  <2>5. Fresh'
    BY <2>1, FreshKept
  <2> QED
    BY <2>1, <2>2, <2>4, <2>5, HubUntouched DEF HubInv, TypeOK
<1>6. CASE Stop(c)
  <2>1. UNCHANGED <<made, online, side, broken, up, greeted, peers, renames>>
    BY <1>6 DEF Stop
  <2>2. /\ client' \in [Client -> {"idle", "connecting", "open", "waiting", "stopped"}]
        /\ \A d \in Client : client'[d] \in {"connecting", "open"} => client'[d] = client[d]
    BY <1>6 DEF Stop, HubInv, TypeOK
  <2>3. down' \in [Socket -> Seq(Message)]
    BY <1>6 DEF Stop, HubInv, TypeOK
  <2>4. Fresh'
    BY <2>1, <2>2, FreshKept
  <2> QED
    BY <2>1, <2>2, <2>3, <2>4, HubUntouched DEF HubInv, TypeOK
<1> QED
  BY <1>1, <1>2, <1>3, <1>4, <1>5, <1>6

LEMMA HubStepInv == HubInv /\ [Next]_vars => HubInv'
<1> SUFFICES ASSUME HubInv, [Next]_vars PROVE HubInv'
  OBVIOUS
<1>1. ASSUME NEW s \in Socket, Break(s)
      PROVE  HubInv'
  <2>1. UNCHANGED <<client, made, online, side, up, down, greeted, peers, renames>>
        /\ broken' \subseteq Socket
    BY <1>1 DEF Break, HubInv, TypeOK
  <2>2. Fresh'
    BY <2>1, FreshKept
  <2> QED
    BY <2>1, <2>2, HubUntouched DEF HubInv, TypeOK
<1>2. CASE UNCHANGED vars
  <2>1. UNCHANGED <<client, made, online, side, broken, up, down, greeted, peers, renames>>
    BY <1>2 DEF vars
  <2>2. Fresh'
    BY <2>1, FreshKept
  <2> QED
    BY <2>1, <2>2, HubUntouched DEF HubInv, TypeOK
<1> QED
  BY <1>1, <1>2, HubMessageInv, HubClosedInv, OpenedInv, ClientInv DEF Next, Progress

LEMMA HubAlways == Spec => []HubInv
BY InitInv, HubStepInv, PTL DEF Spec

\* The hub and its clients hold values of the expected kinds, and the hub's map
\* holds only sockets of the peer that have said hello and are not closed.
THEOREM TypeCorrect == Spec => []TypeOK
<1>1. HubInv => TypeOK
  BY DEF HubInv
<1> QED BY <1>1, HubAlways, PTL

\* signal-hub.mjs, hello and close: of the sockets with one id that are open at the
\* hub, the one that said hello last is the one in the map; the end of any other
\* does not take it away.
THEOREM NewestSocketStays == Spec => []OpenSocketIsRegistered
<1>1. HubInv => OpenSocketIsRegistered
  BY DEF HubInv
<1> QED BY <1>1, HubAlways, PTL

-----------------------------------------------------------------------------
(* Presence: what a client will show once it has taken what its socket     *)
(* still carries is what the hub has.                                      *)

Leaves(msg, j) == msg.type = "peer-leave" /\ j \in msg.ids
Joins(msg, j) == msg.type # "peer-leave" /\ j \in msg.ids

\* Whether j is online for a client that shows the peers in shown, after the
\* messages in queue: some word that it is, and none later that it left.
WillShow(shown, queue, j) ==
  \E k \in 0..Len(queue) :
    /\ IF k = 0 THEN j \in shown ELSE Joins(queue[k], j)
    /\ \A l \in (k + 1)..Len(queue) : ~Leaves(queue[l], j)

\* c has a working socket, open at both ends, and has said hello.
Hears(c) ==
  client[c] = "open" /\ Current(c) \in greeted /\ side[Current(c)] = "open"

\* A socket says hello first, and carries nothing to the client before.
HelloFirst ==
  \A s \in Socket : s \notin greeted =>
    /\ down[s] = <<>>
    /\ side[s] \in {"open", "closing"} => up[s] # <<>> /\ Head(up[s]) = "hello"

\* A client shows nobody before its first socket has said hello.
StartsBlank ==
  \A c \in Client :
    made[c] = 0 \/ (made[c] = 1 /\ Current(c) \notin greeted) => online[c] = {}

\* Every peer of the hub will be shown, and with one socket and no rename, no
\* other.
ShowsAll ==
  \A c \in Client : Hears(c) =>
    \A j \in Registered \ {IdOf[c]} : WillShow(online[c], down[Current(c)], j)
ShowsOnly ==
  \A c \in Client : Hears(c) /\ made[c] = 1 /\ renames = 0 =>
    \A j \in Id \ {IdOf[c]} : WillShow(online[c], down[Current(c)], j) => j \in Registered

\* Without a rename, none is on its way.
OnlyHello == renames = 0 => \A s \in Socket : up[s] \in Seq({"hello"})

PresenceInv == HelloFirst /\ StartsBlank /\ ShowsAll /\ ShowsOnly /\ OnlyHello

\* What will be shown, for no message, one more at the end, and the first taken.
LEMMA WillShowEmpty ==
  ASSUME NEW shown, NEW j
  PROVE  WillShow(shown, <<>>, j) <=> j \in shown
BY DEF WillShow

LEMMA WillShowAppend ==
  ASSUME NEW shown, NEW queue \in Seq(Message), NEW msg \in Message, NEW j
  PROVE  WillShow(shown, Append(queue, msg), j)
           <=> Joins(msg, j) \/ (WillShow(shown, queue, j) /\ ~Leaves(msg, j))
<1> DEFINE longer == Append(queue, msg)
           n == Len(queue)
<1>1. /\ n \in Nat /\ Len(longer) = n + 1 /\ longer[n + 1] = msg
      /\ \A k \in 1..n : longer[k] = queue[k]
  OBVIOUS
<1> HIDE DEF longer
<1>2. ASSUME WillShow(shown, longer, j)
      PROVE  Joins(msg, j) \/ (WillShow(shown, queue, j) /\ ~Leaves(msg, j))
  <2>1. PICK k \in 0..(n + 1) :
          /\ IF k = 0 THEN j \in shown ELSE Joins(longer[k], j)
          /\ \A l \in (k + 1)..(n + 1) : ~Leaves(longer[l], j)
    BY <1>1, <1>2 DEF WillShow
  <2>2. CASE k = n + 1
    BY <1>1, <2>1, <2>2
  <2>3. CASE k # n + 1
    <3>1. k \in 0..n /\ n + 1 \in (k + 1)..(n + 1)
      BY <1>1, <2>1, <2>3
    <3>2. ~Leaves(msg, j)
      BY <1>1, <2>1, <3>1
    <3>3. IF k = 0 THEN j \in shown ELSE Joins(queue[k], j)
      BY <1>1, <2>1, <3>1
    <3>4. ASSUME NEW l \in (k + 1)..n
          PROVE  ~Leaves(queue[l], j)
      <4>1. l \in (k + 1)..(n + 1) /\ l \in 1..n
        BY <1>1, <3>1
      <4> QED BY <1>1, <2>1, <4>1
    <3> QED BY <3>1, <3>2, <3>3, <3>4 DEF WillShow
  <2> QED BY <2>2, <2>3
<1>3. ASSUME Joins(msg, j)
      PROVE  WillShow(shown, longer, j)
  <2>1. n + 1 \in 0..Len(longer) /\ n + 1 # 0
        /\ \A l \in (n + 2)..Len(longer) : FALSE
    BY <1>1
  <2> QED BY <1>1, <1>3, <2>1 DEF WillShow
<1>4. ASSUME WillShow(shown, queue, j), ~Leaves(msg, j)
      PROVE  WillShow(shown, longer, j)
  <2>1. PICK k \in 0..n :
          /\ IF k = 0 THEN j \in shown ELSE Joins(queue[k], j)
          /\ \A l \in (k + 1)..n : ~Leaves(queue[l], j)
    BY <1>4 DEF WillShow
  <2>2. k \in 0..Len(longer) /\ (IF k = 0 THEN j \in shown ELSE Joins(longer[k], j))
    BY <1>1, <2>1
  <2>3. ASSUME NEW l \in (k + 1)..Len(longer)
        PROVE  ~Leaves(longer[l], j)
    <3>1. l = n + 1 \/ (l \in (k + 1)..n /\ l \in 1..n)
      BY <1>1, <2>1
    <3> QED BY <1>1, <1>4, <2>1, <3>1
  <2> QED BY <2>2, <2>3 DEF WillShow
<1> QED BY <1>2, <1>3, <1>4 DEF longer

LEMMA WillShowTail ==
  ASSUME NEW shown, NEW queue \in Seq(Message), queue # <<>>, NEW j
  PROVE  WillShow(IF Head(queue).type = "peer-leave" THEN shown \ Head(queue).ids
                                                     ELSE shown \union Head(queue).ids,
                  Tail(queue), j)
           <=> WillShow(shown, queue, j)
<1> DEFINE first == Head(queue)
           next == IF first.type = "peer-leave" THEN shown \ first.ids
                                                ELSE shown \union first.ids
           rest == Tail(queue)
           n == Len(queue)
<1>1. /\ n \in Nat /\ n >= 1 /\ Len(rest) = n - 1 /\ first = queue[1]
      /\ \A k \in 1..(n - 1) : rest[k] = queue[k + 1]
  OBVIOUS
<1>2. j \in next <=> (j \in shown /\ ~Leaves(first, j)) \/ Joins(first, j)
  BY DEF Leaves, Joins
<1> HIDE DEF next, rest, first
<1>3. ASSUME WillShow(next, rest, j)
      PROVE  WillShow(shown, queue, j)
  <2>1. PICK k \in 0..(n - 1) :
          /\ IF k = 0 THEN j \in next ELSE Joins(rest[k], j)
          /\ \A l \in (k + 1)..(n - 1) : ~Leaves(rest[l], j)
    BY <1>1, <1>3 DEF WillShow
  <2>2. \A l \in (k + 2)..n : ~Leaves(queue[l], j)
    <3> SUFFICES ASSUME NEW l \in (k + 2)..n
                 PROVE  ~Leaves(queue[l], j)
      OBVIOUS
    <3>1. l - 1 \in (k + 1)..(n - 1) /\ l - 1 \in 1..(n - 1) /\ (l - 1) + 1 = l
      BY <1>1
    <3> QED BY <1>1, <2>1, <3>1
  <2>3. CASE k # 0
    <3>1. k + 1 \in 0..n /\ k + 1 # 0 /\ (k + 1) + 1 = k + 2 /\ Joins(queue[k + 1], j)
      BY <1>1, <2>1, <2>3
    <3> QED BY <2>2, <3>1 DEF WillShow
  <2>4. CASE k = 0 /\ Joins(first, j)
    <3>1. 1 \in 0..n /\ 1 # 0 /\ 1 + 1 = k + 2 /\ Joins(queue[1], j)
      BY <1>1, <2>4
    <3> QED BY <2>2, <3>1 DEF WillShow
  <2>5. CASE k = 0 /\ j \in shown /\ ~Leaves(first, j)
    <3>1. \A l \in (0 + 1)..n : l = 1 \/ l \in (k + 2)..n
      BY <1>1, <2>5
    <3>2. 0 \in 0..n /\ \A l \in (0 + 1)..n : ~Leaves(queue[l], j)
      BY <1>1, <2>2, <2>5, <3>1
    <3> QED BY <2>5, <3>2 DEF WillShow
  <2> QED BY <1>2, <2>1, <2>3, <2>4, <2>5
<1>4. ASSUME WillShow(shown, queue, j)
      PROVE  WillShow(next, rest, j)
  <2>1. PICK k \in 0..n :
          /\ IF k = 0 THEN j \in shown ELSE Joins(queue[k], j)
          /\ \A l \in (k + 1)..n : ~Leaves(queue[l], j)
    BY <1>4 DEF WillShow
  <2>2. CASE k \in {0, 1}
    <3>1. j \in next
      <4>1. CASE k = 0
        <5>1. 1 \in (k + 1)..n
          BY <1>1, <4>1
        <5> QED BY <1>1, <1>2, <2>1, <4>1, <5>1
      <4>2. CASE k = 1
        BY <1>1, <1>2, <2>1, <4>2
      <4> QED BY <2>2, <4>1, <4>2
    <3>2. ASSUME NEW l \in (0 + 1)..(n - 1)
          PROVE  ~Leaves(rest[l], j)
      <4>1. l + 1 \in (k + 1)..n /\ l \in 1..(n - 1)
        BY <1>1, <2>2
      <4> QED BY <1>1, <2>1, <4>1
    <3>3. 0 \in 0..(n - 1)
      BY <1>1
    <3> QED BY <1>1, <3>1, <3>2, <3>3 DEF WillShow
  <2>3. CASE k \notin {0, 1}
    <3>1. k - 1 \in 0..(n - 1) /\ k - 1 # 0 /\ k - 1 \in 1..(n - 1) /\ (k - 1) + 1 = k
      BY <1>1, <2>1, <2>3
    <3>2. Joins(rest[k - 1], j)
      BY <1>1, <2>1, <2>3, <3>1
    <3>3. ASSUME NEW l \in ((k - 1) + 1)..(n - 1)
          PROVE  ~Leaves(rest[l], j)
      <4>1. l + 1 \in (k + 1)..n /\ l \in 1..(n - 1)
        BY <1>1, <2>1, <2>3
      <4> QED BY <1>1, <2>1, <4>1
    <3> QED BY <1>1, <3>1, <3>2, <3>3 DEF WillShow
  <2> QED BY <2>2, <2>3
<1> QED BY <1>3, <1>4 DEF next, rest, first

\* Only sockets of other ids that are in the map and open at both ends hear of i.
Heard(map, ends, i, t) ==
  ends[t] = "open" /\ ClientEnd(t) /\ \E j \in Id \ {i} : t = map[j]

LEMMA BroadcastTo ==
  ASSUME NEW map, NEW ends, NEW queues, NEW i, NEW msg, NEW t \in Socket
  PROVE  Broadcast(map, ends, queues, i, msg)[t]
           = IF Heard(map, ends, i, t) THEN Append(queues[t], msg) ELSE queues[t]
BY DEF Broadcast, Heard

\* What a client that hears knows of itself.
LEMMA HearsParts ==
  ASSUME HubInv, NEW c \in Client, Hears(c)
  PROVE  /\ Current(c) \in Socket /\ Current(c)[1] = c /\ IdOfSocket(Current(c)) = IdOf[c]
         /\ IdOf[c] \in Id /\ peers[IdOf[c]] = Current(c) /\ made[c] >= 1
         /\ ClientEnd(Current(c))
<1>1. made[c] >= 1
  BY DEF HubInv, Fresh, Hears
<1>2. Current(c) \in Socket /\ Current(c)[1] = c /\ IdOfSocket(Current(c)) = IdOf[c]
  BY <1>1, CurrentType DEF HubInv
<1> QED BY <1>1, <1>2, HubAssumption DEF HubInv, OpenSocketIsRegistered, Hears, ClientEnd

\* Steps after which no client hears that did not, and nothing is said or taken.
LEMMA ShowsKept ==
  ASSUME PresenceInv, Registered' = Registered, renames' = 0 => renames = 0,
         \A c \in Client : Hears(c)' =>
           /\ Hears(c) /\ made'[c] = made[c] /\ online'[c] = online[c]
           /\ down'[Current(c)'] = down[Current(c)]
  PROVE  ShowsAll' /\ ShowsOnly'
BY DEF PresenceInv, ShowsAll, ShowsOnly

\* hello: the new socket is welcomed with all there are, the others hear of it.
LEMMA HelloPresence ==
  ASSUME HubInv, PresenceInv, HubInv', NEW s \in Socket, HubMessage(s), OnHello(s)
  PROVE  PresenceInv'
<1> DEFINE i == IdOfSocket(s)
           welcome == Welcome(Registered \ {i})
           queues == IF side[s] = "open" /\ ClientEnd(s)
                       THEN [down EXCEPT ![s] = Append(@, welcome)] ELSE down
<1>1. /\ i \in Id /\ peers' = [peers EXCEPT ![i] = s] /\ greeted' = greeted \union {s}
      /\ UNCHANGED <<client, made, online, broken, renames>>
      /\ up' = [up EXCEPT ![s] = Tail(@)] /\ up[s] # <<>>
      /\ side[s] \in {"open", "closing"}
  BY IdOfSocketType DEF HubMessage, OnHello
<1>2. /\ down \in [Socket -> Seq(Message)] /\ up \in [Socket -> Seq({"hello", "rename"})]
      /\ side \in [Socket -> {"none", "open", "closing", "closed"}]
      /\ peers \in [Id -> Socket \union {NoSocket}]
      /\ \A j \in Registered : IdOfSocket(peers[j]) = j
  BY DEF HubInv, TypeOK, MapType
<1>3. welcome \in Message /\ Join(i) \in Message
  BY <1>1 DEF Welcome, Join, Message, Registered
<1>4. Registered' = Registered \union {i}
  BY <1>1, <1>2, SocketParts DEF Registered
<1>5. \A t \in Socket : side'[t] = side[t] \/ (side'[t] = "closing" /\ side[t] = "open" /\ t = peers[i] /\ t # s)
  BY <1>2 DEF OnHello
<1>6. \A t \in Socket : down'[t] = IF Heard(peers', side', i, t) THEN Append(queues[t], Join(i))
                                                                  ELSE queues[t]
  <2>1. down' = Broadcast(peers', side', queues, i, Join(i))
    BY DEF OnHello
  <2> HIDE DEF queues
  <2> QED BY <2>1, BroadcastTo
<1>7. queues \in [Socket -> Seq(Message)]
      /\ \A t \in Socket :
           queues[t] = IF t = s /\ side[s] = "open" /\ ClientEnd(s) THEN Append(down[s], welcome)
                                                                     ELSE down[t]
  BY <1>2, <1>3
<1> HIDE DEF queues, welcome
<1>8. ~Heard(peers', side', i, s)
  <2> SUFFICES ASSUME NEW j \in Id \ {i}, s = peers'[j]
               PROVE  FALSE
    BY DEF Heard
  <2>1. s = peers[j] /\ j \in Registered
    BY <1>1, <1>2, SocketParts DEF Registered
  <2> QED BY <1>2, <2>1
<1>9. HelloFirst'
  <2> SUFFICES ASSUME NEW t \in Socket, t \notin greeted'
               PROVE  /\ down'[t] = <<>>
                      /\ side'[t] \in {"open", "closing"} => up'[t] # <<>> /\ Head(up'[t]) = "hello"
    BY DEF HelloFirst
  <2>1. t # s /\ t \notin greeted
    BY <1>1
  <2>2. ~Heard(peers', side', i, t)
    <3> SUFFICES ASSUME NEW j \in Id \ {i}, t = peers'[j]
                 PROVE  FALSE
      BY DEF Heard
    <3>1. j \in Registered'
      BY SocketParts DEF Registered
    <3> QED BY <3>1 DEF HubInv, TypeOK
  <2>3. up'[t] = up[t] /\ down'[t] = down[t]
    BY <1>1, <1>2, <1>6, <1>7, <2>1, <2>2
  <2>4. side'[t] \in {"open", "closing"} => side[t] \in {"open", "closing"}
    BY <1>5
  <2> QED BY <2>1, <2>3, <2>4 DEF PresenceInv, HelloFirst
<1>10. StartsBlank'
  BY <1>1 DEF PresenceInv, StartsBlank, Current
<1>11. OnlyHello'
  BY <1>1, <1>2 DEF PresenceInv, OnlyHello
<1>12. ASSUME NEW c \in Client, Hears(c)', NEW j \in Id, j # IdOf[c]
       PROVE  LET after == WillShow(online'[c], down'[Current(c)'], j)
              IN /\ j \in Registered' => after
                 /\ made'[c] = 1 /\ renames' = 0 /\ after => j \in Registered'
  <2> DEFINE t == Current(c)
             after == WillShow(online[c], down'[t], j)
  <2>1. /\ Current(c)' = t /\ t \in Socket /\ IdOfSocket(t) = IdOf[c] /\ peers'[IdOf[c]] = t
        /\ IdOf[c] \in Id
        /\ ClientEnd(t) /\ online'[c] = online[c] /\ made'[c] = made[c] /\ renames' = renames
        /\ t \in greeted' /\ client[c] = "open" /\ side'[t] = "open"
    <3>1. Current(c)' = t /\ online'[c] = online[c] /\ made'[c] = made[c] /\ renames' = renames
      BY <1>1 DEF Current
    <3>2. t \in greeted' /\ client[c] = "open" /\ side'[t] = "open"
      BY <1>1, <1>12, <3>1 DEF Hears
    <3>3. /\ made[c] >= 1 /\ t \in Socket /\ t[1] = c /\ IdOfSocket(t) = IdOf[c]
          /\ IdOf[c] \in Id
      BY <3>2, CurrentType, HubAssumption DEF HubInv, Fresh
    <3>4. peers'[IdOf[c]] = t
      BY <3>2, <3>3 DEF HubInv, OpenSocketIsRegistered, IdOfSocket
    <3> QED BY <3>1, <3>2, <3>3, <3>4 DEF ClientEnd
  <2>2. side[t] = "open"
    BY <1>5, <2>1
  <2>3. CASE t = s
    <3>1. down'[t] = Append(down[t], welcome)
      BY <1>6, <1>7, <1>8, <2>1, <2>2, <2>3
    <3>2. after <=> Joins(welcome, j) \/ (WillShow(online[c], down[t], j) /\ ~Leaves(welcome, j))
      BY <1>2, <1>3, <2>1, <3>1, WillShowAppend DEF welcome
    <3>3. IdOf[c] = i
      BY <2>1, <2>3
    <3>4. /\ ~Leaves(welcome, j)
          /\ Joins(welcome, j) <=> j \in Registered
      BY <1>12, <3>3 DEF welcome, Welcome, Leaves, Joins
    <3>5. j \in Registered' <=> j \in Registered
      BY <1>4, <1>12, <3>3
    <3>6. ASSUME made[c] = 1, renames = 0, WillShow(online[c], down[t], j)
          PROVE  j \in Registered
      <4>1. CASE t \in greeted
        BY <1>12, <2>1, <2>2, <3>6, <4>1 DEF PresenceInv, ShowsOnly, Hears
      <4>2. CASE t \notin greeted
        <5>1. down[t] = <<>> /\ online[c] = {}
          BY <2>1, <3>6, <4>2 DEF PresenceInv, HelloFirst, StartsBlank
        <5> QED BY <3>6, <5>1, WillShowEmpty
      <4> QED BY <4>1, <4>2
    <3> QED BY <2>1, <3>2, <3>4, <3>5, <3>6
  <2>4. CASE t # s
    <3>1. t \in greeted /\ Hears(c)
      BY <1>1, <2>1, <2>2, <2>4 DEF Hears
    <3>2. peers[IdOf[c]] = t
      BY <3>1, HearsParts
    <3>3. IdOf[c] # i
      BY <1>1, <1>2, <2>1, <2>4
    <3>4. Heard(peers', side', i, t)
      BY <2>1, <3>3 DEF Heard
    <3>5. down'[t] = Append(down[t], Join(i))
      BY <1>6, <1>7, <2>1, <2>4, <3>4
    <3>6. after <=> Joins(Join(i), j) \/ (WillShow(online[c], down[t], j) /\ ~Leaves(Join(i), j))
      BY <1>2, <1>3, <2>1, <3>5, WillShowAppend
    <3>7. ~Leaves(Join(i), j) /\ (Joins(Join(i), j) <=> j = i)
      BY DEF Join, Leaves, Joins
    <3>8. /\ j \in Registered => WillShow(online[c], down[t], j)
          /\ made[c] = 1 /\ renames = 0 /\ WillShow(online[c], down[t], j) => j \in Registered
      BY <1>12, <3>1 DEF PresenceInv, ShowsAll, ShowsOnly
    <3> QED BY <1>4, <2>1, <3>6, <3>7, <3>8
  <2> QED BY <2>3, <2>4
<1>13. ShowsAll' /\ ShowsOnly'
  BY <1>12 DEF ShowsAll, ShowsOnly, Registered
<1> QED BY <1>9, <1>10, <1>11, <1>13 DEF PresenceInv

\* rename: whoever hears, is told once more of a peer that it has or had.
LEMMA RenamePresence ==
  ASSUME HubInv, PresenceInv, NEW s \in Socket, HubMessage(s), OnRename(s), Head(up[s]) = "rename"
  PROVE  PresenceInv'
<1> DEFINE i == IdOfSocket(s)
<1>1. /\ i \in Id /\ UNCHANGED <<client, made, online, broken, renames, side, peers, greeted>>
      /\ up' = [up EXCEPT ![s] = Tail(@)] /\ up[s] # <<>>
  BY IdOfSocketType DEF HubMessage, OnRename
<1>2. /\ down \in [Socket -> Seq(Message)] /\ up \in [Socket -> Seq({"hello", "rename"})]
      /\ Join(i) \in Message
  BY <1>1 DEF HubInv, TypeOK, Join, Message
<1>3. renames # 0
  BY <1>1 DEF PresenceInv, OnlyHello
<1>4. \A t \in Socket :
        /\ down'[t] \in {down[t], Append(down[t], Join(i))}
        /\ t \notin greeted => down'[t] = down[t]
  <2>1. CASE s \in greeted
    <3>1. down' = Broadcast(peers, side, down, i, Join(i))
      BY <2>1 DEF OnRename
    <3>2. \A t \in Socket : t \notin greeted => ~Heard(peers, side, i, t)
      BY SocketParts DEF Heard, HubInv, TypeOK, Registered
    <3>3. \A t \in Socket :
            down'[t] = IF Heard(peers, side, i, t) THEN Append(down[t], Join(i)) ELSE down[t]
      <4> HIDE DEF i
      <4> QED BY <3>1, BroadcastTo
    <3> QED BY <3>2, <3>3
  <2>2. CASE s \notin greeted
    BY <2>2 DEF OnRename
  <2> QED BY <2>1, <2>2
<1>5. HelloFirst'
  <2> SUFFICES ASSUME NEW t \in Socket, t \notin greeted
               PROVE  /\ down'[t] = <<>>
                      /\ side[t] \in {"open", "closing"} => up'[t] # <<>> /\ Head(up'[t]) = "hello"
    BY <1>1 DEF HelloFirst
  <2>1. side[t] \in {"open", "closing"} => t # s
    BY DEF PresenceInv, HelloFirst
  <2> QED BY <1>1, <1>2, <1>4, <2>1 DEF PresenceInv, HelloFirst, HubMessage
<1>6. StartsBlank' /\ OnlyHello' /\ ShowsOnly'
  BY <1>1, <1>3 DEF PresenceInv, StartsBlank, OnlyHello, ShowsOnly, Current
<1>7. ShowsAll'
  <2> SUFFICES ASSUME NEW c \in Client, Hears(c), NEW j \in Registered \ {IdOf[c]}
               PROVE  WillShow(online[c], down'[Current(c)], j)
    BY <1>1 DEF ShowsAll, Hears, Registered, Current
  <2>1. WillShow(online[c], down[Current(c)], j) /\ Current(c) \in Socket
    BY HearsParts DEF PresenceInv, ShowsAll
  <2>2. ~Leaves(Join(i), j)
    BY DEF Join, Leaves
  <2>3. WillShow(online[c], Append(down[Current(c)], Join(i)), j)
    BY <1>2, <2>1, <2>2, WillShowAppend
  <2> QED BY <1>4, <2>1, <2>3
<1> QED BY <1>5, <1>6, <1>7 DEF PresenceInv

\* close: whoever hears, hears of a peer that is gone.
LEMMA ClosedPresence ==
  ASSUME HubInv, PresenceInv, NEW s \in Socket, HubClosed(s)
  PROVE  PresenceInv'
<1> DEFINE i == IdOfSocket(s)
           gone == s \in greeted /\ peers[i] = s
<1>1. /\ i \in Id /\ UNCHANGED <<client, made, online, broken, greeted, renames>>
      /\ up' = [up EXCEPT ![s] = <<>>] /\ side' = [side EXCEPT ![s] = "closed"]
      /\ OnClose(s)
  BY IdOfSocketType DEF HubClosed
<1>2. /\ down \in [Socket -> Seq(Message)] /\ up \in [Socket -> Seq({"hello", "rename"})]
      /\ side \in [Socket -> {"none", "open", "closing", "closed"}]
      /\ peers \in [Id -> Socket \union {NoSocket}]
      /\ Leave(i) \in Message
  BY <1>1 DEF HubInv, TypeOK, MapType, Leave, Message
<1>3. \A t \in Socket : side'[t] = IF t = s THEN "closed" ELSE side[t]
  BY <1>1, <1>2
<1>4. /\ gone => peers' = [peers EXCEPT ![i] = NoSocket]
      /\ ~gone => peers' = peers /\ down' = down
  BY <1>1 DEF OnClose
<1>5. gone => \A t \in Socket :
        down'[t] = IF Heard(peers', side', i, t) THEN Append(down[t], Leave(i)) ELSE down[t]
  <2> SUFFICES ASSUME gone
               PROVE  down' = Broadcast(peers', side', down, i, Leave(i))
    BY BroadcastTo
  <2> QED BY <1>1 DEF OnClose
<1>6. Registered' = IF gone THEN Registered \ {i} ELSE Registered
  <2>1. CASE gone
    BY <1>1, <1>2, <1>4, <2>1 DEF Registered
  <2>2. CASE ~gone
    BY <1>4, <2>2 DEF Registered
  <2> QED BY <2>1, <2>2
<1> HIDE DEF gone
<1>7. \A t \in Socket : t \notin greeted => down'[t] = down[t]
  <2> SUFFICES ASSUME NEW t \in Socket, t \notin greeted, gone, NEW j \in Id \ {i}, t = peers'[j]
               PROVE  FALSE
    BY <1>4, <1>5 DEF Heard
  <2>1. t = peers[j] /\ j \in Registered
    BY <1>2, <1>4, SocketParts DEF Registered
  <2> QED BY <2>1 DEF HubInv, TypeOK
<1>8. HelloFirst'
  BY <1>1, <1>2, <1>3, <1>7 DEF PresenceInv, HelloFirst
<1>9. StartsBlank' /\ OnlyHello'
  <2>1. <<>> \in Seq({"hello"})
    OBVIOUS
  <2>2. \A t \in Socket : up'[t] = up[t] \/ up'[t] = <<>>
    BY <1>1, <1>2
  <2> QED BY <1>1, <2>1, <2>2 DEF PresenceInv, StartsBlank, OnlyHello, Current
<1>10. ASSUME NEW c \in Client, Hears(c)', NEW j \in Id, j # IdOf[c]
       PROVE  LET after == WillShow(online'[c], down'[Current(c)'], j)
              IN /\ j \in Registered' => after
                 /\ made'[c] = 1 /\ renames' = 0 /\ after => j \in Registered'
  <2> DEFINE t == Current(c)
  <2>1. Current(c)' = t /\ online'[c] = online[c] /\ made'[c] = made[c] /\ renames' = renames
    BY <1>1 DEF Current
  <2>2. t \in greeted /\ client[c] = "open" /\ side'[t] = "open"
    BY <1>1, <1>10, <2>1 DEF Hears
  <2>3. t \in Socket
    BY <2>2 DEF HubInv, TypeOK
  <2>4. t # s /\ Hears(c)
    BY <1>3, <2>2, <2>3 DEF Hears
  <2>5. /\ IdOf[c] \in Id /\ peers[IdOf[c]] = t /\ ClientEnd(t)
    BY <2>4, HearsParts
  <2>6. /\ j \in Registered => WillShow(online[c], down[t], j)
        /\ made[c] = 1 /\ renames = 0 /\ WillShow(online[c], down[t], j) => j \in Registered
    BY <1>10, <2>4 DEF PresenceInv, ShowsAll, ShowsOnly
  <2>7. CASE ~gone
    BY <1>4, <1>6, <2>1, <2>6, <2>7
  <2>8. CASE gone
    <3>1. IdOf[c] # i
      BY <2>4, <2>5, <2>8 DEF gone
    <3>2. peers'[IdOf[c]] = t
      BY <1>2, <1>4, <2>5, <2>8, <3>1
    <3>3. Heard(peers', side', i, t)
      BY <2>2, <2>5, <3>1, <3>2 DEF Heard
    <3>4. down'[t] = Append(down[t], Leave(i))
      BY <1>5, <2>3, <2>8, <3>3
    <3>5. WillShow(online[c], down'[t], j)
            <=> Joins(Leave(i), j) \/ (WillShow(online[c], down[t], j) /\ ~Leaves(Leave(i), j))
      BY <1>2, <2>3, <3>4, WillShowAppend
    <3>6. ~Joins(Leave(i), j) /\ (Leaves(Leave(i), j) <=> j = i)
      BY DEF Leave, Leaves, Joins
    <3> QED BY <1>6, <2>1, <2>6, <2>8, <3>5, <3>6
  <2> QED BY <2>7, <2>8
<1>11. ShowsAll' /\ ShowsOnly'
  BY <1>10 DEF ShowsAll, ShowsOnly, Registered
<1> QED BY <1>8, <1>9, <1>11 DEF PresenceInv

\* A client takes a message.
LEMMA ClientMessagePresence ==
  ASSUME HubInv, PresenceInv, NEW c \in Client, ClientMessage(c)
  PROVE  PresenceInv'
<1> DEFINE s == Current(c)
<1>1. /\ UNCHANGED <<client, made, side, broken, up, greeted, peers, renames>>
      /\ client[c] = "open" /\ down[s] # <<>>
      /\ down' = [down EXCEPT ![s] = Tail(@)]
      /\ online' = [online EXCEPT ![c] = IF Head(down[s]).type = "peer-leave"
                                           THEN @ \ Head(down[s]).ids
                                           ELSE @ \union Head(down[s]).ids]
  BY DEF ClientMessage
<1>2. /\ down \in [Socket -> Seq(Message)] /\ online \in [Client -> SUBSET Id]
      /\ s \in Socket /\ s[1] = c
  BY <1>1, CurrentType DEF HubInv, TypeOK, Fresh
<1>3. s \in greeted
  BY <1>1, <1>2 DEF PresenceInv, HelloFirst
<1>4. \A d \in Client : d # c => Current(d) # s /\ online'[d] = online[d]
  BY <1>1, <1>2 DEF Current
<1>5. HelloFirst' /\ OnlyHello'
  BY <1>1, <1>2, <1>3 DEF PresenceInv, HelloFirst, OnlyHello
<1>6. StartsBlank'
  <2>1. made[c] # 0
    BY <1>1, SocketParts DEF HubInv, Fresh
  <2> QED BY <1>1, <1>3, <1>4, <2>1 DEF PresenceInv, StartsBlank, Current
<1>7. ASSUME NEW d \in Client, Hears(d), NEW j
      PROVE  WillShow(online'[d], down'[Current(d)], j) <=> WillShow(online[d], down[Current(d)], j)
  <2>1. Current(d) \in Socket
    BY <1>7, HearsParts
  <2>2. CASE d = c
    <3>1. down'[s] = Tail(down[s]) /\ down[s] \in Seq(Message)
          /\ online'[c] = IF Head(down[s]).type = "peer-leave"
                            THEN online[c] \ Head(down[s]).ids
                            ELSE online[c] \union Head(down[s]).ids
      BY <1>1, <1>2
    <3> DEFINE queue == down[s]
               next == IF Head(queue).type = "peer-leave" THEN online[c] \ Head(queue).ids
                                                          ELSE online[c] \union Head(queue).ids
    <3>2. queue \in Seq(Message) /\ queue # <<>> /\ down'[s] = Tail(queue) /\ online'[c] = next
      BY <1>1, <3>1
    <3>3. WillShow(next, Tail(queue), j) <=> WillShow(online[c], queue, j)
      <4> HIDE DEF s
      <4> QED BY <3>2, WillShowTail
    <3> HIDE DEF next
    <3> QED BY <2>2, <3>2, <3>3
  <2>3. CASE d # c
    BY <1>1, <1>2, <1>4, <2>1, <2>3
  <2> QED BY <2>2, <2>3
<1>8. \A d \in Client : (Hears(d)' <=> Hears(d)) /\ Current(d)' = Current(d)
  BY <1>1 DEF Hears, Current
<1>9. Registered' = Registered
  BY <1>1 DEF Registered
<1>10. ShowsAll' /\ ShowsOnly'
  BY <1>1, <1>7, <1>8, <1>9 DEF PresenceInv, ShowsAll, ShowsOnly
<1> QED BY <1>5, <1>6, <1>10 DEF PresenceInv

\* Sockets that come and go at the client, and renames.
LEMMA ClientPresence ==
  ASSUME HubInv, PresenceInv, NEW c \in Client,
         Connect(c) \/ Opened(c) \/ ConnectFails(c) \/ ClientClosed(c) \/ Rename(c) \/ Stop(c)
  PROVE  PresenceInv'
<1>0. /\ client \in [Client -> {"idle", "connecting", "open", "waiting", "stopped"}]
      /\ made \in [Client -> Nat] /\ online \in [Client -> SUBSET Id]
      /\ side \in [Socket -> {"none", "open", "closing", "closed"}]
      /\ up \in [Socket -> Seq({"hello", "rename"})] /\ down \in [Socket -> Seq(Message)]
      /\ renames \in Nat
  BY HubAssumption DEF HubInv, TypeOK
<1>1. UNCHANGED <<online, greeted, peers>> /\ Registered' = Registered
  BY DEF Connect, Opened, ConnectFails, ClientClosed, Rename, Stop, Registered
<1>2. \A d \in Client : d # c => client'[d] = client[d] /\ made'[d] = made[d]
  BY <1>0 DEF Connect, Opened, ConnectFails, ClientClosed, Rename, Stop
<1>3. \A t \in Socket : t[1] # c => UNCHANGED <<side[t], up[t], down[t]>>
  BY <1>0, SocketParts DEF Connect, Opened, ConnectFails, ClientClosed, Rename, Stop, Current
<1>4. /\ client'[c] = "open" => /\ client[c] = "open" \/ Opened(c)
                                /\ made'[c] = made[c] /\ down' = down
      /\ ~Opened(c) => side' = side
      /\ renames' = 0 => renames = 0
  BY <1>0 DEF Connect, Opened, ConnectFails, ClientClosed, Rename, Stop
<1>5. Opened(c) => Current(c) \in Socket /\ Current(c) \notin greeted /\ side[Current(c)] = "none"
                   /\ Current(c) = <<c, made[c]>> /\ made' = made
  <2> SUFFICES ASSUME Opened(c)
               PROVE  Current(c) \in Socket /\ Current(c) \notin greeted /\ side[Current(c)] = "none"
                      /\ Current(c) = <<c, made[c]>> /\ made' = made
    OBVIOUS
  <2>1. made[c] >= 1 /\ client[c] = "connecting" /\ made' = made
    BY DEF Opened, HubInv, Fresh
  <2>2. Current(c) \in Socket /\ Current(c) = <<c, made[c]>> /\ made[c] \in 1..MaxSockets[c]
    BY <2>1, CurrentType DEF HubInv
  <2>3. side[Current(c)] = "none"
    BY <2>1, <2>2 DEF HubInv, Fresh
  <2> QED BY <2>1, <2>2, <2>3 DEF HubInv, Greeted
<1>6. ASSUME NEW d \in Client, Hears(d)'
      PROVE  /\ Hears(d) /\ made'[d] = made[d] /\ online'[d] = online[d]
             /\ down'[Current(d)'] = down[Current(d)]
  <2>1. client'[d] = "open" /\ Current(d)' \in greeted /\ side'[Current(d)'] = "open"
    BY <1>1, <1>6 DEF Hears
  <2>2. CASE d = c
    <3>1. ~Opened(c)
      BY <1>5, <2>1, <2>2 DEF Current
    <3> QED BY <1>1, <1>4, <2>1, <2>2, <3>1 DEF Hears, Current
  <2>3. CASE d # c
    <3>1. Current(d)' = Current(d) /\ Current(d)[1] = d
      BY <1>2, <2>3 DEF Current
    <3>2. Current(d) \in Socket
      BY <2>1, <3>1 DEF HubInv, TypeOK
    <3> QED BY <1>1, <1>2, <1>3, <2>1, <2>3, <3>1, <3>2 DEF Hears
  <2> QED BY <2>2, <2>3
<1>7. ShowsAll' /\ ShowsOnly'
  BY <1>1, <1>4, <1>6, ShowsKept
<1>8. HelloFirst'
  <2> SUFFICES ASSUME NEW t \in Socket, t \notin greeted
               PROVE  /\ down'[t] = <<>>
                      /\ side'[t] \in {"open", "closing"} => up'[t] # <<>> /\ Head(up'[t]) = "hello"
    BY <1>1 DEF HelloFirst
  <2>1. /\ down[t] = <<>>
        /\ side[t] \in {"open", "closing"} => up[t] # <<>> /\ Head(up[t]) = "hello"
    BY DEF PresenceInv, HelloFirst
  <2>2. down'[t] = <<>>
    BY <1>0, <2>1 DEF Connect, Opened, ConnectFails, ClientClosed, Rename, Stop
  <2>3. CASE Opened(c)
    BY <1>0, <2>1, <2>2, <2>3 DEF Opened
  <2>4. CASE Rename(c)
    <3>1. side' = side /\ up' = [up EXCEPT ![Current(c)] = Append(@, "rename")]
      BY <2>4 DEF Rename
    <3>2. ASSUME NEW q \in Seq({"hello", "rename"}), q # <<>>
          PROVE  Append(q, "rename") # <<>> /\ Head(Append(q, "rename")) = Head(q)
      BY <3>2
    <3>3. up'[t] = up[t] \/ up'[t] = Append(up[t], "rename")
      BY <1>0, <3>1
    <3>4. up[t] \in Seq({"hello", "rename"})
      BY <1>0
    <3> QED BY <2>1, <2>2, <3>1, <3>2, <3>3, <3>4
  <2>5. CASE Connect(c) \/ ConnectFails(c) \/ ClientClosed(c) \/ Stop(c)
    BY <2>1, <2>2, <2>5 DEF Connect, ConnectFails, ClientClosed, Stop
  <2> QED BY <2>3, <2>4, <2>5
<1>9. StartsBlank'
  <2>1. CASE Connect(c)
    <3>1. made' = [made EXCEPT ![c] = @ + 1]
      BY <2>1 DEF Connect
    <3>2. ASSUME NEW d \in Client, d # c
          PROVE  Current(d)' = Current(d) /\ made'[d] = made[d]
      BY <1>0, <3>1, <3>2 DEF Current
    <3>3. made'[c] = made[c] + 1 /\ made[c] \in Nat
      BY <1>0, <3>1
    <3>4. ASSUME NEW d \in Client, made'[d] = 0 \/ (made'[d] = 1 /\ Current(d)' \notin greeted)
          PROVE  online[d] = {}
      <4>1. CASE d = c
        BY <3>3, <3>4, <4>1 DEF PresenceInv, StartsBlank
      <4>2. CASE d # c
        BY <3>2, <3>4, <4>2 DEF PresenceInv, StartsBlank
      <4> QED BY <4>1, <4>2
    <3> QED BY <1>1, <3>4 DEF StartsBlank
  <2>2. CASE ~Connect(c)
    <3>1. made' = made
      BY <2>2 DEF Opened, ConnectFails, ClientClosed, Rename, Stop
    <3> QED BY <1>1, <3>1 DEF PresenceInv, StartsBlank, Current
  <2> QED BY <2>1, <2>2
<1>10. OnlyHello'
  <2>1. CASE Rename(c)
    BY <1>0, <2>1 DEF Rename, OnlyHello
  <2>2. CASE Opened(c)
    <3>1. <<"hello">> \in Seq({"hello"})
      OBVIOUS
    <3> QED BY <1>0, <2>2, <3>1 DEF Opened, PresenceInv, OnlyHello
  <2>3. CASE Connect(c) \/ ConnectFails(c) \/ ClientClosed(c) \/ Stop(c)
    BY <2>3 DEF Connect, ConnectFails, ClientClosed, Stop, PresenceInv, OnlyHello
  <2> QED BY <2>1, <2>2, <2>3
<1> QED BY <1>7, <1>8, <1>9, <1>10 DEF PresenceInv

\* Every step keeps what will be shown right.
LEMMA PresenceStep == HubInv /\ HubInv' /\ PresenceInv /\ [Next]_vars => PresenceInv'
<1> SUFFICES ASSUME HubInv, HubInv', PresenceInv, [Next]_vars
             PROVE  PresenceInv'
  OBVIOUS
<1>1. ASSUME NEW s \in Socket, HubMessage(s)
      PROVE  PresenceInv'
  <2>1. Head(up[s]) \in {"hello", "rename"}
    BY <1>1 DEF HubMessage, HubInv, TypeOK
  <2>2. CASE Head(up[s]) = "hello"
    <3>1. OnHello(s)
      BY <1>1, <2>2 DEF HubMessage
    <3> QED BY <1>1, <3>1, HelloPresence
  <2>3. CASE Head(up[s]) = "rename"
    <3>1. OnRename(s)
      BY <1>1, <2>3 DEF HubMessage
    <3> QED BY <1>1, <2>3, <3>1, RenamePresence
  <2> QED BY <2>1, <2>2, <2>3
<1>2. ASSUME UNCHANGED <<client, made, online, side, up, down, greeted, peers, renames>>
      PROVE  PresenceInv'
  BY <1>2 DEF PresenceInv, HelloFirst, StartsBlank, ShowsAll, ShowsOnly, OnlyHello, Hears,
              Registered, Current
<1>3. ASSUME NEW s \in Socket, Break(s)
      PROVE  PresenceInv'
  BY <1>2, <1>3 DEF Break
<1>4. CASE UNCHANGED vars
  BY <1>2, <1>4 DEF vars
<1> QED
  BY <1>1, <1>3, <1>4, ClosedPresence, ClientMessagePresence, ClientPresence DEF Next, Progress

\* signal-hub.ts: when nothing is on its way, a connected client shows every peer of
\* the hub, and no other if it never lost its socket and nobody was renamed.
THEOREM PresenceRight == Spec => []PresenceWhenQuiet
<1>1. Init => PresenceInv
  <2> SUFFICES ASSUME Init
               PROVE  PresenceInv
    OBVIOUS
  <2>1. \A c \in Client : ~Hears(c)
    BY DEF Init, Hears
  <2>2. <<>> \in Seq({"hello"})
    OBVIOUS
  <2> QED BY <2>1, <2>2 DEF Init, PresenceInv, HelloFirst, StartsBlank, ShowsAll, ShowsOnly, OnlyHello
<1>2. HubInv /\ PresenceInv => PresenceWhenQuiet
  <2> SUFFICES ASSUME HubInv, PresenceInv, Quiet, NEW c \in Client, client[c] = "open"
               PROVE  LET others == Registered \ {IdOf[c]}
                      IN /\ others \subseteq online[c]
                         /\ made[c] = 1 /\ renames = 0 => online[c] \ {IdOf[c]} = others
    BY DEF PresenceWhenQuiet
  <2>1. Current(c) \in Socket /\ side[Current(c)] = "open"
    BY CurrentType DEF HubInv, Fresh, Quiet
  <2>2. up[Current(c)] = <<>> /\ down[Current(c)] = <<>>
    BY <2>1 DEF Quiet
  <2>3. Hears(c)
    BY <2>1, <2>2 DEF PresenceInv, HelloFirst, Hears
  <2>4. \A j : WillShow(online[c], down[Current(c)], j) <=> j \in online[c]
    BY <2>2, WillShowEmpty
  <2>5. online[c] \subseteq Id /\ Registered \subseteq Id
    BY DEF HubInv, TypeOK, Registered
  <2> QED BY <2>3, <2>4, <2>5 DEF PresenceInv, ShowsAll, ShowsOnly
<1> QED BY <1>1, <1>2, PresenceStep, HubAlways, PTL DEF Spec

====
