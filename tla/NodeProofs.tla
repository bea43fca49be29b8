----------------------------- MODULE NodeProofs -----------------------------
(***************************************************************************)
(* Proofs about Node, for any number of processes and other peers.         *)
(*                                                                         *)
(* First the identity file (module Startup).  That all processes run under *)
(* one keypair is not inductive: it holds because, unless two found no     *)
(* file at once, at most one process is ever saving a keypair, nothing has *)
(* been saved before it, and whoever listens has the keypair of the file.  *)
(***************************************************************************)
EXTENDS Node, TLAPS

\* A process past the file has a keypair.
HasKey ==
  \A p \in Process : pc[p] \in {"saving", "writing", "listening", "running"} => key[p] \in Key

\* While one process is saving no other is, and the file is as it left it.
OneSaves ==
  \A p \in Process :
    /\ pc[p] = "saving" => file = "absent"
    /\ pc[p] = "writing" => file = "partial"
    /\ pc[p] \in {"saving", "writing"} =>
         \A q \in Process : pc[q] \in {"saving", "writing"} => q = p

\* Whoever listens, or ever ran, has the keypair of the file.
FileIsKey ==
  /\ \A p \in Process : pc[p] \in {"listening", "running"} => key[p] = file
  /\ \A k \in ran : k = file

StartupInv ==
  /\ StartupTypeOK
  /\ HasKey
  /\ \A p \in Process : pc[p] = "writing" => file # "absent"
  /\ ~overlap => OneSaves /\ FileIsKey
  /\ UnreadableOnlyIfCut

LEMMA StartupInitInv == StartupInit => StartupInv
BY StartupAssumption
   DEF StartupInit, StartupInv, StartupTypeOK, HasKey, OneSaves, FileIsKey,
       UnreadableOnlyIfCut, Point

LEMMA StartupStutter == StartupInv /\ UNCHANGED startupVars => StartupInv'
BY DEF StartupInv, StartupTypeOK, HasKey, OneSaves, FileIsKey, UnreadableOnlyIfCut, startupVars

\* Every step of a process keeps the invariant of the file.
LEMMA StartupStepInv ==
  ASSUME StartupInv, NEW p \in Process, StartStep(p) \/ Listen(p) \/ Exit(p)
  PROVE  StartupInv'
<1> USE StartupAssumption
<1> USE DEF StartupInv, StartupTypeOK, HasKey, OneSaves, FileIsKey, UnreadableOnlyIfCut,
        Point, GoTo, End
<1>1. CASE Launch(p) BY <1>1 DEF Launch
<1>2. CASE FindFile(p) BY <1>2 DEF FindFile
<1>3. CASE FindNoFile(p)
  <2>1. StartupTypeOK' BY <1>3 DEF FindNoFile
  <2>2. HasKey' /\ UnreadableOnlyIfCut' BY <1>3 DEF FindNoFile
  <2>3. ASSUME ~overlap'
        PROVE  OneSaves' /\ FileIsKey'
    <3>1. /\ ~overlap /\ \A q \in Process \ {p} : pc[q] # "saving"
          /\ file = "absent" /\ file' = "absent"
      BY <1>3, <2>3 DEF FindNoFile
    <3>2. \A q \in Process : pc[q] \notin {"writing", "saving"}
      BY <1>3, <3>1 DEF FindNoFile
    <3>3. OneSaves' BY <1>3, <3>1, <3>2 DEF FindNoFile
    <3>4. FileIsKey' BY <1>3, <3>1 DEF FindNoFile
    <3> QED BY <3>3, <3>4
  <2> QED BY <1>3, <2>1, <2>2, <2>3 DEF FindNoFile
<1>4. CASE ReadFile(p) BY <1>4 DEF ReadFile
<1>5. CASE ParseFails(p) BY <1>5 DEF ParseFails
<1>6. CASE CreateFile(p) BY <1>6 DEF CreateFile
<1>7. CASE WriteFile(p) BY <1>7 DEF WriteFile
<1>8. CASE SaveFails(p) BY <1>8 DEF SaveFails
<1>9. CASE ListenFails(p) BY <1>9 DEF ListenFails
<1>10. CASE Listen(p) BY <1>10 DEF Listen
<1>11. CASE Exit(p)
  <2>2. StartupTypeOK' BY <1>11 DEF Exit
  <2>3. HasKey' /\ UnreadableOnlyIfCut' BY <1>11 DEF Exit
  <2>4. ~overlap' => OneSaves' /\ FileIsKey' BY <1>11 DEF Exit
  <2> QED BY <1>11, <2>2, <2>3, <2>4 DEF Exit
<1>12. QED BY <1>1, <1>2, <1>3, <1>4, <1>5, <1>6, <1>7, <1>8, <1>9, <1>10, <1>11 DEF StartStep

-----------------------------------------------------------------------------
(* The directory (module Discovery).  Each of its invariants is inductive   *)
(* together with the types: the lemmas say what each kind of change does.   *)

\* What addresses_for returns, exactly.
AddressesExact ==
  \A r \in Remote :
    /\ AddressesFor(r) = Get(identified, r) \union manual[r]
    /\ manual[r] \subseteq registered[r]

DirectoryInv ==
  /\ DiscoveryTypeOK
  /\ TableInDirectory
  /\ ConnectedView
  /\ AddressesExact
  /\ GetsAreAnswered

\* What the routing table has more after add_address will be reported.
LEMMA TableGrows ==
  ASSUME DiscoveryTypeOK, TableInDirectory, NEW as \in SUBSET Addr, AddToTable(as),
         Known \subseteq Known'
  PROVE  /\ table' \in [Remote -> SUBSET Addr]
         /\ \A r \in Remote : table'[r] \subseteq AddrOf(r)
         /\ updated' \subseteq Remote
         /\ TableInDirectory'
<1> USE DiscoveryAssumption DEF DiscoveryTypeOK, AddToTable, TableWith, UpdatedWith, AddrOf
<1>1. \A r \in Remote : table'[r] = table[r] \union (as \cap AddrOf(r))
  OBVIOUS
<1>2. table' \in [Remote -> SUBSET Addr]
  OBVIOUS
<1>3. updated' \subseteq Remote
  <2>1. updated' = updated \union {Owner[a] : a \in {b \in as : b \notin table[Owner[b]]}}
    OBVIOUS
  <2>2. \A a \in as : Owner[a] \in Remote
    OBVIOUS
  <2>3. updated \subseteq Remote
    OBVIOUS
  <2> QED BY ONLY <2>1, <2>2, <2>3
<1>4. \A r \in Remote : table'[r] \subseteq AddrOf(r)
  BY <1>1
<1>5. ASSUME NEW r \in Remote, table'[r] # {}
      PROVE  r \in Known' \union updated'
  <2>1. CASE table[r] # {}
    <3>1. r \in Known \union updated BY <2>1 DEF TableInDirectory
    <3>2. updated \subseteq updated' OBVIOUS
    <3> QED BY <3>1, <3>2
  <2>2. CASE table[r] = {}
    <3>1. PICK a \in as : a \in AddrOf(r)
      BY <1>1, <1>5, <2>2
    <3>2. Owner[a] = r /\ a \notin table[Owner[a]]
      BY <3>1, <2>2
    <3> QED BY <3>1, <3>2
  <2> QED BY <2>1, <2>2
<1> QED BY <1>2, <1>3, <1>4, <1>5 DEF TableInDirectory

\* PeerDiscovered and PeerConnected add a peer and leave all addresses.
LEMMA SeenKeeps ==
  ASSUME DiscoveryTypeOK, NEW r \in Remote, OnPeerSeen(r)
  PROVE  /\ Known' = Known \union {r}
         /\ \A s : AddressesFor(s)' = AddressesFor(s)
         /\ UNCHANGED identified
BY DEF OnPeerSeen, Known, AddressesFor, Get, Put

\* What a step that leaves connections and queries alone has to show.
LEMMA DirectoryKept ==
  ASSUME DirectoryInv, UNCHANGED <<conn, query, connected, unanswered>>,
         table' \in [Remote -> SUBSET Addr],
         manual' \in [Remote -> SUBSET Addr], registered' \in [Remote -> SUBSET Addr],
         \A r \in Remote :
           table'[r] \union manual'[r] \union AddressesFor(r)' \subseteq AddrOf(r),
         updated' \subseteq Remote, Known' \subseteq Remote,
         Known \subseteq Known', TableInDirectory', AddressesExact'
  PROVE  DirectoryInv'
BY DEF DirectoryInv, DiscoveryTypeOK, ConnectedView, GetsAreAnswered

\* Nor does a query change the directory.
LEMMA QueryStepKept ==
  ASSUME DirectoryInv, unanswered' = FALSE,
         query' \in [kind : QueryKind \union {"none"}, reports : 0..1],
         UNCHANGED <<conn, table, updated, addresses, identified, connected, manual, registered>>
  PROVE  DirectoryInv'
<1>1. Known' = Known /\ \A s : AddressesFor(s)' = AddressesFor(s) /\ Get(identified, s)' = Get(identified, s)
  BY DEF Known, AddressesFor, Get
<1>2. GetsAreAnswered'
  BY Zenon DEF GetsAreAnswered
<1>3. DiscoveryTypeOK'
  BY <1>1 DEF DirectoryInv, DiscoveryTypeOK
<1> QED
  BY <1>1, <1>2, <1>3 DEF DirectoryInv, TableInDirectory, ConnectedView, AddressesExact

\* Every event and every call of the application keeps the directory.
LEMMA DiscoveryStepInv ==
  ASSUME DirectoryInv, DiscoveryStep
  PROVE  DirectoryInv'
<1> USE DiscoveryAssumption
<1>1. ASSUME NEW r \in Remote, ConnectionEstablished(r)
      PROVE  DirectoryInv'
  <2>1. Known' = Known \union {r} /\ \A s : AddressesFor(s)' = AddressesFor(s)
        /\ UNCHANGED identified
    BY <1>1, SeenKeeps DEF ConnectionEstablished, DirectoryInv
  <2>2. DOMAIN conn' = Remote /\ \A s \in Remote : conn'[s] \in 0..MaxConn[s]
    BY <1>1 DEF ConnectionEstablished, DirectoryInv, DiscoveryTypeOK
  <2>3. ConnectedView'
    BY <1>1, <2>1, <2>2 DEF ConnectionEstablished, DirectoryInv, DiscoveryTypeOK, ConnectedView
  <2>4. DiscoveryTypeOK'
    BY <1>1, <2>1, <2>2 DEF ConnectionEstablished, DirectoryInv, DiscoveryTypeOK, AddrOf
  <2> QED
    BY <1>1, <2>1, <2>3, <2>4
       DEF ConnectionEstablished, DirectoryInv, TableInDirectory, AddressesExact, GetsAreAnswered
<1>2. ASSUME NEW r \in Remote, ConnectionClosed(r)
      PROVE  DirectoryInv'
  <2>1. UNCHANGED <<Known, addresses, identified, table, updated, query, manual, registered,
                    unanswered>>
    BY <1>2 DEF ConnectionClosed, OnOtherEvent, Known
  <2>2. DOMAIN conn' = Remote /\ \A s \in Remote : conn'[s] \in 0..MaxConn[s]
    BY <1>2 DEF ConnectionClosed, DirectoryInv, DiscoveryTypeOK
  <2>3. ConnectedView'
    BY <1>2, <2>1, <2>2 DEF ConnectionClosed, DirectoryInv, DiscoveryTypeOK, ConnectedView
  <2> QED
    BY <2>1, <2>2, <2>3
       DEF ConnectedView, DirectoryInv, DiscoveryTypeOK, TableInDirectory, AddressesExact,
           GetsAreAnswered, AddressesFor, AddrOf
<1>3. ASSUME NEW r \in Remote, NEW as \in SUBSET AddrOf(r), IdentifyReceived(r, as)
      PROVE  DirectoryInv'
  <2>1. as \in SUBSET Addr
    BY DEF AddrOf
  <2>2. Known' = Known \union {r}
    BY <1>3 DEF IdentifyReceived, OnPeerIdentified, Known, Put
  <2>3. \A s : AddressesFor(s)' = IF s = r THEN as ELSE AddressesFor(s)
    BY <1>3 DEF IdentifyReceived, OnPeerIdentified, AddressesFor, Put, Get
  <2>4. \A s : Get(identified, s)' = IF s = r THEN as ELSE Get(identified, s)
    BY <1>3 DEF IdentifyReceived, OnPeerIdentified, Put, Get
  <2>5. /\ table' \in [Remote -> SUBSET Addr]
        /\ \A s \in Remote : table'[s] \subseteq AddrOf(s)
        /\ updated' \subseteq Remote
        /\ TableInDirectory'
    BY <1>3, <2>1, <2>2, TableGrows DEF IdentifyReceived, DirectoryInv
  <2>6. manual' \in [Remote -> SUBSET Addr] /\ manual'[r] = {} /\ UNCHANGED registered
        /\ registered \in [Remote -> SUBSET Addr]
        /\ \A s \in Remote : s # r => manual'[s] = manual[s]
    BY <1>3 DEF IdentifyReceived, DirectoryInv, DiscoveryTypeOK
  <2>7. AddressesExact'
    BY <2>3, <2>4, <2>6 DEF DirectoryInv, AddressesExact
  <2>8. \A s \in Remote :
          table'[s] \union manual'[s] \union AddressesFor(s)' \subseteq AddrOf(s)
    BY <2>3, <2>5, <2>6 DEF DirectoryInv, DiscoveryTypeOK
  <2>9. Known' \subseteq Remote
    BY <2>2 DEF DirectoryInv, DiscoveryTypeOK
  <2> QED
    BY <1>3, <2>2, <2>5, <2>6, <2>7, <2>8, <2>9, DirectoryKept DEF IdentifyReceived
<1>4. ASSUME NEW r \in Remote, RoutingUpdated(r)
      PROVE  DirectoryInv'
  <2>1. Known' = Known \union {r} /\ (\A s : AddressesFor(s)' = AddressesFor(s))
        /\ UNCHANGED identified
    BY <1>4, SeenKeeps DEF RoutingUpdated, DirectoryInv
  <2> QED
    BY <1>4, <2>1, DirectoryKept
       DEF RoutingUpdated, DirectoryInv, DiscoveryTypeOK, TableInDirectory, AddressesExact
<1>5. ASSUME NEW r \in Remote, UnroutablePeer(r)
      PROVE  DirectoryInv'
  <2>1. Known' = Known \union {r} /\ (\A s : AddressesFor(s)' = AddressesFor(s))
        /\ UNCHANGED identified
    BY <1>5, SeenKeeps DEF UnroutablePeer, DirectoryInv
  <2> QED
    BY <1>5, <2>1, DirectoryKept
       DEF UnroutablePeer, DirectoryInv, DiscoveryTypeOK, TableInDirectory, AddressesExact
<1>6. ASSUME NEW r \in Remote, KademliaForgets(r)
      PROVE  DirectoryInv'
  <2>1. PICK as \in SUBSET table[r] : table' = [table EXCEPT ![r] = as]
    BY <1>6 DEF KademliaForgets
  <2>2. UNCHANGED <<conn, updated, addresses, identified, query, connected, manual, registered, unanswered>>
    BY <1>6 DEF KademliaForgets
  <2>3. Known' = Known /\ \A s : AddressesFor(s)' = AddressesFor(s)
    BY <2>2 DEF Known, AddressesFor, Get
  <2>4. table' \in [Remote -> SUBSET Addr] /\ \A s \in Remote : table'[s] \subseteq table[s]
    BY <2>1 DEF DirectoryInv, DiscoveryTypeOK
  <2> QED
    BY <2>2, <2>3, <2>4, DirectoryKept
       DEF DirectoryInv, DiscoveryTypeOK, TableInDirectory, AddressesExact
<1>7. ASSUME NEW batch \in SUBSET Addr, NEW first \in Addr, MdnsDiscovered(batch, first)
      PROVE  DirectoryInv'
  <2>1. Owner[first] \in Remote
    OBVIOUS
  <2>2. Known' = Known \union {Owner[first]} /\ (\A s : AddressesFor(s)' = AddressesFor(s))
        /\ UNCHANGED identified
    BY <1>7, <2>1, SeenKeeps DEF MdnsDiscovered, DirectoryInv
  <2>3. /\ table' \in [Remote -> SUBSET Addr]
        /\ \A s \in Remote : table'[s] \subseteq AddrOf(s)
        /\ updated' \subseteq Remote
        /\ TableInDirectory'
    BY <1>7, <2>2, TableGrows DEF MdnsDiscovered, DirectoryInv
  <2> QED
    BY <1>7, <2>1, <2>2, <2>3, DirectoryKept
       DEF MdnsDiscovered, DirectoryInv, DiscoveryTypeOK, AddressesExact
<1>8. ASSUME NEW a \in Addr, RoutablePeer(a)
      PROVE  DirectoryInv'
  <2>1. Owner[a] \in Remote /\ {a} \in SUBSET Addr
    OBVIOUS
  <2>2. Known' = Known \union {Owner[a]} /\ (\A s : AddressesFor(s)' = AddressesFor(s))
        /\ UNCHANGED identified
    BY <1>8, <2>1, SeenKeeps DEF RoutablePeer, DirectoryInv
  <2>3. /\ table' \in [Remote -> SUBSET Addr]
        /\ \A s \in Remote : table'[s] \subseteq AddrOf(s)
        /\ updated' \subseteq Remote
        /\ TableInDirectory'
    BY <1>8, <2>1, <2>2, TableGrows DEF RoutablePeer, DirectoryInv
  <2> QED
    BY <1>8, <2>1, <2>2, <2>3, DirectoryKept
       DEF RoutablePeer, DirectoryInv, DiscoveryTypeOK, AddressesExact
<1>9. ASSUME NEW a \in Addr, KademliaLearns(a) \/ AddPeerAddress(a)
      PROVE  DirectoryInv'
  <2>1. /\ {a} \in SUBSET Addr
        /\ AddToTable({a})
        /\ UNCHANGED <<conn, addresses, identified, query, connected, manual, registered, unanswered>>
    BY <1>9 DEF KademliaLearns, AddPeerAddress
  <2>2. Known' = Known /\ \A s : AddressesFor(s)' = AddressesFor(s)
    BY <2>1 DEF Known, AddressesFor, Get
  <2>3. /\ table' \in [Remote -> SUBSET Addr]
        /\ \A s \in Remote : table'[s] \subseteq AddrOf(s)
        /\ updated' \subseteq Remote
        /\ TableInDirectory'
    BY <2>1, <2>2, TableGrows DEF DirectoryInv
  <2> QED
    BY <2>1, <2>2, <2>3, DirectoryKept
       DEF DirectoryInv, DiscoveryTypeOK, AddressesExact
<1>10. ASSUME NEW a \in Addr, RegisterAddress(a)
       PROVE  DirectoryInv'
  <2>1. Owner[a] \in Remote /\ a \in AddrOf(Owner[a])
    BY DEF AddrOf
  <2>2. UNCHANGED <<conn, table, updated, identified, query, connected, unanswered>>
    BY <1>10 DEF RegisterAddress
  <2>3. Known' = Known \union {Owner[a]}
    BY <1>10 DEF RegisterAddress, Known, Put
  <2>4. \A s : AddressesFor(s)' =
                 IF s = Owner[a] THEN AddressesFor(s) \union {a} ELSE AddressesFor(s)
    <3>1. \A s : Get(addresses, s)' =
                   IF s = Owner[a] THEN Get(addresses, s) \union {a} ELSE Get(addresses, s)
      BY <1>10 DEF RegisterAddress, Put, Get
    <3>2. \A s : Get(identified, s)' = Get(identified, s)
      BY <2>2
    <3> QED BY <3>1, <3>2 DEF AddressesFor
  <2>5. /\ manual' \in [Remote -> SUBSET Addr]
        /\ \A s \in Remote : manual'[s] =
             IF s = Owner[a] THEN manual[s] \union {a} ELSE manual[s]
        /\ registered' \in [Remote -> SUBSET Addr]
        /\ \A s \in Remote : registered'[s] =
             IF s = Owner[a] THEN registered[s] \union {a} ELSE registered[s]
    BY <1>10, <2>1 DEF RegisterAddress, DirectoryInv, DiscoveryTypeOK
  <2>6. AddressesExact'
    BY <2>2, <2>4, <2>5 DEF DirectoryInv, AddressesExact, Get
  <2>7. \A s \in Remote :
          table'[s] \union manual'[s] \union AddressesFor(s)' \subseteq AddrOf(s)
    BY <2>1, <2>2, <2>4, <2>5 DEF DirectoryInv, DiscoveryTypeOK
  <2> QED
    BY <2>1, <2>2, <2>3, <2>5, <2>6, <2>7, DirectoryKept
       DEF DirectoryInv, DiscoveryTypeOK, TableInDirectory
<1>0. unanswered = FALSE
  BY Zenon DEF DirectoryInv, DiscoveryTypeOK, GetsAreAnswered
<1>11. ASSUME NEW kind \in Query, StartQuery(kind)
       PROVE  DirectoryInv'
  <2>1. query' \in [kind : QueryKind \union {"none"}, reports : 0..1]
    BY <1>11 DEF StartQuery, Start
  <2>2. unanswered' = FALSE /\ UNCHANGED <<conn, table, updated, addresses, identified, connected, manual, registered>>
    BY <1>11, <1>0 DEF StartQuery
  <2> QED
    BY <2>1, <2>2, QueryStepKept
<1>12. CASE QueryReports
  <2>1. query' \in [kind : QueryKind \union {"none"}, reports : 0..1]
    BY <1>12 DEF QueryReports, DirectoryInv, DiscoveryTypeOK
  <2> QED
    BY <1>12, <1>0, <2>1, QueryStepKept DEF QueryReports
<1>13. CASE QueryEnds
  <2>1. unanswered' = FALSE
    <3>1. PICK report \in LastReports :
            unanswered' = (unanswered \/ (/\ query.kind \in {"get", "bootstrap"}
                                          /\ ~report /\ query.reports = 0))
      BY <1>13, Zenon DEF QueryEnds
    <3>2. query.kind \in {"get", "bootstrap"} /\ query.reports = 0 => report = TRUE
      <4>1. query.reports = 0 => ~(query.reports > 0)
        OBVIOUS
      <4>2. query.kind = "bootstrap" => LastReports = {TRUE}
        BY Zenon DEF LastReports
      <4>3. query.kind = "get" /\ ~(query.reports > 0) => LastReports = {TRUE}
        BY DEF LastReports
      <4> QED
        BY <3>1, <4>1, <4>2, <4>3, Zenon
    <3> QED
      BY <1>0, <3>1, <3>2, Zenon
  <2>2. query' \in [kind : QueryKind \union {"none"}, reports : 0..1]
    BY <1>13 DEF QueryEnds, NoQuery
  <2>3. UNCHANGED <<conn, table, updated, addresses, identified, connected, manual, registered>>
    BY <1>13 DEF QueryEnds
  <2> QED
    BY <2>1, <2>2, <2>3, QueryStepKept
<1>14. QED
  BY <1>1, <1>2, <1>3, <1>4, <1>5, <1>6, <1>7, <1>8, <1>9, <1>10, <1>11, <1>12, <1>13
     DEF DiscoveryStep

-----------------------------------------------------------------------------
(* The node *)

\* A directory that has just been built.
LEMMA DiscoveryInitInv == DiscoveryInit => DirectoryInv
<1> SUFFICES ASSUME DiscoveryInit PROVE DirectoryInv
  OBVIOUS
<1>1. \A r \in Remote : 0 \in 0..MaxConn[r]
  BY DiscoveryAssumption
<1>2. Known = {} /\ \A r : AddressesFor(r) = {} /\ Get(identified, r) = {}
  BY DEF DiscoveryInit, Nothing, Known, AddressesFor, Get
<1>3. DiscoveryTypeOK
  <2>1. query \in [kind : QueryKind \union {"none"}, reports : 0..1]
    BY DEF DiscoveryInit, NoQuery
  <2>2. DOMAIN conn = Remote /\ \A r \in Remote : conn[r] \in 0..MaxConn[r]
    BY <1>1 DEF DiscoveryInit
  <2>3. /\ table \in [Remote -> SUBSET Addr] /\ manual \in [Remote -> SUBSET Addr]
        /\ registered \in [Remote -> SUBSET Addr]
        /\ \A r \in Remote : table[r] \union manual[r] = {}
    BY DEF DiscoveryInit
  <2>4. updated \subseteq Remote /\ connected \subseteq Remote
    BY DEF DiscoveryInit
  <2>5. unanswered \in BOOLEAN
    BY Zenon DEF DiscoveryInit
  <2> QED
    BY <1>2, <2>1, <2>2, <2>3, <2>4, <2>5 DEF DiscoveryTypeOK
<1>4. GetsAreAnswered
  BY Zenon DEF DiscoveryInit, GetsAreAnswered
<1> QED
  BY <1>2, <1>3, <1>4
     DEF DirectoryInv, DiscoveryInit, TableInDirectory, ConnectedView, AddressesExact

\* A process that begins, with the addresses of its configuration in the table.
LEMMA StartupConfigInv ==
  ASSUME DirectoryInv, ApplyStartupConfig
  PROVE  DirectoryInv'
<1> USE DiscoveryAssumption
<1>1. BootstrapPeers \union RelayServers \in SUBSET Addr
  OBVIOUS
<1>2. /\ AddToTable(BootstrapPeers \union RelayServers)
      /\ UNCHANGED <<conn, addresses, identified, connected, manual, registered, unanswered>>
  BY DEF ApplyStartupConfig
<1>3. Known' = Known
      /\ \A s : AddressesFor(s)' = AddressesFor(s) /\ Get(identified, s)' = Get(identified, s)
  BY <1>2 DEF Known, AddressesFor, Get
<1>4. /\ table' \in [Remote -> SUBSET Addr]
      /\ \A s \in Remote : table'[s] \subseteq AddrOf(s)
      /\ updated' \subseteq Remote
      /\ TableInDirectory'
  BY <1>1, <1>2, <1>3, TableGrows DEF DirectoryInv
<1>5. query' \in [kind : QueryKind \union {"none"}, reports : 0..1]
  BY DEF ApplyStartupConfig, NoQuery, Start, QueryKind
<1>6. DiscoveryTypeOK'
  BY <1>2, <1>3, <1>4, <1>5 DEF DirectoryInv, DiscoveryTypeOK
<1>7. GetsAreAnswered'
  BY <1>2, Zenon DEF DirectoryInv, GetsAreAnswered
<1> QED
  BY <1>2, <1>3, <1>4, <1>6, <1>7
     DEF DirectoryInv, ConnectedView, AddressesExact

\* The end of a process.
LEMMA DiscoveryResetInv ==
  ASSUME DirectoryInv, DiscoveryReset
  PROVE  DirectoryInv'
<1>1. \A r \in Remote : 0 \in 0..MaxConn[r]
  BY DiscoveryAssumption
<1>2. Known' = {} /\ \A r : AddressesFor(r)' = {} /\ Get(identified, r)' = {}
  BY DEF DiscoveryReset, Nothing, Known, AddressesFor, Get
<1>3. DiscoveryTypeOK'
  BY <1>1, <1>2 DEF DiscoveryReset, DirectoryInv, DiscoveryTypeOK, NoQuery
<1>4. GetsAreAnswered'
  BY Zenon DEF DiscoveryReset, DirectoryInv, GetsAreAnswered
<1> QED
  BY <1>2, <1>3, <1>4
     DEF DirectoryInv, DiscoveryReset, TableInDirectory, ConnectedView, AddressesExact

LEMMA DirectoryStutter == DirectoryInv /\ UNCHANGED discoveryVars => DirectoryInv'
<1> SUFFICES ASSUME DirectoryInv, UNCHANGED discoveryVars PROVE DirectoryInv'
  OBVIOUS
<1>1. UNCHANGED <<conn, table, updated, addresses, identified, query, connected, manual,
                  registered, unanswered>>
  BY DEF discoveryVars
<1>2. Known' = Known
      /\ \A s : AddressesFor(s)' = AddressesFor(s) /\ Get(identified, s)' = Get(identified, s)
  BY <1>1 DEF Known, AddressesFor, Get
<1>3. DiscoveryTypeOK'
  BY <1>1, <1>2 DEF DirectoryInv, DiscoveryTypeOK
<1>4. GetsAreAnswered'
  BY <1>1, Zenon DEF DirectoryInv, GetsAreAnswered
<1> QED
  BY <1>1, <1>2, <1>3, <1>4
     DEF DirectoryInv, TableInDirectory, ConnectedView, AddressesExact

NodeInv ==
  /\ StartupInv
  /\ DirectoryInv
  /\ pc[Self] # "running" => connected = {} /\ query = NoQuery

LEMMA NodeInitInv == Init => NodeInv
BY StartupInitInv, DiscoveryInitInv DEF Init, NodeInv, DiscoveryInit

\* Only the loop of Self, and its beginning and end, touch the directory.
LEMMA NodeStepInv == NodeInv /\ [Next]_vars => NodeInv'
<1> SUFFICES ASSUME NodeInv, [Next]_vars PROVE NodeInv'
  OBVIOUS
<1> USE NodeAssumption
<1>1. ASSUME NEW p \in Process, StartStep(p), UNCHANGED discoveryVars
      PROVE  NodeInv'
  <2>1. StartupInv' /\ DirectoryInv'
    BY <1>1, StartupStepInv, DirectoryStutter DEF NodeInv
  <2>2. pc'[Self] = "running" <=> pc[Self] = "running"
    BY <1>1 DEF NodeInv, StartupInv, StartupTypeOK, StartStep, Launch, FindFile, FindNoFile,
                ReadFile, ParseFails, CreateFile, WriteFile, SaveFails, ListenFails, GoTo, End
  <2> QED
    BY <1>1, <2>1, <2>2 DEF NodeInv, discoveryVars
<1>2. ASSUME NEW p \in Process, Run(p)
      PROVE  NodeInv'
  <2>1. StartupInv'
    BY <1>2, StartupStepInv DEF Run, NodeInv
  <2>2. DirectoryInv'
    BY <1>2, StartupConfigInv, DirectoryStutter DEF Run, NodeInv
  <2>3. CASE p = Self
    <3>1. pc'[Self] = "running"
      BY <1>2, <2>3 DEF Run, Listen, GoTo, NodeInv, StartupInv, StartupTypeOK
    <3> QED BY <2>1, <2>2, <3>1 DEF NodeInv
  <2>4. CASE p # Self
    <3>1. pc'[Self] = pc[Self] /\ UNCHANGED discoveryVars
      BY <1>2, <2>4 DEF Run, Listen, GoTo, NodeInv, StartupInv, StartupTypeOK
    <3> QED BY <2>1, <2>2, <3>1 DEF NodeInv, discoveryVars
  <2> QED BY <2>3, <2>4
<1>3. ASSUME NEW p \in Process, Stop(p)
      PROVE  NodeInv'
  <2>1. StartupInv'
    BY <1>3, StartupStepInv DEF Stop, NodeInv
  <2>2. DirectoryInv'
    BY <1>3, DiscoveryResetInv, DirectoryStutter DEF Stop, NodeInv
  <2>3. CASE p = Self
    BY <1>3, <2>1, <2>2, <2>3 DEF Stop, DiscoveryReset, NodeInv
  <2>4. CASE p # Self
    <3>1. pc'[Self] = pc[Self] /\ UNCHANGED discoveryVars
      BY <1>3, <2>4 DEF Stop, Exit, GoTo, End, NodeInv, StartupInv, StartupTypeOK
    <3> QED BY <2>1, <2>2, <3>1 DEF NodeInv, discoveryVars
  <2> QED BY <2>3, <2>4
<1>4. CASE Loop
  <2>1. StartupInv' /\ DirectoryInv'
    BY <1>4, StartupStutter, DiscoveryStepInv DEF Loop, NodeInv
  <2>2. pc'[Self] = "running"
    BY <1>4 DEF Loop, startupVars
  <2> QED BY <2>1, <2>2 DEF NodeInv
<1>5. CASE UNCHANGED vars
  <2>1. UNCHANGED startupVars /\ UNCHANGED discoveryVars
    BY <1>5 DEF vars
  <2>2. StartupInv' /\ DirectoryInv'
    BY <2>1, StartupStutter, DirectoryStutter DEF NodeInv
  <2> QED BY <2>1, <2>2 DEF NodeInv, startupVars, discoveryVars
<1> QED
  BY <1>1, <1>2, <1>3, <1>4, <1>5 DEF Next

LEMMA NodeAlways == Spec => []NodeInv
BY NodeInitInv, NodeStepInv, PTL DEF Spec

\* The variables of a node hold values of the expected kinds; every peer is filed
\* with addresses of its own only, and a node that does not run has no connections.
THEOREM TypeCorrect == Spec => []TypeOK
<1>1. NodeInv => TypeOK
  BY DEF NodeInv, StartupInv, DirectoryInv, TypeOK
<1> QED BY <1>1, NodeAlways, PTL

\* load_or_create_keypair: unless two processes found no file at the same time, all
\* that ever ran did so under one keypair, which is the one in the file.
THEOREM IdentityKept == Spec => []IdentitySurvives
<1>1. NodeInv => IdentitySurvives
  BY DEF NodeInv, StartupInv, FileIsKey, IdentitySurvives
<1> QED BY <1>1, NodeAlways, PTL

\* save_keypair: the file holds less than a keypair only while it is being written
\* or because the write was cut off.
THEOREM FileReadable == Spec => []UnreadableOnlyIfCut
<1>1. NodeInv => UnreadableOnlyIfCut
  BY DEF NodeInv, StartupInv
<1> QED BY <1>1, NodeAlways, PTL

\* Every peer the routing table has an address of is in the directory of the
\* application, or an event that will enter it is on its way.
THEOREM TableKnown == Spec => []TableInDirectory
<1>1. NodeInv => TableInDirectory
  BY DEF NodeInv, DirectoryInv
<1> QED BY <1>1, NodeAlways, PTL

\* The set an application keeps by PeerConnected and PeerDisconnected is the set of
\* the peers there is a connection to, however many connections come and go.
THEOREM ViewCorrect == Spec => []ConnectedView
<1>1. NodeInv => ConnectedView
  BY DEF NodeInv, DirectoryInv
<1> QED BY <1>1, NodeAlways, PTL

\* addresses_for always has what Identify said last and what was registered since,
\* and nothing that came from neither.
THEOREM AddressesKept == Spec => []AddressesCurrent
<1>1. NodeInv => AddressesCurrent
  BY DEF NodeInv, DirectoryInv, AddressesExact, AddressesCurrent
<1> QED BY <1>1, NodeAlways, PTL

\* Every get and every bootstrap that ends has been answered by an event.
THEOREM GetsAnswered == Spec => []GetsAreAnswered
<1>1. NodeInv => GetsAreAnswered
  BY DEF NodeInv, DirectoryInv
<1> QED BY <1>1, NodeAlways, PTL

====
