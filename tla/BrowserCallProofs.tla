-------------------------- MODULE BrowserCallProofs --------------------------
(***************************************************************************)
(* What is proved of BrowserCall, for any number of browsers, calls and     *)
(* presses of accept, with and without faults.                              *)
(*                                                                          *)
(* A call is between the browser that placed it, which has one manager for  *)
(* it, and the browser it is for, which makes one each time its user        *)
(* accepts.  The invariant says, for every call, what its messages and the  *)
(* managers at its two ends can be at the same time.                        *)
(***************************************************************************)
EXTENDS BrowserCall, FiniteSetTheorems, SequenceTheorems, TLAPS

MsgType == {"call_request", "call_accepted", "call_rejected", "call_ended",
            "sdp_offer", "sdp_answer", "ice_candidate"}

\* There is a message of this type for the call c in a queue; there are not two.
Has(q, type, c) == \E k \in DOMAIN q : q[k].type = type /\ q[k].call_id = c
Once(q, type, c) ==
  \A k, l \in DOMAIN q :
    q[k].type = type /\ q[k].call_id = c /\ q[l].type = type /\ q[l].call_id = c => k = l

\* Manager i of a is the one that placed the call c to b.
Placed(mgrs, a, i, b, c) ==
  /\ i \in DOMAIN mgrs[a]
  /\ mgrs[a][i].caller /\ mgrs[a][i].remote = b /\ mgrs[a][i].call_id = c
Between(mgrs, a, b, c) == \E i \in DOMAIN mgrs[a] : Placed(mgrs, a, i, b, c)

\* Every id in use was returned by newCallId.
Known ==
  \A b \in Browser :
    /\ activeCall[b] # None => activeCall[b].call_id \in used
    /\ endedCallIds[b] \subseteq used
    /\ \A i \in DOMAIN managers[b] : managers[b][i].call_id \in used
    /\ \A a \in Browser, c \in CallId : \A type \in MsgType : Has(wire[a][b], type, c) => c \in used

\* A call has one caller, which is not its callee.
OneCaller ==
  \A a, b \in Browser : \A i \in DOMAIN managers[a], j \in DOMAIN managers[b] :
    managers[a][i].caller =>
      /\ managers[a][i].remote # a
      /\ managers[b][j].caller /\ managers[a][i].call_id = managers[b][j].call_id => a = b /\ i = j

\* Managers, calls on the screen and messages agree on who calls whom.
Paired ==
  /\ \A b \in Browser : \A i \in DOMAIN managers[b] :
       ~managers[b][i].caller => Between(managers, managers[b][i].remote, b, managers[b][i].call_id)
  /\ \A b \in Browser : activeCall[b] # None =>
       LET r == activeCall[b]
       IN /\ Between(managers, r.remote, b, r.call_id) \/ Between(managers, b, r.remote, r.call_id)
          /\ r.status = "incoming" => Between(managers, r.remote, b, r.call_id)
  /\ \A a, b \in Browser, c \in CallId :
       /\ Has(wire[a][b], "call_request", c) \/ Has(wire[a][b], "sdp_offer", c) => Between(managers, a, b, c)
       /\ Has(wire[a][b], "call_accepted", c) \/ Has(wire[a][b], "sdp_answer", c) => Between(managers, b, a, c)

\* Until its only request arrives, the callee knows nothing of a call.
Unheard(b, c) == ~InCall(b, c) /\ \A i \in DOMAIN managers[b] : managers[b][i].call_id # c
Requested ==
  \A a, b \in Browser, c \in CallId : \A i \in DOMAIN managers[a] : Placed(managers, a, i, b, c) =>
    /\ Once(wire[a][b], "call_request", c)
    /\ managers[a][i].media = "asking" => ~Has(wire[a][b], "call_request", c)
    /\ managers[a][i].media = "asking" \/ Has(wire[a][b], "call_request", c) => Unheard(b, c)

\* A browser that is in a call, has a manager for it and has not ended it, has
\* such a manager as its current one.
CurrentIsFor ==
  \A b \in Browser : \A i \in DOMAIN managers[b] :
    LET c == managers[b][i].call_id
    IN InCall(b, c) /\ c \notin endedCallIds[b]
         => webrtc[b] # None /\ managers[b][webrtc[b]].call_id = c

Roles ==
  \A b \in Browser : \A i \in DOMAIN managers[b] :
    managers[b][i].sdp \in IF managers[b][i].caller
                             THEN {"none", "offering", "offered", "stable", "failed"}
                             ELSE {"none", "answering", "stable", "failed"}

\* One offer, then one answer, for the call c that manager i of a placed to b.
Callee(mgrs, b, c) == {j \in DOMAIN mgrs[b] : mgrs[b][j].call_id = c /\ ~mgrs[b][j].caller}
Negotiation(mgrs, net, a, i, b, c) ==
  LET sdp == mgrs[a][i].sdp
      theirs == Callee(mgrs, b, c)
  IN /\ Once(net[a][b], "sdp_offer", c) /\ Once(net[b][a], "sdp_answer", c)
     /\ Has(net[a][b], "sdp_offer", c) =>
          /\ sdp = "offered" /\ ~Has(net[b][a], "sdp_answer", c)
          /\ \A j \in theirs : mgrs[b][j].sdp = "none"
     /\ Has(net[b][a], "sdp_answer", c) =>
          sdp = "offered" /\ \A j \in theirs : mgrs[b][j].sdp # "answering"
     /\ \A j \in theirs : mgrs[b][j].sdp = "answering" =>
          sdp = "offered" /\ \A l \in theirs : mgrs[b][l].sdp = "answering" => l = j
     /\ sdp \in {"none", "offering", "failed"} => \A j \in theirs : mgrs[b][j].sdp = "none"
Negotiated ==
  \A a, b \in Browser, c \in CallId : \A i \in DOMAIN managers[a] :
    Placed(managers, a, i, b, c) => Negotiation(managers, wire, a, i, b, c)

\* For each acceptance of it there was a prompt that was granted.
Two(S) == \E x, y \in S : x # y
Granted(mgrs, b, c) == {j \in Callee(mgrs, b, c) : mgrs[b][j].media # "asking"}
Acceptance(mgrs, net, a, i, b, c) ==
  LET said == Has(net[b][a], "call_accepted", c)
      heard == mgrs[a][i].sdp # "none"
  IN /\ said \/ heard => Granted(mgrs, b, c) # {}
     /\ said /\ heard => Two(Granted(mgrs, b, c))
     /\ ~Once(net[b][a], "call_accepted", c) => Two(Granted(mgrs, b, c))
Acceptances ==
  \A a, b \in Browser, c \in CallId : \A i \in DOMAIN managers[a] :
    Placed(managers, a, i, b, c) => Acceptance(managers, wire, a, i, b, c)

\* An error is shown only when the other side accepted twice.
Twice(mgrs, b, c) ==
  \E i, j \in DOMAIN mgrs[b] :
    /\ i # j
    /\ mgrs[b][i].call_id = c /\ ~mgrs[b][i].caller
    /\ mgrs[b][j].call_id = c /\ ~mgrs[b][j].caller
ErrorsCaused ==
  ~faulty => \A b \in Browser :
    activeCall[b] # None /\ activeCall[b].status = "error"
      => Twice(managers, activeCall[b].remote, activeCall[b].call_id)

\* handleEnvelope's buffer for an early offer stays empty: the offer never
\* overtakes the acceptance it answers.
OfferNeverBuffered == \A b \in Browser : pendingOffer[b] = None

CallInv ==
  /\ TypeOK /\ Known /\ EndedCallIsCleared /\ OfferNeverBuffered
  /\ OneCaller /\ Paired /\ Requested /\ CurrentIsFor /\ Roles
  /\ Negotiated /\ Acceptances /\ ErrorsCaused

-----------------------------------------------------------------------------
(* Queues and managers. *)

\* Taking the oldest message adds none, and if there was one of its kind, none is left.
LEMMA TailQueue ==
  ASSUME NEW q \in Seq(Msg), q # <<>>, NEW type, NEW c
  PROVE  /\ Tail(q) \in Seq(Msg)
         /\ Has(Tail(q), type, c) => Has(q, type, c)
         /\ Once(q, type, c) => Once(Tail(q), type, c)
         /\ Head(q).type = type /\ Head(q).call_id = c =>
              Has(q, type, c) /\ (Once(q, type, c) => ~Has(Tail(q), type, c))
<1> DEFINE n == Len(q)
           rest == Tail(q)
<1>1. /\ n \in Nat /\ n >= 1 /\ DOMAIN q = 1..n /\ DOMAIN rest = 1..(n - 1)
      /\ rest \in Seq(Msg) /\ Head(q) = q[1]
      /\ \A k \in 1..(n - 1) : rest[k] = q[k + 1] /\ k + 1 \in 1..n /\ k + 1 # 1
  OBVIOUS
<1> HIDE DEF rest, n
<1>2. Has(rest, type, c) => Has(q, type, c)
  BY <1>1 DEF Has
<1>3. ASSUME Once(q, type, c), NEW k \in 1..(n - 1), NEW l \in 1..(n - 1),
             rest[k].type = type, rest[k].call_id = c, rest[l].type = type, rest[l].call_id = c
      PROVE  k = l
  <2>1. k + 1 = l + 1
    BY <1>1, <1>3 DEF Once
  <2> QED BY <1>1, <2>1
<1>4. Once(q, type, c) => Once(rest, type, c)
  BY <1>1, <1>3 DEF Once
<1>5. ASSUME q[1].type = type, q[1].call_id = c
      PROVE  Has(q, type, c) /\ (Once(q, type, c) => ~Has(rest, type, c))
  <2>1. 1 \in 1..n
    BY <1>1
  <2> QED BY <1>1, <1>5, <2>1 DEF Has, Once
<1> QED BY <1>1, <1>2, <1>4, <1>5 DEF rest

\* A message that is sent comes last.
LEMMA AppendQueue ==
  ASSUME NEW q \in Seq(Msg), NEW m \in Msg, NEW type, NEW c
  PROVE  /\ Append(q, m) \in Seq(Msg)
         /\ Has(Append(q, m), type, c) <=> Has(q, type, c) \/ (m.type = type /\ m.call_id = c)
         /\ Once(q, type, c) /\ ~(Has(q, type, c) /\ m.type = type /\ m.call_id = c)
              => Once(Append(q, m), type, c)
<1> DEFINE n == Len(q)
           longer == Append(q, m)
<1>1. /\ n \in Nat /\ DOMAIN q = 1..n /\ DOMAIN longer = 1..(n + 1) /\ longer \in Seq(Msg)
      /\ longer[n + 1] = m /\ \A k \in 1..n : longer[k] = q[k]
  OBVIOUS
<1>2. n + 1 \in 1..(n + 1) /\ \A k \in 1..(n + 1) : k \in 1..n \/ k = n + 1
  BY <1>1
<1>3. \A k \in 1..n : k \in 1..(n + 1)
  BY <1>1
<1> HIDE DEF longer, n
<1>4. Has(longer, type, c) <=> Has(q, type, c) \/ (m.type = type /\ m.call_id = c)
  BY <1>1, <1>2, <1>3 DEF Has
<1>5. Once(q, type, c) /\ ~(Has(q, type, c) /\ m.type = type /\ m.call_id = c) => Once(longer, type, c)
  BY <1>1, <1>2 DEF Has, Once
<1> QED BY <1>1, <1>4, <1>5 DEF longer

\* What the type invariant says of a manager, and of a call on the screen.
LEMMA ManagerType ==
  ASSUME TypeOK, NEW b \in Browser, NEW i \in DOMAIN managers[b]
  PROVE  /\ managers[b][i] \in Manager
         /\ managers[b][i].remote \in Browser /\ managers[b][i].call_id \in CallId
         /\ managers[b][i].caller \in BOOLEAN
<1>1. managers[b][i] \in Manager
  BY DEF TypeOK
<1> QED BY <1>1 DEF Manager

LEMMA CallType ==
  ASSUME TypeOK, NEW b \in Browser, activeCall[b] # None
  PROVE  /\ activeCall[b] \in ActiveCall
         /\ activeCall[b].remote \in Browser /\ activeCall[b].call_id \in CallId
<1>1. activeCall[b] \in ActiveCall
  BY DEF TypeOK
<1> QED BY <1>1 DEF ActiveCall

\* One manager is changed.
SetAt(mgrs, b, i, m) == [mgrs EXCEPT ![b][i] = m]

LEMMA SetManager ==
  ASSUME NEW mgrs \in [Browser -> Seq(Manager)], NEW b \in Browser, NEW i \in DOMAIN mgrs[b],
         NEW m \in Manager
  PROVE  LET new == SetAt(mgrs, b, i, m) IN
         /\ new \in [Browser -> Seq(Manager)]
         /\ \A x \in Browser : DOMAIN new[x] = DOMAIN mgrs[x]
         /\ new[b][i] = m
         /\ \A x \in Browser : \A j \in DOMAIN mgrs[x] : x # b \/ j # i => new[x][j] = mgrs[x][j]
<1> DEFINE new == SetAt(mgrs, b, i, m)
           q == [mgrs[b] EXCEPT ![i] = m]
<1>1. mgrs[b] \in Seq(Manager)
  OBVIOUS
<1>2. q \in Seq(Manager) /\ DOMAIN q = DOMAIN mgrs[b]
  BY <1>1
<1>3. q[i] = m /\ \A j \in DOMAIN mgrs[b] : j # i => q[j] = mgrs[b][j]
  BY <1>1
<1>4. new = [mgrs EXCEPT ![b] = q]
  BY DEF SetAt
<1> HIDE DEF q, new
<1>5. /\ new \in [Browser -> Seq(Manager)]
      /\ \A x \in Browser : DOMAIN new[x] = DOMAIN mgrs[x]
      /\ new[b][i] = m
      /\ \A x \in Browser : \A j \in DOMAIN mgrs[x] : x # b \/ j # i => new[x][j] = mgrs[x][j]
  BY <1>2, <1>3, <1>4
<1> QED BY <1>5 DEF new

\* What the managers are about stays; a prompt that was answered stays answered.
SameManagers ==
  /\ managers' \in [Browser -> Seq(Manager)]
  /\ \A b \in Browser : DOMAIN managers'[b] = DOMAIN managers[b]
  /\ \A b \in Browser : \A i \in DOMAIN managers[b] :
       /\ managers'[b][i].call_id = managers[b][i].call_id
       /\ managers'[b][i].remote = managers[b][i].remote
       /\ managers'[b][i].caller <=> managers[b][i].caller
       /\ managers'[b][i].media = "asking" => managers[b][i].media = "asking"

SdpKept == \A b \in Browser : \A i \in DOMAIN managers[b] : managers'[b][i].sdp = managers[b][i].sdp

\* HungUp changes the connection and the capture only.
LEMMA HungUpManager ==
  ASSUME NEW m \in Manager
  PROVE  /\ HungUp(m) \in Manager /\ HungUp(m).call_id = m.call_id /\ HungUp(m).remote = m.remote
         /\ HungUp(m).caller <=> m.caller
         /\ HungUp(m).sdp = m.sdp
         /\ HungUp(m).media = "asking" => m.media = "asking"
BY DEF HungUp, Manager

-----------------------------------------------------------------------------
(* What is on the wire after a step. *)

WireType == wire' \in [Browser -> [Browser -> Seq(Msg)]]

\* No message is new.
Quieter ==
  /\ WireType
  /\ \A x, y \in Browser, t \in MsgType, d \in CallId :
       /\ Has(wire'[x][y], t, d) => Has(wire[x][y], t, d)
       /\ Once(wire[x][y], t, d) => Once(wire'[x][y], t, d)

\* No message is new but, perhaps, one of this type for c from a to b.
Said(a, b, type, c) ==
  /\ WireType
  /\ \A x, y \in Browser, t \in MsgType, d \in CallId :
       LET new == x = a /\ y = b /\ t = type /\ d = c
       IN /\ Has(wire'[x][y], t, d) => Has(wire[x][y], t, d) \/ new
          /\ Once(wire[x][y], t, d) /\ ~(new /\ Has(wire[x][y], t, d)) => Once(wire'[x][y], t, d)

LEMMA QuietSays ==
  ASSUME Quieter, NEW a, NEW b, NEW type, NEW c
  PROVE  Said(a, b, type, c)
BY DEF Quieter, Said

LEMMA UnchangedWire ==
  ASSUME TypeOK, UNCHANGED wire
  PROVE  Quieter
BY DEF Quieter, WireType, TypeOK

\* Taking the oldest message from a to b.
LEMMA TakeQuiets ==
  ASSUME TypeOK, NEW a \in Browser, NEW b \in Browser, wire[a][b] # <<>>, Take(a, b)
  PROVE  /\ Quieter
         /\ Head(wire[a][b]) \in Msg /\ Callid(a, b) \in CallId
         /\ Head(wire[a][b]).type \in MsgType
         /\ Has(wire[a][b], Head(wire[a][b]).type, Callid(a, b))
         /\ Once(wire[a][b], Head(wire[a][b]).type, Callid(a, b))
              => ~Has(wire'[a][b], Head(wire[a][b]).type, Callid(a, b))
<1>1. /\ wire \in [Browser -> [Browser -> Seq(Msg)]] /\ wire[a][b] \in Seq(Msg)
      /\ wire' = [wire EXCEPT ![a][b] = Tail(@)]
  BY DEF TypeOK, Take
<1>2. Head(wire[a][b]) \in Msg /\ Tail(wire[a][b]) \in Seq(Msg)
  BY <1>1
<1>3. /\ wire'[a][b] = Tail(wire[a][b])
      /\ \A x, y \in Browser : x # a \/ y # b => wire'[x][y] = wire[x][y]
      /\ wire' \in [Browser -> [Browser -> Seq(Msg)]]
  BY <1>1, <1>2
<1>4. Quieter
  <2> SUFFICES ASSUME NEW x \in Browser, NEW y \in Browser, NEW t \in MsgType, NEW d \in CallId
               PROVE  /\ Has(wire'[x][y], t, d) => Has(wire[x][y], t, d)
                      /\ Once(wire[x][y], t, d) => Once(wire'[x][y], t, d)
    BY <1>3 DEF Quieter, WireType
  <2>1. CASE x = a /\ y = b
    BY <1>1, <1>3, <2>1, TailQueue
  <2>2. CASE x # a \/ y # b
    BY <1>3, <2>2
  <2> QED BY <2>1, <2>2
<1>5. /\ Callid(a, b) \in CallId /\ Head(wire[a][b]).type \in MsgType
      /\ Callid(a, b) = Head(wire[a][b]).call_id
  BY <1>2 DEF Msg, MsgType, Callid
<1>6. /\ Has(wire[a][b], Head(wire[a][b]).type, Head(wire[a][b]).call_id)
      /\ Once(wire[a][b], Head(wire[a][b]).type, Head(wire[a][b]).call_id)
           => ~Has(Tail(wire[a][b]), Head(wire[a][b]).type, Head(wire[a][b]).call_id)
  BY <1>1, TailQueue
<1> QED BY <1>2, <1>3, <1>4, <1>5, <1>6

\* Sending one message, or none.
LEMMA SendSays ==
  ASSUME TypeOK, NEW b \in Browser, NEW r, r.remote \in Browser, r.call_id \in CallId,
         NEW type \in MsgType, NEW outcome, Send(b, r, <<type>>, outcome)
  PROVE  Said(b, r.remote, type, r.call_id)
<1> DEFINE a == r.remote
           c == r.call_id
           m == [type |-> type, call_id |-> c]
<1>1. m \in Msg /\ m.type = type /\ m.call_id = c
  BY DEF Msg, MsgType
<1>2. wire \in [Browser -> [Browser -> Seq(Msg)]] /\ wire[b][a] \in Seq(Msg)
  BY DEF TypeOK
<1>3. CASE wire' = wire
  BY <1>2, <1>3 DEF Said, WireType
<1>4. CASE wire' # wire
  <2> DEFINE said == [k \in DOMAIN <<type>> |-> [type |-> <<type>>[k], call_id |-> r.call_id]]
  <2>1. wire' = [wire EXCEPT ![b][a] = @ \o said]
    BY <1>4 DEF Send
  <2>2. said = <<m>>
    OBVIOUS
  <2> HIDE DEF said, m
  <2>3. wire[b][a] \o said = Append(wire[b][a], m) /\ Append(wire[b][a], m) \in Seq(Msg)
    BY <1>1, <1>2, <2>2
  <2>4. wire' = [wire EXCEPT ![b][a] = Append(wire[b][a], m)]
    BY <1>2, <2>1, <2>3
  <2>5. /\ wire'[b][a] = Append(wire[b][a], m)
        /\ \A x, y \in Browser : x # b \/ y # a => wire'[x][y] = wire[x][y]
        /\ wire' \in [Browser -> [Browser -> Seq(Msg)]]
    BY <1>2, <2>3, <2>4
  <2> SUFFICES ASSUME NEW x \in Browser, NEW y \in Browser, NEW t \in MsgType, NEW d \in CallId
               PROVE  LET new == x = b /\ y = a /\ t = type /\ d = c
                      IN /\ Has(wire'[x][y], t, d) => Has(wire[x][y], t, d) \/ new
                         /\ Once(wire[x][y], t, d) /\ ~(new /\ Has(wire[x][y], t, d))
                              => Once(wire'[x][y], t, d)
    BY <2>5 DEF Said, WireType
  <2>6. CASE x = b /\ y = a
    <3>1. /\ Has(Append(wire[b][a], m), t, d) <=> Has(wire[b][a], t, d) \/ (m.type = t /\ m.call_id = d)
          /\ Once(wire[b][a], t, d) /\ ~(Has(wire[b][a], t, d) /\ m.type = t /\ m.call_id = d)
               => Once(Append(wire[b][a], m), t, d)
      BY <1>1, <1>2, AppendQueue
    <3> QED BY <1>1, <2>5, <2>6, <3>1
  <2>7. CASE x # b \/ y # a
    BY <2>5, <2>7
  <2> QED BY <2>6, <2>7
<1> QED BY <1>3, <1>4

LEMMA SendNothing ==
  ASSUME TypeOK, NEW b \in Browser, NEW r, r.remote \in Browser,
         NEW outcome, Send(b, r, <<>>, outcome)
  PROVE  Quieter
<1>1. wire \in [Browser -> [Browser -> Seq(Msg)]] /\ wire[b][r.remote] \in Seq(Msg)
  BY DEF TypeOK
<1>2. [k \in DOMAIN << >> |-> [type |-> << >>[k], call_id |-> r.call_id]] = << >>
  OBVIOUS
<1>3. wire' = wire
  BY <1>1, <1>2 DEF Send
<1> QED BY <1>3, UnchangedWire

-----------------------------------------------------------------------------
(* What a step keeps that makes no manager. *)

\* No call comes on the screen; one that is there may leave, or change its status.
ScreenKept ==
  \A b \in Browser : activeCall'[b] # None =>
    /\ activeCall[b] # None
    /\ activeCall'[b].call_id = activeCall[b].call_id
    /\ activeCall'[b].remote = activeCall[b].remote
    /\ activeCall'[b].status = "incoming" => activeCall[b].status = "incoming"

\* Only the call on the screen is ended, and only then the current manager let go.
CurrentKept ==
  \A b \in Browser :
    /\ endedCallIds[b] \subseteq endedCallIds'[b]
    /\ \A c \in endedCallIds'[b] : c \in endedCallIds[b] \/ InCall(b, c)
    /\ webrtc'[b] = webrtc[b]
         \/ (activeCall'[b] # None => activeCall'[b].call_id \in endedCallIds'[b])

LEMMA SamePlaced ==
  ASSUME SameManagers
  PROVE  /\ \A a, b \in Browser : \A i, c :
              /\ Placed(managers', a, i, b, c) <=> Placed(managers, a, i, b, c)
              /\ managers'[a][i].media = "asking" /\ Placed(managers, a, i, b, c)
                   => managers[a][i].media = "asking"
         /\ \A a, b \in Browser : \A c : Between(managers', a, b, c) <=> Between(managers, a, b, c)
         /\ \A b \in Browser : \A c :
              /\ Callee(managers', b, c) = Callee(managers, b, c)
              /\ Granted(managers, b, c) \subseteq Granted(managers', b, c)
<1>1. \A a, b \in Browser : \A i, c :
        /\ Placed(managers', a, i, b, c) <=> Placed(managers, a, i, b, c)
        /\ managers'[a][i].media = "asking" /\ Placed(managers, a, i, b, c) => managers[a][i].media = "asking"
  BY DEF SameManagers, Placed
<1>2. \A a, b \in Browser : \A c : Between(managers', a, b, c) <=> Between(managers, a, b, c)
  BY <1>1 DEF SameManagers, Between
<1>3. \A b \in Browser : \A c : Callee(managers', b, c) = Callee(managers, b, c)
  BY DEF SameManagers, Callee
<1>4. ASSUME NEW b \in Browser, NEW c
      PROVE  Granted(managers, b, c) \subseteq Granted(managers', b, c)
  <2>1. Callee(managers, b, c) \subseteq DOMAIN managers[b]
    BY DEF Callee
  <2> QED BY <1>3, <2>1 DEF SameManagers, Granted
<1> QED BY <1>1, <1>2, <1>3, <1>4

LEMMA OneCallerKept == SameManagers /\ OneCaller => OneCaller'
BY DEF SameManagers, OneCaller

LEMMA KnownKept ==
  ASSUME Known, SameManagers, ScreenKept, CurrentKept, UNCHANGED used,
         NEW a \in Browser, NEW b \in Browser, NEW type, NEW c, Said(a, b, type, c),
         c \in used \/ Quieter
  PROVE  Known'
<1>1. \A x \in Browser : activeCall'[x] # None => activeCall'[x].call_id \in used
  BY DEF Known, ScreenKept
<1>2. \A x \in Browser : endedCallIds'[x] \subseteq used
  BY DEF Known, CurrentKept, InCall
<1>3. \A x \in Browser : \A i \in DOMAIN managers'[x] : managers'[x][i].call_id \in used
  BY DEF Known, SameManagers
<1>4. \A x, y \in Browser, d \in CallId : \A t \in MsgType : Has(wire'[x][y], t, d) => d \in used
  BY DEF Known, Said, Quieter
<1> QED BY <1>1, <1>2, <1>3, <1>4 DEF Known

LEMMA PairedKept ==
  ASSUME TypeOK, Paired, SameManagers, ScreenKept,
         NEW a \in Browser, NEW b \in Browser, NEW type, NEW c, Said(a, b, type, c),
         type \in {"call_request", "sdp_offer"} => Between(managers, a, b, c),
         type \in {"call_accepted", "sdp_answer"} => Between(managers, b, a, c)
  PROVE  Paired'
<1>1. \A x, y \in Browser : \A d : Between(managers', x, y, d) <=> Between(managers, x, y, d)
  BY SamePlaced
<1>2. \A x \in Browser : /\ \A i \in DOMAIN managers[x] : managers[x][i].remote \in Browser
                         /\ activeCall[x] # None => activeCall[x].remote \in Browser
  BY ManagerType, CallType
<1>3. \A x \in Browser : \A i \in DOMAIN managers'[x] : ~managers'[x][i].caller
        => Between(managers', managers'[x][i].remote, x, managers'[x][i].call_id)
  <2> SUFFICES ASSUME NEW x \in Browser, NEW i \in DOMAIN managers'[x], ~managers'[x][i].caller
               PROVE  Between(managers', managers'[x][i].remote, x, managers'[x][i].call_id)
    OBVIOUS
  <2>1. /\ i \in DOMAIN managers[x] /\ ~managers[x][i].caller
        /\ managers'[x][i].remote = managers[x][i].remote
        /\ managers'[x][i].call_id = managers[x][i].call_id
    BY DEF SameManagers
  <2>2. Between(managers, managers[x][i].remote, x, managers[x][i].call_id)
    BY <2>1 DEF Paired
  <2> QED BY <1>1, <1>2, <2>1, <2>2
<1>4. \A x \in Browser : activeCall'[x] # None =>
        LET r == activeCall'[x]
        IN /\ Between(managers', r.remote, x, r.call_id) \/ Between(managers', x, r.remote, r.call_id)
           /\ r.status = "incoming" => Between(managers', r.remote, x, r.call_id)
  BY <1>1, <1>2 DEF Paired, ScreenKept
<1>5. \A x, y \in Browser, d \in CallId :
        /\ Has(wire'[x][y], "call_request", d) \/ Has(wire'[x][y], "sdp_offer", d)
             => Between(managers', x, y, d)
        /\ Has(wire'[x][y], "call_accepted", d) \/ Has(wire'[x][y], "sdp_answer", d)
             => Between(managers', y, x, d)
  <2>1. {"call_request", "sdp_offer", "call_accepted", "sdp_answer"} \subseteq MsgType
    BY DEF MsgType
  <2> QED BY <1>1, <2>1 DEF Paired, Said
<1> QED BY <1>3, <1>4, <1>5 DEF Paired

LEMMA RequestedKept ==
  ASSUME TypeOK, Requested, SameManagers, ScreenKept,
         NEW a, NEW b, NEW type, NEW c, Said(a, b, type, c), type # "call_request"
  PROVE  Requested'
<1> SUFFICES ASSUME NEW x \in Browser, NEW y \in Browser, NEW d \in CallId,
                    NEW i \in DOMAIN managers'[x], Placed(managers', x, i, y, d)
             PROVE  /\ Once(wire'[x][y], "call_request", d)
                    /\ managers'[x][i].media = "asking" => ~Has(wire'[x][y], "call_request", d)
                    /\ managers'[x][i].media = "asking" \/ Has(wire'[x][y], "call_request", d)
                         => Unheard(y, d)'
  BY DEF Requested
<1>1. /\ i \in DOMAIN managers[x] /\ Placed(managers, x, i, y, d)
      /\ managers'[x][i].media = "asking" => managers[x][i].media = "asking"
  BY SamePlaced DEF SameManagers
<1>2. /\ Once(wire[x][y], "call_request", d)
      /\ managers[x][i].media = "asking" => ~Has(wire[x][y], "call_request", d)
      /\ managers[x][i].media = "asking" \/ Has(wire[x][y], "call_request", d) => Unheard(y, d)
  BY <1>1 DEF Requested
<1>3. /\ Has(wire'[x][y], "call_request", d) => Has(wire[x][y], "call_request", d)
      /\ Once(wire'[x][y], "call_request", d)
  BY <1>2 DEF Said, MsgType
<1>4. Unheard(y, d) => Unheard(y, d)'
  BY DEF Unheard, InCall, ScreenKept, SameManagers
<1> QED BY <1>1, <1>2, <1>3, <1>4

LEMMA CurrentIsForKept ==
  ASSUME TypeOK, CurrentIsFor, SameManagers, ScreenKept, CurrentKept
  PROVE  CurrentIsFor'
<1> SUFFICES ASSUME NEW b \in Browser, NEW i \in DOMAIN managers'[b], NEW c,
                    c = managers'[b][i].call_id, InCall(b, c)', c \notin endedCallIds'[b]
             PROVE  webrtc'[b] # None /\ managers'[b][webrtc'[b]].call_id = c
  BY DEF CurrentIsFor
<1>1. i \in DOMAIN managers[b] /\ c = managers[b][i].call_id
  BY DEF SameManagers
<1>2. InCall(b, c) /\ c \notin endedCallIds[b] /\ webrtc'[b] = webrtc[b]
  BY DEF InCall, ScreenKept, CurrentKept
<1>3. webrtc[b] # None /\ managers[b][webrtc[b]].call_id = c
  BY <1>1, <1>2 DEF CurrentIsFor
<1>4. webrtc[b] \in DOMAIN managers[b]
  BY <1>3 DEF TypeOK
<1> QED BY <1>2, <1>3, <1>4 DEF SameManagers

LEMMA RolesKept == SameManagers /\ SdpKept /\ Roles => Roles'
BY DEF SameManagers, SdpKept, Roles

\* A call whose ends are as far as before, and of which nothing new is said.
LEMMA NegotiationKept ==
  ASSUME NEW old, NEW new, NEW net, NEW next, NEW a, NEW i, NEW b, NEW c,
         Negotiation(old, net, a, i, b, c), new[a][i].sdp = old[a][i].sdp,
         Callee(new, b, c) = Callee(old, b, c),
         \A j \in Callee(old, b, c) : new[b][j].sdp = old[b][j].sdp,
         Has(next[a][b], "sdp_offer", c) => Has(net[a][b], "sdp_offer", c),
         Has(next[b][a], "sdp_answer", c) => Has(net[b][a], "sdp_answer", c),
         Once(net[a][b], "sdp_offer", c) => Once(next[a][b], "sdp_offer", c),
         Once(net[b][a], "sdp_answer", c) => Once(next[b][a], "sdp_answer", c)
  PROVE  Negotiation(new, next, a, i, b, c)
BY DEF Negotiation

LEMMA NegotiatedKept ==
  ASSUME TypeOK, Negotiated, SameManagers, SdpKept,
         NEW a, NEW b, NEW type, NEW c, Said(a, b, type, c), type \notin {"sdp_offer", "sdp_answer"}
  PROVE  Negotiated'
<1> SUFFICES ASSUME NEW x \in Browser, NEW y \in Browser, NEW d \in CallId,
                    NEW i \in DOMAIN managers'[x], Placed(managers', x, i, y, d)
             PROVE  Negotiation(managers', wire', x, i, y, d)
  BY DEF Negotiated
<1>1. /\ i \in DOMAIN managers[x] /\ Placed(managers, x, i, y, d)
      /\ managers'[x][i].sdp = managers[x][i].sdp
  BY SamePlaced DEF SameManagers, SdpKept
<1>2. /\ Callee(managers', y, d) = Callee(managers, y, d)
      /\ \A j \in Callee(managers, y, d) : managers'[y][j].sdp = managers[y][j].sdp
  BY SamePlaced DEF SdpKept, Callee
<1>3. /\ Has(wire'[x][y], "sdp_offer", d) => Has(wire[x][y], "sdp_offer", d)
      /\ Once(wire[x][y], "sdp_offer", d) => Once(wire'[x][y], "sdp_offer", d)
      /\ Has(wire'[y][x], "sdp_answer", d) => Has(wire[y][x], "sdp_answer", d)
      /\ Once(wire[y][x], "sdp_answer", d) => Once(wire'[y][x], "sdp_answer", d)
  BY DEF Said, MsgType
<1>4. Negotiation(managers, wire, x, i, y, d)
  BY <1>1 DEF Negotiated
<1> QED BY <1>1, <1>2, <1>3, <1>4, NegotiationKept

\* No caller has heard of an acceptance that had not.
HeardKept ==
  \A b \in Browser : \A i \in DOMAIN managers[b] :
    managers[b][i].caller /\ managers'[b][i].sdp # "none" => managers[b][i].sdp # "none"

LEMMA SdpHeard == SdpKept => HeardKept
BY DEF SdpKept, HeardKept

LEMMA AcceptanceKept ==
  ASSUME NEW old, NEW new, NEW net, NEW next, NEW a, NEW i, NEW b, NEW c,
         Acceptance(old, net, a, i, b, c),
         new[a][i].sdp # "none" => old[a][i].sdp # "none",
         Granted(old, b, c) \subseteq Granted(new, b, c),
         Has(next[b][a], "call_accepted", c) => Has(net[b][a], "call_accepted", c),
         Once(net[b][a], "call_accepted", c) => Once(next[b][a], "call_accepted", c)
  PROVE  Acceptance(new, next, a, i, b, c)
BY DEF Acceptance, Two

LEMMA AcceptancesKept ==
  ASSUME TypeOK, Acceptances, SameManagers, HeardKept,
         NEW a, NEW b, NEW type, NEW c, Said(a, b, type, c), type # "call_accepted"
  PROVE  Acceptances'
<1> SUFFICES ASSUME NEW x \in Browser, NEW y \in Browser, NEW d \in CallId,
                    NEW i \in DOMAIN managers'[x], Placed(managers', x, i, y, d)
             PROVE  Acceptance(managers', wire', x, i, y, d)
  BY DEF Acceptances
<1>1. i \in DOMAIN managers[x] /\ Placed(managers, x, i, y, d) /\ managers[x][i].caller
  BY SamePlaced DEF SameManagers, Placed
<1>2. Granted(managers, y, d) \subseteq Granted(managers', y, d)
  BY SamePlaced
<1>3. /\ Has(wire'[y][x], "call_accepted", d) => Has(wire[y][x], "call_accepted", d)
      /\ Once(wire[y][x], "call_accepted", d) => Once(wire'[y][x], "call_accepted", d)
  BY DEF Said, MsgType
<1>4. Acceptance(managers, wire, x, i, y, d)
  BY <1>1 DEF Acceptances
<1>5. managers'[x][i].sdp # "none" => managers[x][i].sdp # "none"
  BY <1>1 DEF HeardKept
<1> QED BY <1>2, <1>3, <1>4, <1>5, AcceptanceKept

LEMMA ErrorsKept ==
  ASSUME TypeOK, ErrorsCaused, SameManagers, ScreenKept, UNCHANGED faulty,
         ~faulty => \A b \in Browser :
           activeCall'[b] # None /\ activeCall'[b].status = "error" => activeCall[b].status = "error"
  PROVE  ErrorsCaused'
<1> SUFFICES ASSUME ~faulty, NEW b \in Browser, activeCall'[b] # None, activeCall'[b].status = "error"
             PROVE  Twice(managers', activeCall'[b].remote, activeCall'[b].call_id)
  BY DEF ErrorsCaused
<1>1. /\ activeCall[b] # None /\ activeCall[b].status = "error"
      /\ activeCall'[b].remote = activeCall[b].remote /\ activeCall'[b].call_id = activeCall[b].call_id
  BY DEF ScreenKept
<1>2. Twice(managers, activeCall[b].remote, activeCall[b].call_id)
  BY <1>1 DEF ErrorsCaused
<1>3. activeCall[b].remote \in Browser
  BY <1>1, CallType
<1>4. Twice(managers', activeCall[b].remote, activeCall[b].call_id)
  BY <1>2, <1>3 DEF SameManagers, Twice
<1> QED BY <1>1, <1>4

\* Nobody is shown an error that was not, unless there are faults.
NoNewError ==
  ~faulty => \A b \in Browser :
    activeCall'[b] # None /\ activeCall'[b].status = "error" => activeCall[b].status = "error"

\* What the controllers show stays right.
ScreenStep ==
  /\ activeCall' \in [Browser -> ActiveCall \union {None}]
  /\ endedCallIds' \in [Browser -> SUBSET CallId] /\ timers' \in [Browser -> Nat]
  /\ webrtc' \in [Browser -> Nat \union {None}]
  /\ \A b \in Browser : webrtc'[b] \in {None, webrtc[b]}
  /\ ScreenKept /\ CurrentKept /\ EndedCallIsCleared'

LEMMA TypeKept ==
  ASSUME TypeOK, ScreenStep, SameManagers, WireType, UNCHANGED <<pendingOffer, used, faulty>>
  PROVE  TypeOK'
<1>1. \A b \in Browser : webrtc'[b] = None \/ webrtc'[b] \in DOMAIN managers'[b]
  BY DEF TypeOK, ScreenStep, SameManagers
<1> QED BY <1>1 DEF TypeOK, ScreenStep, SameManagers, WireType

\* The steps that make no manager and do not touch a negotiation.
LEMMA QuietStep ==
  ASSUME CallInv, ScreenStep, NoNewError, SameManagers, SdpKept,
         UNCHANGED <<pendingOffer, used, faulty>>,
         NEW a \in Browser, NEW b \in Browser, NEW type, NEW c, Said(a, b, type, c),
         c \in used \/ Quieter,
         type \notin {"call_request", "call_accepted", "sdp_offer", "sdp_answer"}
  PROVE  CallInv'
<1>1. ScreenKept /\ CurrentKept /\ EndedCallIsCleared'
  BY DEF ScreenStep
<1>2. TypeOK'
  BY TypeKept DEF CallInv, Said
<1>3. OfferNeverBuffered'
  BY DEF CallInv, OfferNeverBuffered
<1>4. OneCaller' /\ Roles'
  BY OneCallerKept, RolesKept DEF CallInv
<1>5. Known'
  BY <1>1, KnownKept DEF CallInv
<1>6. Paired'
  BY <1>1, PairedKept DEF CallInv
<1>7. Requested'
  BY <1>1, RequestedKept DEF CallInv
<1>8. CurrentIsFor'
  BY <1>1, CurrentIsForKept DEF CallInv
<1>9. Negotiated'
  BY NegotiatedKept DEF CallInv
<1>10. Acceptances'
  BY AcceptancesKept, SdpHeard DEF CallInv
<1>11. ErrorsCaused'
  BY <1>1, ErrorsKept DEF CallInv, NoNewError
<1> QED BY <1>1, <1>2, <1>3, <1>4, <1>5, <1>6, <1>7, <1>8, <1>9, <1>10, <1>11 DEF CallInv

LEMMA SilentStep ==
  ASSUME CallInv, ScreenStep, NoNewError, SameManagers, SdpKept, Quieter,
         UNCHANGED <<pendingOffer, used, faulty>>, NEW b \in Browser
  PROVE  CallInv'
<1>1. Said(b, b, "", b)
  BY QuietSays
<1> QED BY <1>1, QuietStep

-----------------------------------------------------------------------------
(* The helpers of the handlers. *)

LEMMA SameScreen ==
  ASSUME CallInv, UNCHANGED <<activeCall, webrtc, endedCallIds, timers>>
  PROVE  ScreenStep /\ NoNewError
BY DEF CallInv, TypeOK, EndedCallIsCleared, ScreenStep, ScreenKept, CurrentKept, NoNewError

LEMMA UpdatedCall ==
  ASSUME CallInv, NEW b \in Browser, NEW status \in CallStatus, status # "incoming",
         UpdateCall(b, status), UNCHANGED <<webrtc, endedCallIds, timers>>
  PROVE  ScreenStep /\ (status # "error" \/ faulty => NoNewError)
<1>1. CASE activeCall[b] = None
  BY <1>1, SameScreen DEF UpdateCall
<1>2. CASE activeCall[b] # None
  <2> DEFINE r == [activeCall[b] EXCEPT !.status = status]
  <2>1. activeCall[b] \in ActiveCall
    BY <1>2, CallType DEF CallInv
  <2>2. /\ r \in ActiveCall /\ r.call_id = activeCall[b].call_id /\ r.remote = activeCall[b].remote
        /\ r.status = status
    BY <2>1 DEF ActiveCall
  <2>3. activeCall \in [Browser -> ActiveCall \union {None}] /\ activeCall' = [activeCall EXCEPT ![b] = r]
    BY <1>2 DEF UpdateCall, CallInv, TypeOK
  <2> HIDE DEF r
  <2>4. /\ activeCall' \in [Browser -> ActiveCall \union {None}] /\ activeCall'[b] = r
        /\ \A x \in Browser : x # b => activeCall'[x] = activeCall[x]
    BY <2>2, <2>3
  <2>5. ScreenKept /\ (status # "error" \/ faulty => NoNewError)
    BY <1>2, <2>2, <2>4 DEF ScreenKept, NoNewError
  <2>6. EndedCallIsCleared'
    BY <1>2, <2>2, <2>4 DEF CallInv, EndedCallIsCleared
  <2>7. CurrentKept
    BY DEF CurrentKept
  <2> QED BY <2>4, <2>5, <2>6, <2>7 DEF ScreenStep, CallInv, TypeOK
<1> QED BY <1>1, <1>2

\* Managers that differ in nothing the invariant is about but a prompt's answer.
Alike(old, new) ==
  /\ new \in [Browser -> Seq(Manager)]
  /\ \A b \in Browser : DOMAIN new[b] = DOMAIN old[b]
  /\ \A b \in Browser : \A i \in DOMAIN old[b] :
       /\ new[b][i].call_id = old[b][i].call_id /\ new[b][i].remote = old[b][i].remote
       /\ new[b][i].caller <=> old[b][i].caller
       /\ new[b][i].media = "asking" => old[b][i].media = "asking"
       /\ new[b][i].sdp = old[b][i].sdp

LEMMA AlikeSame == Alike(managers, managers') => SameManagers /\ SdpKept
BY DEF Alike, SameManagers, SdpKept

LEMMA AlikeTransitive ==
  ASSUME NEW old, NEW mid, NEW new, Alike(old, mid), Alike(mid, new)
  PROVE  Alike(old, new)
BY DEF Alike

LEMMA AlikeSet ==
  ASSUME NEW mgrs \in [Browser -> Seq(Manager)], NEW b \in Browser, NEW i \in DOMAIN mgrs[b],
         NEW m \in Manager,
         m.call_id = mgrs[b][i].call_id, m.remote = mgrs[b][i].remote,
         m.caller <=> mgrs[b][i].caller, m.media = "asking" => mgrs[b][i].media = "asking",
         m.sdp = mgrs[b][i].sdp
  PROVE  Alike(mgrs, SetAt(mgrs, b, i, m))
<1> DEFINE new == SetAt(mgrs, b, i, m)
<1>1. /\ new \in [Browser -> Seq(Manager)] /\ \A x \in Browser : DOMAIN new[x] = DOMAIN mgrs[x]
      /\ new[b][i] = m
      /\ \A x \in Browser : \A j \in DOMAIN mgrs[x] : x # b \/ j # i => new[x][j] = mgrs[x][j]
  BY SetManager
<1> HIDE DEF new
<1> SUFFICES ASSUME NEW x \in Browser, NEW j \in DOMAIN mgrs[x]
             PROVE  /\ new[x][j].call_id = mgrs[x][j].call_id /\ new[x][j].remote = mgrs[x][j].remote
                    /\ new[x][j].caller <=> mgrs[x][j].caller
                    /\ new[x][j].media = "asking" => mgrs[x][j].media = "asking"
                    /\ new[x][j].sdp = mgrs[x][j].sdp
  BY <1>1 DEF Alike, new
<1>2. CASE x = b /\ j = i
  BY <1>1, <1>2
<1>3. CASE x # b \/ j # i
  BY <1>1, <1>3
<1> QED BY <1>2, <1>3

LEMMA EndedCall ==
  ASSUME CallInv, NEW b \in Browser, NEW mgrs, Alike(managers, mgrs), EndCall(b, mgrs)
  PROVE  ScreenStep /\ NoNewError /\ SameManagers /\ SdpKept
<1>1. TypeOK /\ mgrs \in [Browser -> Seq(Manager)] /\ DOMAIN mgrs[b] = DOMAIN managers[b]
  BY DEF CallInv, Alike
<1>2. Alike(mgrs, managers')
  <2>1. CASE webrtc[b] = None
    BY <1>1, <2>1 DEF EndCall, Alike
  <2>2. CASE webrtc[b] # None
    <3>1. webrtc[b] \in DOMAIN mgrs[b]
      BY <1>1, <2>2 DEF TypeOK
    <3> DEFINE i == webrtc[b]
               m == mgrs[b][i]
               n == HungUp(m)
    <3>2. m \in Manager
      BY <1>1, <3>1
    <3>3. managers' = SetAt(mgrs, b, i, n) /\ i \in DOMAIN mgrs[b] /\ m = mgrs[b][i]
      BY <1>1, <2>2, <3>1 DEF EndCall, SetAt
    <3> HIDE DEF i, m
    <3>4. /\ n \in Manager /\ n.call_id = m.call_id /\ n.remote = m.remote /\ n.sdp = m.sdp
          /\ n.caller <=> m.caller
          /\ n.media = "asking" => m.media = "asking"
      BY <3>2, HungUpManager
    <3> HIDE DEF n
    <3>5. Alike(mgrs, SetAt(mgrs, b, i, n))
      BY <1>1, <3>3, <3>4, AlikeSet
    <3> QED BY <3>3, <3>5
  <2> QED BY <2>1, <2>2
<1>3. SameManagers /\ SdpKept
  BY <1>2, AlikeTransitive, AlikeSame
<1>4. webrtc' = [webrtc EXCEPT ![b] = None]
  BY DEF EndCall
<1>5. /\ webrtc' \in [Browser -> Nat \union {None}] /\ \A x \in Browser : webrtc'[x] \in {None, webrtc[x]}
      /\ \A x \in Browser : x # b => webrtc'[x] = webrtc[x]
  BY <1>1, <1>4 DEF TypeOK
<1>6. CASE activeCall[b] = None
  <2>1. UNCHANGED <<activeCall, endedCallIds, timers>>
    BY <1>6 DEF EndCall
  <2> QED BY <1>1, <1>3, <1>5, <1>6, <2>1
          DEF CallInv, TypeOK, EndedCallIsCleared, ScreenStep, ScreenKept, CurrentKept, NoNewError
<1>7. CASE activeCall[b] # None
  <2> DEFINE r == [activeCall[b] EXCEPT !.status = "ended"]
             c == activeCall[b].call_id
  <2>1. activeCall[b] \in ActiveCall /\ c \in CallId
    BY <1>1, <1>7, CallType
  <2>2. /\ r \in ActiveCall /\ r.call_id = c /\ r.remote = activeCall[b].remote
        /\ r.status = "ended"
    BY <2>1 DEF ActiveCall, CallStatus
  <2>3. /\ activeCall' = [activeCall EXCEPT ![b] = r]
        /\ endedCallIds' = [endedCallIds EXCEPT ![b] = @ \union {c}]
        /\ timers' = [timers EXCEPT ![b] = @ + 1]
    BY <1>7 DEF EndCall, StartTimer
  <2> HIDE DEF r, c
  <2>4. /\ activeCall' \in [Browser -> ActiveCall \union {None}] /\ activeCall'[b] = r
        /\ \A x \in Browser : x # b => activeCall'[x] = activeCall[x]
    BY <1>1, <2>2, <2>3 DEF TypeOK
  <2>5. /\ endedCallIds' \in [Browser -> SUBSET CallId] /\ endedCallIds'[b] = endedCallIds[b] \union {c}
        /\ \A x \in Browser : x # b => endedCallIds'[x] = endedCallIds[x]
    BY <1>1, <2>1, <2>3 DEF TypeOK
  <2>6. /\ timers' \in [Browser -> Nat] /\ timers'[b] > 0
        /\ \A x \in Browser : x # b => timers'[x] = timers[x]
    BY <1>1, <2>3 DEF TypeOK
  <2>7. ScreenKept /\ NoNewError
    BY <1>7, <2>2, <2>4 DEF ScreenKept, NoNewError, c
  <2>8. EndedCallIsCleared'
    BY <2>4, <2>5, <2>6 DEF CallInv, EndedCallIsCleared
  <2>9. CurrentKept
    BY <1>5, <1>7, <2>2, <2>4, <2>5 DEF CurrentKept, InCall, c
  <2> QED BY <1>3, <1>5, <2>4, <2>5, <2>6, <2>7, <2>8, <2>9 DEF ScreenStep
<1> QED BY <1>6, <1>7

LEMMA AlikeSelf ==
  ASSUME TypeOK
  PROVE  Alike(managers, managers)
BY DEF TypeOK, Alike

\* A manager is changed in nothing the invariant is about.
LEMMA OneManager ==
  ASSUME TypeOK, NEW b \in Browser, NEW i \in DOMAIN managers[b], NEW m \in Manager,
         managers' = SetAt(managers, b, i, m),
         m.call_id = managers[b][i].call_id, m.remote = managers[b][i].remote,
         m.caller <=> managers[b][i].caller,
         m.media = "asking" => managers[b][i].media = "asking",
         m.sdp = managers[b][i].sdp
  PROVE  SameManagers /\ SdpKept
<1>1. managers \in [Browser -> Seq(Manager)]
  BY DEF TypeOK
<1>2. Alike(managers, SetAt(managers, b, i, m))
  BY <1>1, AlikeSet
<1> QED BY <1>2, AlikeSame

LEMMA NoManager ==
  ASSUME TypeOK, UNCHANGED managers
  PROVE  SameManagers /\ SdpKept
BY AlikeSelf, AlikeSame

-----------------------------------------------------------------------------
(* The steps that do not touch a negotiation. *)

LEMMA RejectCallInv ==
  ASSUME CallInv, NEW b \in Browser, RejectCall(b)
  PROVE  CallInv'
<1>1. TypeOK /\ UNCHANGED <<pendingOffer, used, faulty>> /\ EndCall(b, managers) /\ activeCall[b] # None
  BY DEF CallInv, RejectCall, Ringing
<1>2. ScreenStep /\ NoNewError /\ SameManagers /\ SdpKept
  BY <1>1, AlikeSelf, EndedCall
<1> DEFINE r == activeCall[b]
<1>3. r.remote \in Browser /\ r.call_id \in CallId /\ r.call_id \in used
  BY <1>1, CallType DEF CallInv, Known
<1>4. PICK outcome \in SendOutcome : Send(b, r, <<"call_rejected">>, outcome)
  BY DEF RejectCall
<1>5. "call_rejected" \in MsgType
  BY DEF MsgType
<1> HIDE DEF r
<1>6. Said(b, r.remote, "call_rejected", r.call_id)
  BY <1>1, <1>3, <1>4, <1>5, SendSays
<1> QED BY <1>1, <1>2, <1>3, <1>6, QuietStep

LEMMA HangUpInv ==
  ASSUME CallInv, NEW b \in Browser, HangUp(b)
  PROVE  CallInv'
<1>1. TypeOK /\ UNCHANGED <<pendingOffer, used, faulty>> /\ EndCall(b, managers) /\ activeCall[b] # None
  BY DEF CallInv, HangUp
<1>2. ScreenStep /\ NoNewError /\ SameManagers /\ SdpKept
  BY <1>1, AlikeSelf, EndedCall
<1> DEFINE r == activeCall[b]
<1>3. r.remote \in Browser /\ r.call_id \in CallId /\ r.call_id \in used
  BY <1>1, CallType DEF CallInv, Known
<1>4. PICK outcome \in SendOutcome : Send(b, r, IF r.status = "error" THEN <<>> ELSE <<"call_ended">>, outcome)
  BY DEF HangUp
<1>5. "call_ended" \in MsgType
  BY DEF MsgType
<1> HIDE DEF r
<1>6. Said(b, r.remote, "call_ended", r.call_id)
  <2>1. CASE r.status = "error"
    <3>1. Send(b, r, <<>>, outcome)
      BY <1>4, <2>1
    <3> QED BY <1>1, <1>3, <3>1, SendNothing, QuietSays
  <2>2. CASE r.status # "error"
    <3>1. Send(b, r, <<"call_ended">>, outcome)
      BY <1>4, <2>2
    <3> QED BY <1>1, <1>3, <1>5, <3>1, SendSays
  <2> QED BY <2>1, <2>2
<1> QED BY <1>1, <1>2, <1>3, <1>6, QuietStep

LEMMA MediaDeniedInv ==
  ASSUME CallInv, NEW b \in Browser, NEW i \in DOMAIN managers[b], MediaDenied(b, i)
  PROVE  CallInv'
<1> DEFINE m == [managers[b][i] EXCEPT !.media = "off"]
<1>1. /\ TypeOK /\ UNCHANGED <<webrtc, endedCallIds, pendingOffer, timers, wire, used, faulty>>
      /\ faulty /\ UpdateCall(b, "error") /\ managers' = SetAt(managers, b, i, m)
  BY DEF CallInv, MediaDenied, netVars, SetAt
<1>2. /\ m \in Manager /\ m.call_id = managers[b][i].call_id /\ m.remote = managers[b][i].remote
      /\ m.caller <=> managers[b][i].caller
      /\ m.media # "asking" /\ m.sdp = managers[b][i].sdp
  BY <1>1, ManagerType DEF Manager
<1> HIDE DEF m
<1>3. SameManagers /\ SdpKept
  BY <1>1, <1>2, OneManager
<1>4. ScreenStep /\ NoNewError
  BY <1>1, UpdatedCall DEF CallStatus
<1>5. Quieter
  BY <1>1, UnchangedWire
<1> QED BY <1>1, <1>3, <1>4, <1>5, SilentStep

LEMMA CandidateGatheredInv ==
  ASSUME CallInv, NEW b \in Browser, NEW i \in DOMAIN managers[b], CandidateGathered(b, i)
  PROVE  CallInv'
<1> DEFINE r == managers[b][i]
           m == [r EXCEPT !.gathered = TRUE]
<1>1. /\ TypeOK /\ UNCHANGED <<activeCall, webrtc, endedCallIds, pendingOffer, timers, used, faulty>>
      /\ managers' = SetAt(managers, b, i, m)
  BY DEF CallInv, CandidateGathered, ctrlVars, SetAt
<1>2. /\ m \in Manager /\ m.call_id = r.call_id /\ m.remote = r.remote
      /\ m.caller <=> r.caller
      /\ m.media = r.media /\ m.sdp = r.sdp
  <2>1. r \in Manager
    BY <1>1, ManagerType
  <2> HIDE DEF r
  <2>2. m \in Manager
    BY <2>1 DEF Manager
  <2>3. m.call_id = r.call_id /\ m.remote = r.remote /\ m.media = r.media /\ m.sdp = r.sdp
    BY <2>1 DEF Manager
  <2>4. m.caller <=> r.caller
    BY <2>1 DEF Manager
  <2> QED BY <2>2, <2>3, <2>4
<1>3. r.remote \in Browser /\ r.call_id \in CallId /\ r.call_id \in used
  BY <1>1, ManagerType DEF CallInv, Known
<1>4. PICK outcome \in SendOutcome : Send(b, r, <<"ice_candidate">>, outcome)
  BY DEF CandidateGathered
<1> HIDE DEF m
<1>5. SameManagers /\ SdpKept
  BY <1>1, <1>2, OneManager
<1> HIDE DEF r
<1>6. Said(b, r.remote, "ice_candidate", r.call_id)
  BY <1>1, <1>3, <1>4, SendSays DEF MsgType
<1> QED BY <1>1, <1>3, <1>5, <1>6, SameScreen, QuietStep

LEMMA ClearCallInv ==
  ASSUME CallInv, NEW b \in Browser, ClearCall(b)
  PROVE  CallInv'
<1>1. /\ TypeOK /\ UNCHANGED <<webrtc, endedCallIds, pendingOffer, managers, wire, used, faulty>>
      /\ timers[b] > 0 /\ timers' = [timers EXCEPT ![b] = @ - 1]
      /\ activeCall' = [activeCall EXCEPT ![b] = None]
  BY DEF CallInv, ClearCall, netVars
<1>2. /\ activeCall' \in [Browser -> ActiveCall \union {None}] /\ activeCall'[b] = None
      /\ timers' \in [Browser -> Nat]
      /\ \A x \in Browser : x # b => activeCall'[x] = activeCall[x] /\ timers'[x] = timers[x]
  BY <1>1 DEF TypeOK
<1>3. ScreenKept /\ CurrentKept /\ EndedCallIsCleared' /\ NoNewError
  BY <1>1, <1>2 DEF CallInv, EndedCallIsCleared, ScreenKept, CurrentKept, NoNewError
<1>4. ScreenStep
  BY <1>1, <1>2, <1>3 DEF TypeOK, ScreenStep
<1>5. Quieter /\ SameManagers /\ SdpKept
  BY <1>1, UnchangedWire, NoManager
<1> QED BY <1>1, <1>3, <1>4, <1>5, SilentStep

LEMMA ConnectedInv ==
  ASSUME CallInv, NEW b \in Browser, NEW i \in DOMAIN managers[b], Connected(b, i)
  PROVE  CallInv'
<1> DEFINE r == managers[b][i]
           m == [r EXCEPT !.conn = "connected"]
<1>1. /\ TypeOK /\ UNCHANGED <<webrtc, endedCallIds, pendingOffer, timers, wire, used, faulty>>
      /\ UpdateCall(b, "active") /\ managers' = SetAt(managers, b, i, m)
  BY DEF CallInv, Connected, netVars, SetAt
<1>2. r \in Manager
  BY <1>1, ManagerType
<1>3. SameManagers /\ SdpKept
  <2>1. /\ m \in Manager /\ m.call_id = r.call_id /\ m.remote = r.remote
        /\ m.caller <=> r.caller
        /\ m.media = r.media /\ m.sdp = r.sdp
    BY <1>2 DEF Manager
  <2> HIDE DEF m
  <2> QED BY <1>1, <2>1, OneManager
<1>4. ScreenStep /\ NoNewError
  BY <1>1, UpdatedCall DEF CallStatus
<1>5. Quieter
  BY <1>1, UnchangedWire
<1> QED BY <1>1, <1>3, <1>4, <1>5, SilentStep

LEMMA ConnectionFailedInv ==
  ASSUME CallInv, NEW b \in Browser, NEW i \in DOMAIN managers[b], ConnectionFailed(b, i)
  PROVE  CallInv'
<1> DEFINE r == managers[b][i]
           m == [r EXCEPT !.conn = "failed"]
<1>1. /\ TypeOK /\ UNCHANGED <<pendingOffer, wire, used, faulty>>
      /\ EndCall(b, SetAt(managers, b, i, m))
  BY DEF CallInv, ConnectionFailed, netVars, SetAt
<1>2. r \in Manager /\ managers \in [Browser -> Seq(Manager)]
  BY <1>1, ManagerType DEF TypeOK
<1>3. Alike(managers, SetAt(managers, b, i, m))
  <2>1. /\ m \in Manager /\ m.call_id = r.call_id /\ m.remote = r.remote
        /\ m.caller <=> r.caller
        /\ m.media = r.media /\ m.sdp = r.sdp
    BY <1>2 DEF Manager
  <2> HIDE DEF m
  <2> QED BY <1>2, <2>1, AlikeSet
<1> HIDE DEF m
<1>4. ScreenStep /\ NoNewError /\ SameManagers /\ SdpKept
  BY <1>1, <1>3, EndedCall
<1>5. Quieter
  BY <1>1, UnchangedWire
<1> QED BY <1>1, <1>4, <1>5, SilentStep

LEMMA IgnoreInv ==
  ASSUME CallInv, NEW a \in Browser, NEW b \in Browser, Ignore(a, b)
  PROVE  CallInv'
<1>1. /\ TypeOK /\ UNCHANGED <<activeCall, webrtc, endedCallIds, pendingOffer, timers, managers, used, faulty>>
      /\ wire[a][b] # <<>> /\ Take(a, b)
  BY DEF CallInv, Ignore, ctrlVars
<1>2. Quieter /\ SameManagers /\ SdpKept
  BY <1>1, TakeQuiets, NoManager
<1> QED BY <1>1, <1>2, SameScreen, SilentStep

LEMMA OnCallOverInv ==
  ASSUME CallInv, NEW a \in Browser, NEW b \in Browser, OnCallOver(a, b)
  PROVE  CallInv'
<1>1. /\ TypeOK /\ UNCHANGED <<pendingOffer, used, faulty>> /\ EndCall(b, managers)
      /\ wire[a][b] # <<>> /\ Take(a, b)
  BY DEF CallInv, OnCallOver, Arriving
<1>2. Quieter
  BY <1>1, TakeQuiets
<1>3. ScreenStep /\ NoNewError /\ SameManagers /\ SdpKept
  BY <1>1, AlikeSelf, EndedCall
<1> QED BY <1>1, <1>2, <1>3, SilentStep

LEMMA OnIceCandidateInv ==
  ASSUME CallInv, NEW a \in Browser, NEW b \in Browser, OnIceCandidate(a, b)
  PROVE  CallInv'
<1>1. /\ TypeOK /\ UNCHANGED <<activeCall, webrtc, endedCallIds, pendingOffer, timers, used, faulty>>
      /\ wire[a][b] # <<>> /\ Take(a, b)
  BY DEF CallInv, OnIceCandidate, ctrlVars, Arriving
<1>2. Quieter
  BY <1>1, TakeQuiets
<1>3. SameManagers /\ SdpKept
  <2>1. CASE managers' = managers
    BY <1>1, <2>1, NoManager
  <2>2. CASE managers' # managers
    <3> DEFINE i == webrtc[b]
               r == managers[b][i]
    <3>1. webrtc[b] # None
      BY <2>2 DEF OnIceCandidate
    <3>2. PICK value \in {"added", "pending"} : managers' = [managers EXCEPT ![b][i].candidate = value]
      <4>1. PICK known :
              managers' = IF r.call_id # Callid(a, b) THEN managers
                          ELSE [managers EXCEPT ![b][i].candidate = IF known THEN "added" ELSE "pending"]
        BY <2>2, <3>1 DEF OnIceCandidate
      <4> QED BY <2>2, <4>1
    <3>3. i \in DOMAIN managers[b]
      BY <1>1, <3>1 DEF TypeOK
    <3> DEFINE m == [r EXCEPT !.candidate = value]
    <3>4. managers' = SetAt(managers, b, i, m)
      BY <3>2 DEF SetAt
    <3>5. r \in Manager
      BY <1>1, <3>3, ManagerType
    <3> HIDE DEF i
    <3>6. /\ m \in Manager /\ m.call_id = r.call_id /\ m.remote = r.remote
          /\ m.caller <=> r.caller
          /\ m.media = r.media /\ m.sdp = r.sdp
      BY <3>5 DEF Manager
    <3> HIDE DEF m
    <3> QED BY <1>1, <3>3, <3>4, <3>6, OneManager
  <2> QED BY <2>1, <2>2
<1> QED BY <1>1, <1>2, <1>3, SameScreen, SilentStep

-----------------------------------------------------------------------------
(* Who a call is between. *)

LEMMA OneBetween ==
  ASSUME CallInv, NEW a \in Browser, NEW b \in Browser, NEW i, NEW c,
         NEW x \in Browser, NEW y \in Browser, NEW j,
         Placed(managers, a, i, b, c), Placed(managers, x, j, y, c)
  PROVE  a = x /\ i = j /\ b = y /\ a # b
BY DEF CallInv, OneCaller, Placed

\* The caller's only manager for a call, and the callee's ones.
LEMMA OwnManager ==
  ASSUME CallInv, NEW a \in Browser, NEW b \in Browser, NEW c, Between(managers, a, b, c),
         NEW j \in DOMAIN managers[a], managers[a][j].call_id = c
  PROVE  Placed(managers, a, j, b, c)
<1>1. PICK i \in DOMAIN managers[a] : Placed(managers, a, i, b, c)
  BY DEF Between
<1>2. CASE managers[a][j].caller
  <2>1. Placed(managers, a, j, managers[a][j].remote, c) /\ managers[a][j].remote \in Browser
    BY <1>2, ManagerType DEF Placed, CallInv
  <2> QED BY <1>1, <2>1, OneBetween
<1>3. CASE ~managers[a][j].caller
  <2> DEFINE x == managers[a][j].remote
  <2>1. Between(managers, x, a, c) /\ x \in Browser
    BY <1>3, ManagerType DEF CallInv, Paired
  <2>2. PICK k \in DOMAIN managers[x] : Placed(managers, x, k, a, c)
    BY <2>1 DEF Between
  <2> QED BY <1>1, <2>1, <2>2, OneBetween
<1> QED BY <1>2, <1>3

LEMMA TheirManager ==
  ASSUME CallInv, NEW a \in Browser, NEW b \in Browser, NEW c, Between(managers, a, b, c),
         NEW j \in DOMAIN managers[b], managers[b][j].call_id = c
  PROVE  j \in Callee(managers, b, c) /\ ~managers[b][j].caller /\ managers[b][j].remote = a
<1> DEFINE x == managers[b][j].remote
<1>1. PICK i \in DOMAIN managers[a] : Placed(managers, a, i, b, c)
  BY DEF Between
<1>2. x \in Browser
  BY ManagerType DEF CallInv
<1>3. ~managers[b][j].caller
  <2> SUFFICES ASSUME managers[b][j].caller
               PROVE  FALSE
    OBVIOUS
  <2>1. Placed(managers, b, j, x, c)
    BY DEF Placed
  <2> QED BY <1>1, <1>2, <2>1, OneBetween
<1>4. Between(managers, x, b, c)
  BY <1>3 DEF CallInv, Paired
<1>5. PICK k \in DOMAIN managers[x] : Placed(managers, x, k, b, c)
  BY <1>4 DEF Between
<1>6. x = a
  BY <1>1, <1>2, <1>5, OneBetween
<1> QED BY <1>3, <1>6 DEF Callee

\* A manager that heeds a message is the current one for its call.
LEMMA HeededManager ==
  ASSUME CallInv, NEW b \in Browser, NEW c, InCall(b, c), c \notin endedCallIds[b],
         NEW i \in DOMAIN managers[b], managers[b][i].call_id = c
  PROVE  webrtc[b] # None /\ webrtc[b] \in DOMAIN managers[b] /\ managers[b][webrtc[b]].call_id = c
BY DEF CallInv, CurrentIsFor, TypeOK

-----------------------------------------------------------------------------
(* The steps of a negotiation. *)

\* What is left to show of a step that makes no manager and sends no request.
LEMMA SdpStep ==
  ASSUME CallInv, ScreenStep, SameManagers, UNCHANGED <<pendingOffer, used, faulty>>,
         NEW a \in Browser, NEW b \in Browser, NEW type, NEW c, Said(a, b, type, c),
         c \in used \/ Quieter,
         type # "call_request",
         type = "sdp_offer" => Between(managers, a, b, c),
         type \in {"call_accepted", "sdp_answer"} => Between(managers, b, a, c),
         Roles', Negotiated', Acceptances', ErrorsCaused'
  PROVE  CallInv'
<1>1. ScreenKept /\ CurrentKept /\ EndedCallIsCleared'
  BY DEF ScreenStep
<1>2. TypeOK'
  BY TypeKept DEF CallInv, Said
<1>3. OfferNeverBuffered'
  BY DEF CallInv, OfferNeverBuffered
<1>4. OneCaller'
  BY OneCallerKept DEF CallInv
<1>5. Known'
  BY <1>1, KnownKept DEF CallInv
<1>6. Paired'
  BY <1>1, PairedKept DEF CallInv
<1>7. Requested'
  BY <1>1, RequestedKept DEF CallInv
<1>8. CurrentIsFor'
  BY <1>1, CurrentIsForKept DEF CallInv
<1> QED BY <1>1, <1>2, <1>3, <1>4, <1>5, <1>6, <1>7, <1>8 DEF CallInv

LEMMA SdpSilentStep ==
  ASSUME CallInv, ScreenStep, SameManagers, UNCHANGED <<pendingOffer, used, faulty>>,
         NEW b \in Browser, Quieter, Roles', Negotiated', Acceptances', ErrorsCaused'
  PROVE  CallInv'
<1>1. Said(b, b, "", b)
  BY QuietSays
<1> QED BY <1>1, SdpStep

\* One manager's negotiation goes a step further.
LEMMA OneSdp ==
  ASSUME TypeOK, NEW b \in Browser, NEW i \in DOMAIN managers[b], NEW m \in Manager,
         managers' = SetAt(managers, b, i, m),
         m.call_id = managers[b][i].call_id, m.remote = managers[b][i].remote,
         m.caller <=> managers[b][i].caller, m.media = managers[b][i].media
  PROVE  /\ SameManagers
         /\ managers'[b][i].sdp = m.sdp
         /\ \A x \in Browser : \A j \in DOMAIN managers[x] :
              x # b \/ j # i => managers'[x][j].sdp = managers[x][j].sdp
         /\ \A x \in Browser : \A j \in DOMAIN managers[x] :
              managers'[x][j].media = managers[x][j].media
<1> DEFINE new == SetAt(managers, b, i, m)
<1>1. managers \in [Browser -> Seq(Manager)]
  BY DEF TypeOK
<1>2. /\ new \in [Browser -> Seq(Manager)] /\ \A x \in Browser : DOMAIN new[x] = DOMAIN managers[x]
      /\ new[b][i] = m
      /\ \A x \in Browser : \A j \in DOMAIN managers[x] : x # b \/ j # i => new[x][j] = managers[x][j]
  BY <1>1, SetManager
<1>0. managers' = new
  OBVIOUS
<1> HIDE DEF new
<1>3. ASSUME NEW x \in Browser, NEW j \in DOMAIN managers[x]
      PROVE  /\ new[x][j].call_id = managers[x][j].call_id /\ new[x][j].remote = managers[x][j].remote
             /\ new[x][j].caller <=> managers[x][j].caller
             /\ new[x][j].media = managers[x][j].media
             /\ x # b \/ j # i => new[x][j].sdp = managers[x][j].sdp
  <2>1. CASE x = b /\ j = i
    BY <1>2, <2>1
  <2>2. CASE x # b \/ j # i
    BY <1>2, <2>2
  <2> QED BY <2>1, <2>2
<1>4. SameManagers
  <2>1. ASSUME NEW x \in Browser, NEW j \in DOMAIN managers[x]
        PROVE  /\ managers'[x][j].call_id = managers[x][j].call_id
               /\ managers'[x][j].remote = managers[x][j].remote
               /\ managers'[x][j].caller <=> managers[x][j].caller
               /\ managers'[x][j].media = "asking" => managers[x][j].media = "asking"
    BY <1>0, <1>3
  <2> QED BY <1>0, <1>2, <2>1, Zenon DEF SameManagers
<1>5. managers'[b][i].sdp = m.sdp
  BY <1>0, <1>2
<1> QED BY <1>0, <1>3, <1>4, <1>5

\* What is known when a message other than a request is heeded.
LEMMA Heed ==
  ASSUME CallInv, NEW a \in Browser, NEW b \in Browser, NEW type, type # "call_request",
         Arriving(a, b, type), Heeded(a, b), Take(a, b)
  PROVE  LET c == Callid(a, b)
         IN /\ Quieter /\ c \in CallId /\ c \in used /\ InCall(b, c) /\ c \notin endedCallIds[b]
            /\ Has(wire[a][b], type, c)
            /\ Once(wire[a][b], type, c) => ~Has(wire'[a][b], type, c)
<1> DEFINE c == Callid(a, b)
<1>1. TypeOK /\ wire[a][b] # <<>> /\ Head(wire[a][b]).type = type
  BY DEF CallInv, Arriving
<1>2. /\ Quieter /\ c \in CallId /\ type \in MsgType /\ Has(wire[a][b], type, c)
      /\ Once(wire[a][b], type, c) => ~Has(wire'[a][b], type, c)
  BY <1>1, TakeQuiets
<1>3. c \in used
  BY <1>2 DEF CallInv, Known
<1>4. InCall(b, c) /\ c \notin endedCallIds[b]
  BY DEF Heeded, Arriving
<1> QED BY <1>2, <1>3, <1>4

\* The caller heeds a message with its manager for the call.
LEMMA CallerHeeds ==
  ASSUME CallInv, NEW a \in Browser, NEW b \in Browser, NEW c, InCall(b, c),
         c \notin endedCallIds[b], Between(managers, b, a, c)
  PROVE  /\ webrtc[b] # None /\ webrtc[b] \in DOMAIN managers[b]
         /\ Placed(managers, b, webrtc[b], a, c)
<1>1. PICK i \in DOMAIN managers[b] : Placed(managers, b, i, a, c)
  BY DEF Between
<1>2. managers[b][i].call_id = c
  BY <1>1 DEF Placed
<1>3. webrtc[b] # None /\ webrtc[b] \in DOMAIN managers[b] /\ managers[b][webrtc[b]].call_id = c
  BY <1>2, HeededManager
<1> QED BY <1>3, OwnManager

LEMMA FlushedManager ==
  ASSUME NEW m \in Manager
  PROVE  /\ Flushed(m) \in Manager /\ Flushed(m).call_id = m.call_id /\ Flushed(m).remote = m.remote
         /\ Flushed(m).caller <=> m.caller
         /\ Flushed(m).media = m.media /\ Flushed(m).sdp = m.sdp
BY DEF Flushed, Manager

Sdp == {"none", "offering", "offered", "answering", "early", "stable", "failed"}
LEMMA SdpManager ==
  ASSUME NEW m \in Manager, NEW sdp \in Sdp
  PROVE  LET n == [m EXCEPT !.sdp = sdp]
         IN /\ n \in Manager /\ n.call_id = m.call_id /\ n.remote = m.remote
            /\ n.caller <=> m.caller
            /\ n.media = m.media /\ n.sdp = sdp
BY DEF Manager, Sdp

\* The managers of other calls negotiate as before.
OthersKeepSdp(c) ==
  \A b \in Browser : \A i \in DOMAIN managers[b] :
    managers[b][i].call_id # c => managers'[b][i].sdp = managers[b][i].sdp

\* A step that touches one call only, which a placed to b.
LEMMA NegotiatedBut ==
  ASSUME CallInv, SameManagers, NEW a \in Browser, NEW b \in Browser, NEW i, NEW c,
         Placed(managers, a, i, b, c),
         NEW x, NEW y, NEW type, Said(x, y, type, c),
         OthersKeepSdp(c),
         Negotiation(managers', wire', a, i, b, c)
  PROVE  Negotiated'
<1> SUFFICES ASSUME NEW u \in Browser, NEW v \in Browser, NEW d \in CallId,
                    NEW k \in DOMAIN managers'[u], Placed(managers', u, k, v, d)
             PROVE  Negotiation(managers', wire', u, k, v, d)
  BY DEF Negotiated
<1>1. k \in DOMAIN managers[u] /\ Placed(managers, u, k, v, d)
  BY SamePlaced DEF SameManagers
<1>2. CASE d = c
  BY <1>1, <1>2, OneBetween
<1>3. CASE d # c
  <2>1. managers'[u][k].sdp = managers[u][k].sdp
    BY <1>1, <1>3 DEF Placed, OthersKeepSdp
  <2>2. /\ Callee(managers', v, d) = Callee(managers, v, d)
        /\ \A j \in Callee(managers, v, d) : managers'[v][j].sdp = managers[v][j].sdp
    BY <1>3, SamePlaced DEF Callee, OthersKeepSdp
  <2>3. /\ Has(wire'[u][v], "sdp_offer", d) => Has(wire[u][v], "sdp_offer", d)
        /\ Once(wire[u][v], "sdp_offer", d) => Once(wire'[u][v], "sdp_offer", d)
        /\ Has(wire'[v][u], "sdp_answer", d) => Has(wire[v][u], "sdp_answer", d)
        /\ Once(wire[v][u], "sdp_answer", d) => Once(wire'[v][u], "sdp_answer", d)
    BY <1>3 DEF Said, MsgType
  <2>4. Negotiation(managers, wire, u, k, v, d)
    BY <1>1 DEF CallInv, Negotiated
  <2> QED BY <2>1, <2>2, <2>3, <2>4, NegotiationKept
<1> QED BY <1>2, <1>3

LEMMA AcceptancesBut ==
  ASSUME CallInv, SameManagers, NEW a \in Browser, NEW b \in Browser, NEW i, NEW c,
         Placed(managers, a, i, b, c),
         NEW x, NEW y, NEW type, Said(x, y, type, c),
         OthersKeepSdp(c),
         Acceptance(managers', wire', a, i, b, c)
  PROVE  Acceptances'
<1> SUFFICES ASSUME NEW u \in Browser, NEW v \in Browser, NEW d \in CallId,
                    NEW k \in DOMAIN managers'[u], Placed(managers', u, k, v, d)
             PROVE  Acceptance(managers', wire', u, k, v, d)
  BY DEF Acceptances
<1>1. k \in DOMAIN managers[u] /\ Placed(managers, u, k, v, d)
  BY SamePlaced DEF SameManagers
<1>2. CASE d = c
  BY <1>1, <1>2, OneBetween
<1>3. CASE d # c
  <2>1. managers'[u][k].sdp = managers[u][k].sdp
    BY <1>1, <1>3 DEF Placed, OthersKeepSdp
  <2>2. Granted(managers, v, d) \subseteq Granted(managers', v, d)
    BY SamePlaced
  <2>3. /\ Has(wire'[v][u], "call_accepted", d) => Has(wire[v][u], "call_accepted", d)
        /\ Once(wire[v][u], "call_accepted", d) => Once(wire'[v][u], "call_accepted", d)
    BY <1>3 DEF Said, MsgType
  <2>4. Acceptance(managers, wire, u, k, v, d)
    BY <1>1 DEF CallInv, Acceptances
  <2> QED BY <2>1, <2>2, <2>3, <2>4, AcceptanceKept
<1> QED BY <1>2, <1>3

\* The answer ends the negotiation at the caller.
LEMMA OnSdpAnswerInv ==
  ASSUME CallInv, NEW a \in Browser, NEW b \in Browser, OnSdpAnswer(a, b)
  PROVE  CallInv'
<1> DEFINE c == Callid(a, b)
           w == webrtc[b]
           m == [Flushed(managers[b][w]) EXCEPT !.sdp = "stable"]
<1>1. /\ TypeOK /\ UNCHANGED <<webrtc, endedCallIds, pendingOffer, timers, used, faulty>>
      /\ Arriving(a, b, "sdp_answer") /\ Heeded(a, b) /\ Take(a, b)
  BY DEF CallInv, OnSdpAnswer
<1>2. /\ Quieter /\ c \in CallId /\ c \in used /\ InCall(b, c) /\ c \notin endedCallIds[b]
      /\ Has(wire[a][b], "sdp_answer", c)
      /\ Once(wire[a][b], "sdp_answer", c) => ~Has(wire'[a][b], "sdp_answer", c)
  BY <1>1, Heed
<1> HIDE DEF c
<1>3. Between(managers, b, a, c)
  BY <1>2 DEF CallInv, Paired
<1>4. w # None /\ w \in DOMAIN managers[b] /\ Placed(managers, b, w, a, c)
  BY <1>2, <1>3, CallerHeeds
<1>5. /\ managers[b][w].sdp = "offered" /\ Once(wire[a][b], "sdp_answer", c)
      /\ \A j \in Callee(managers, a, c) : managers[a][j].sdp # "answering"
      /\ ~Has(wire[b][a], "sdp_offer", c)
  BY <1>2, <1>4 DEF CallInv, Negotiated, Negotiation
<1>6. \/ UNCHANGED <<activeCall, managers>>
      \/ faulty /\ UpdateCall(b, "error") /\ UNCHANGED managers
      \/ UNCHANGED activeCall /\ managers' = SetAt(managers, b, w, m)
  <2>1. CASE managers[b][w].pc # "open"
    BY <2>1 DEF OnSdpAnswer
  <2>2. CASE managers[b][w].pc = "open"
    <3>1. PICK applies \in IF faulty THEN BOOLEAN ELSE {TRUE} :
            IF applies /\ managers[b][w].sdp = "offered"
              THEN UNCHANGED activeCall /\ managers' = SetAt(managers, b, w, m)
              ELSE UpdateCall(b, "error") /\ UNCHANGED managers
      BY <1>4, <2>2 DEF OnSdpAnswer, SetAt
    <3> HIDE DEF m
    <3>2. CASE ~faulty
      <4>1. applies
        BY <3>2
      <4> QED BY <1>5, <3>1, <4>1
    <3>3. CASE faulty
      BY <1>5, <3>1, <3>3
    <3> QED BY <3>2, <3>3
  <2> QED BY <2>1, <2>2
<1>7. CASE UNCHANGED <<activeCall, managers>>
  BY <1>1, <1>2, <1>7, SameScreen, NoManager, SilentStep
<1>8. CASE faulty /\ UpdateCall(b, "error") /\ UNCHANGED managers
  <2>1. ScreenStep /\ NoNewError
    BY <1>1, <1>8, UpdatedCall DEF CallStatus
  <2> QED BY <1>1, <1>2, <1>8, <2>1, NoManager, SilentStep
<1>9. CASE UNCHANGED activeCall /\ managers' = SetAt(managers, b, w, m)
  <2> DEFINE r == managers[b][w]
  <2>1. r \in Manager
    BY <1>1, <1>4, ManagerType
  <2>2. /\ m \in Manager /\ m.call_id = r.call_id /\ m.remote = r.remote
        /\ m.caller <=> r.caller
        /\ m.media = r.media /\ m.sdp = "stable"
    <3> HIDE DEF r
    <3>1. m = [Flushed(r) EXCEPT !.sdp = "stable"]
      BY DEF r
    <3> DEFINE f == Flushed(r)
    <3>2. /\ f \in Manager /\ f.call_id = r.call_id /\ f.remote = r.remote
          /\ f.caller <=> r.caller
          /\ f.media = r.media
      BY <2>1, FlushedManager
    <3> HIDE DEF f, m
    <3>3. m = [f EXCEPT !.sdp = "stable"]
      BY <3>1 DEF f
    <3> QED BY <3>2, <3>3, SdpManager DEF Sdp
  <2> HIDE DEF m, w
  <2>3. /\ SameManagers
        /\ managers'[b][w].sdp = "stable"
        /\ \A x \in Browser : \A j \in DOMAIN managers[x] :
             x # b \/ j # w => managers'[x][j].sdp = managers[x][j].sdp
        /\ \A x \in Browser : \A j \in DOMAIN managers[x] :
             managers'[x][j].media = managers[x][j].media
    BY <1>1, <1>4, <1>9, <2>2, OneSdp
  <2>4. ScreenStep
    BY <1>1, <1>9, SameScreen
  <2>5. Roles'
    BY <1>4, <2>3 DEF CallInv, Roles, SameManagers, Placed
  <2>6. ErrorsCaused'
    BY <1>1, <1>9, <2>3, <2>4, ErrorsKept DEF CallInv, ScreenStep
  <2>7. HeardKept
    BY <1>5, <2>3 DEF HeardKept
  <2>8. Said(a, b, "", c)
    BY <1>2, QuietSays
  <2>9. Acceptances'
    BY <1>1, <2>3, <2>7, <2>8, AcceptancesKept DEF CallInv
  <2>10. Negotiation(managers, wire, b, w, a, c)
    BY <1>2, <1>4 DEF CallInv, Negotiated
  <2>11. /\ Callee(managers', a, c) = Callee(managers, a, c)
         /\ \A j \in Callee(managers, a, c) : managers'[a][j].sdp = managers[a][j].sdp
    <3>1. \A j \in Callee(managers, a, c) : j \in DOMAIN managers[a] /\ (a # b \/ j # w)
      BY <1>4 DEF Callee, Placed
    <3> QED BY <2>3, <3>1, SamePlaced
  <2>12. /\ ~Has(wire'[b][a], "sdp_offer", c) /\ Once(wire'[b][a], "sdp_offer", c)
         /\ ~Has(wire'[a][b], "sdp_answer", c) /\ Once(wire'[a][b], "sdp_answer", c)
    BY <1>2, <1>5, <2>10 DEF Quieter, MsgType, Negotiation
  <2>13. Negotiation(managers', wire', b, w, a, c)
    BY <1>5, <2>3, <2>11, <2>12 DEF Negotiation
  <2>14. Negotiated'
    <3>1. OthersKeepSdp(c)
      BY <1>4, <2>3 DEF Placed, OthersKeepSdp
    <3> QED BY <1>4, <2>3, <2>8, <2>13, <3>1, NegotiatedBut
  <2> QED BY <1>1, <1>2, <2>3, <2>4, <2>5, <2>6, <2>8, <2>9, <2>14, SdpStep
<1> QED BY <1>6, <1>7, <1>8, <1>9

\* The offer begins the negotiation at the callee.
LEMMA OnSdpOfferInv ==
  ASSUME CallInv, NEW a \in Browser, NEW b \in Browser, OnSdpOffer(a, b)
  PROVE  CallInv'
<1> DEFINE c == Callid(a, b)
           w == webrtc[b]
           r == managers[b][w]
           m == [[r EXCEPT !.pc = "open"] EXCEPT !.sdp = "answering"]
<1>1. /\ TypeOK /\ UNCHANGED <<activeCall, webrtc, endedCallIds, timers, used, faulty>>
      /\ Arriving(a, b, "sdp_offer") /\ Heeded(a, b) /\ Take(a, b)
  BY DEF CallInv, OnSdpOffer
<1>2. /\ Quieter /\ c \in CallId /\ c \in used /\ InCall(b, c) /\ c \notin endedCallIds[b]
      /\ Has(wire[a][b], "sdp_offer", c)
      /\ Once(wire[a][b], "sdp_offer", c) => ~Has(wire'[a][b], "sdp_offer", c)
  BY <1>1, Heed
<1> HIDE DEF c
<1>3. Between(managers, a, b, c)
  BY <1>2 DEF CallInv, Paired
<1>4. PICK i \in DOMAIN managers[a] : Placed(managers, a, i, b, c)
  BY <1>3 DEF Between
<1>5. Negotiation(managers, wire, a, i, b, c) /\ Acceptance(managers, wire, a, i, b, c)
  BY <1>2, <1>4 DEF CallInv, Negotiated, Acceptances
<1>6. PICK j \in DOMAIN managers[b] : managers[b][j].call_id = c
  BY <1>2, <1>5 DEF Negotiation, Acceptance, Granted, Callee
<1>7. w # None /\ w \in DOMAIN managers[b] /\ managers[b][w].call_id = c
  BY <1>2, <1>6, HeededManager
<1>8. w \in Callee(managers, b, c) /\ ~managers[b][w].caller
  BY <1>3, <1>7, TheirManager
<1>9. managers' = SetAt(managers, b, w, m) /\ UNCHANGED pendingOffer
  BY <1>7 DEF OnSdpOffer, SetAt
<1>10. r \in Manager
  BY <1>1, <1>7, ManagerType
<1>11. /\ m \in Manager /\ m.call_id = r.call_id /\ m.remote = r.remote
       /\ m.caller <=> r.caller
       /\ m.media = r.media /\ m.sdp = "answering"
  <2> DEFINE f == [r EXCEPT !.pc = "open"]
  <2> HIDE DEF r
  <2>1. /\ f \in Manager /\ f.call_id = r.call_id /\ f.remote = r.remote
        /\ f.caller <=> r.caller
        /\ f.media = r.media
    BY <1>10 DEF Manager
  <2> HIDE DEF f, m
  <2>2. m = [f EXCEPT !.sdp = "answering"]
    BY DEF f, m
  <2> QED BY <2>1, <2>2, SdpManager DEF Sdp
<1> HIDE DEF m, w
<1>12. /\ SameManagers
       /\ managers'[b][w].sdp = "answering"
       /\ \A x \in Browser : \A k \in DOMAIN managers[x] :
            x # b \/ k # w => managers'[x][k].sdp = managers[x][k].sdp
  BY <1>1, <1>7, <1>9, <1>11, OneSdp
<1>13. ScreenStep
  BY <1>1, SameScreen
<1>14. Roles'
  BY <1>8, <1>12 DEF CallInv, Roles, SameManagers
<1>15. ErrorsCaused'
  BY <1>1, <1>12, <1>13, ErrorsKept DEF CallInv, ScreenStep
<1>16. HeardKept
  BY <1>8, <1>12 DEF HeardKept
<1>17. Said(a, b, "", c)
  BY <1>2, QuietSays
<1>18. Acceptances'
  BY <1>1, <1>12, <1>16, <1>17, AcceptancesKept DEF CallInv
<1>19. Negotiation(managers', wire', a, i, b, c)
  <2>1. managers[a][i].sdp = "offered" /\ managers'[a][i].sdp = managers[a][i].sdp
    <3>1. a # b \/ i # w
      BY <1>4, <1>8 DEF Placed
    <3> QED BY <1>2, <1>4, <1>5, <1>12, <3>1 DEF Negotiation
  <2>2. /\ Callee(managers', b, c) = Callee(managers, b, c)
        /\ \A k \in Callee(managers, b, c) : k # w => managers'[b][k].sdp = "none"
    BY <1>2, <1>5, <1>12, SamePlaced DEF Negotiation, Callee
  <2>3. /\ ~Has(wire'[a][b], "sdp_offer", c) /\ Once(wire'[a][b], "sdp_offer", c)
        /\ ~Has(wire'[b][a], "sdp_answer", c) /\ Once(wire'[b][a], "sdp_answer", c)
    BY <1>2, <1>5 DEF Quieter, MsgType, Negotiation
  <2> QED BY <1>12, <2>1, <2>2, <2>3 DEF Negotiation
<1>20. Negotiated'
  <2>1. OthersKeepSdp(c)
    BY <1>7, <1>12 DEF OthersKeepSdp
  <2>2. SameManagers /\ Placed(managers, a, i, b, c) /\ Said(a, b, "", c)
    BY <1>4, <1>12, <1>17
  <2> QED BY <1>19, <2>1, <2>2, NegotiatedBut
<1>21. UNCHANGED <<pendingOffer, used, faulty>>
  BY <1>1, <1>9
<1> QED BY <1>2, <1>12, <1>13, <1>14, <1>15, <1>17, <1>18, <1>20, <1>21, SdpStep

\* Two prompts that were granted for a call are two managers for it.
LEMMA TwoGranted ==
  ASSUME NEW mgrs, NEW b, NEW c, Two(Granted(mgrs, b, c))
  PROVE  Twice(mgrs, b, c)
BY DEF Two, Granted, Callee, Twice

LEMMA TwiceKept ==
  ASSUME SameManagers, NEW b \in Browser, NEW c, Twice(managers, b, c)
  PROVE  Twice(managers', b, c)
BY DEF SameManagers, Twice

\* The acceptance makes the caller offer, if it has not.
LEMMA OnCallAcceptedInv ==
  ASSUME CallInv, NEW a \in Browser, NEW b \in Browser, OnCallAccepted(a, b)
  PROVE  CallInv'
<1> DEFINE c == Callid(a, b)
           w == webrtc[b]
           r == managers[b][w]
           next == IF Offers(r) THEN "offering" ELSE r.sdp
           m == [r EXCEPT !.pc = "open", !.sdp = next]
           status == IF r.media = "live" /\ ~Offers(r) THEN "error" ELSE "connecting"
<1>1. /\ TypeOK /\ UNCHANGED <<webrtc, endedCallIds, pendingOffer, timers, used, faulty>>
      /\ Arriving(a, b, "call_accepted") /\ Heeded(a, b) /\ Take(a, b)
  BY DEF CallInv, OnCallAccepted
<1>2. /\ Quieter /\ c \in CallId /\ c \in used /\ InCall(b, c) /\ c \notin endedCallIds[b]
      /\ Has(wire[a][b], "call_accepted", c)
      /\ Once(wire[a][b], "call_accepted", c) => ~Has(wire'[a][b], "call_accepted", c)
  BY <1>1, Heed
<1> HIDE DEF c
<1>3. Between(managers, b, a, c)
  BY <1>2 DEF CallInv, Paired
<1>4. w # None /\ w \in DOMAIN managers[b] /\ Placed(managers, b, w, a, c)
  BY <1>2, <1>3, CallerHeeds
<1>5. Negotiation(managers, wire, b, w, a, c) /\ Acceptance(managers, wire, b, w, a, c)
  BY <1>2, <1>4 DEF CallInv, Negotiated, Acceptances
<1>6. r \in Manager /\ r.sdp \in Sdp
  <2>1. r \in Manager
    BY <1>1, <1>4, ManagerType
  <2> QED BY <2>1 DEF Manager, Sdp
<1>7. managers' = SetAt(managers, b, w, m) /\ UpdateCall(b, status)
  <2>1. managers' = [managers EXCEPT ![b][w] = m]
    BY <1>4 DEF OnCallAccepted
  <2>2. UpdateCall(b, status)
    BY <1>4 DEF OnCallAccepted
  <2> QED BY <2>1, <2>2 DEF SetAt
<1>8. /\ m \in Manager /\ m.call_id = r.call_id /\ m.remote = r.remote
      /\ m.caller <=> r.caller
      /\ m.media = r.media /\ m.sdp = next
  <2> DEFINE f == [r EXCEPT !.pc = "open"]
  <2>1. next \in Sdp
    BY <1>6 DEF Sdp
  <2> HIDE DEF r, next
  <2>2. /\ f \in Manager /\ f.call_id = r.call_id /\ f.remote = r.remote
        /\ f.caller <=> r.caller
        /\ f.media = r.media /\ f.sdp = r.sdp
    BY <1>6 DEF Manager
  <2> HIDE DEF f
  <2>3. m = [f EXCEPT !.sdp = next]
    BY <2>2 DEF f, next
  <2> HIDE DEF m
  <2> QED BY <2>1, <2>2, <2>3, SdpManager
<1> HIDE DEF m, w, next
<1>9. /\ SameManagers
      /\ managers'[b][w].sdp = next
      /\ \A x \in Browser : \A k \in DOMAIN managers[x] :
           x # b \/ k # w => managers'[x][k].sdp = managers[x][k].sdp
  BY <1>1, <1>4, <1>7, <1>8, OneSdp
<1>10. ScreenStep /\ (status # "error" => NoNewError)
  BY <1>1, <1>7, UpdatedCall DEF CallStatus
<1>11. Said(a, b, "", c)
  BY <1>2, QuietSays
<1>12. ErrorsCaused'
  <2>1. CASE status # "error"
    BY <1>1, <1>9, <1>10, <2>1, ErrorsKept DEF CallInv, ScreenStep, NoNewError
  <2>2. CASE status = "error"
    <3>1. r.sdp # "none"
      BY <2>2 DEF Offers
    <3>2. Twice(managers, a, c)
      BY <1>2, <1>5, <3>1, TwoGranted DEF Acceptance
    <3>3. Twice(managers', a, c)
      BY <1>9, <3>2, TwiceKept
    <3>4. activeCall[b] # None /\ activeCall[b].call_id = c /\ activeCall[b].remote \in Browser
      BY <1>1, <1>2, CallType DEF InCall
    <3>5. activeCall[b].remote = a
      <4>1. \/ Between(managers, activeCall[b].remote, b, c)
            \/ Between(managers, b, activeCall[b].remote, c)
        BY <3>4 DEF CallInv, Paired
      <4> QED BY <1>4, <3>4, <4>1, OneBetween DEF Between
    <3> SUFFICES ASSUME ~faulty, NEW x \in Browser, activeCall'[x] # None, activeCall'[x].status = "error"
                 PROVE  Twice(managers', activeCall'[x].remote, activeCall'[x].call_id)
      BY <1>1 DEF ErrorsCaused
    <3>6. CASE x = b
      BY <1>10, <3>3, <3>4, <3>5, <3>6 DEF ScreenStep, ScreenKept
    <3>7. CASE x # b
      <4>1. activeCall'[x] = activeCall[x]
        BY <1>1, <1>7, <3>7 DEF UpdateCall, TypeOK
      <4>2. Twice(managers, activeCall[x].remote, activeCall[x].call_id) /\ activeCall[x].remote \in Browser
        BY <1>1, <4>1, CallType DEF CallInv, ErrorsCaused
      <4>3. Twice(managers', activeCall[x].remote, activeCall[x].call_id)
        BY <1>9, <4>2, TwiceKept
      <4> QED BY <4>1, <4>3
    <3> QED BY <3>6, <3>7
  <2> QED BY <2>1, <2>2
<1>13. OthersKeepSdp(c)
  BY <1>4, <1>9 DEF Placed, OthersKeepSdp
<1>14. Acceptances'
  <2>1. ~Has(wire'[a][b], "call_accepted", c) \/ Two(Granted(managers, a, c))
    BY <1>2, <1>5 DEF Acceptance
  <2>2. Granted(managers, a, c) \subseteq Granted(managers', a, c)
    BY <1>9, SamePlaced
  <2>3. Once(wire[a][b], "call_accepted", c) => Once(wire'[a][b], "call_accepted", c)
    BY <1>2 DEF Quieter, MsgType
  <2>4. Acceptance(managers', wire', b, w, a, c)
    BY <1>2, <1>5, <2>1, <2>2, <2>3 DEF Acceptance, Two
  <2> QED BY <1>4, <1>9, <1>11, <1>13, <2>4, AcceptancesBut
<1>15. Negotiated'
  <2>1. next = r.sdp \/ (r.sdp = "none" /\ next = "offering")
    BY DEF next, Offers
  <2>2. /\ Callee(managers', a, c) = Callee(managers, a, c)
        /\ \A j \in Callee(managers, a, c) : managers'[a][j].sdp = managers[a][j].sdp
    <3>1. \A j \in Callee(managers, a, c) : j \in DOMAIN managers[a] /\ (a # b \/ j # w)
      BY <1>4 DEF Callee, Placed
    <3> QED BY <1>9, <3>1, SamePlaced
  <2>3. /\ Has(wire'[b][a], "sdp_offer", c) => Has(wire[b][a], "sdp_offer", c)
        /\ Once(wire[b][a], "sdp_offer", c) => Once(wire'[b][a], "sdp_offer", c)
        /\ Has(wire'[a][b], "sdp_answer", c) => Has(wire[a][b], "sdp_answer", c)
        /\ Once(wire[a][b], "sdp_answer", c) => Once(wire'[a][b], "sdp_answer", c)
    BY <1>2 DEF Quieter, MsgType
  <2>4. Negotiation(managers', wire', b, w, a, c)
    BY <1>5, <1>9, <2>1, <2>2, <2>3 DEF Negotiation
  <2> QED BY <1>4, <1>9, <1>11, <1>13, <2>4, NegotiatedBut
<1>16. Roles'
  <2>1. next \in {r.sdp, "offering"} /\ managers[b][w].caller
    BY <1>4 DEF next, Placed
  <2>2. Roles
    BY DEF CallInv
  <2> SUFFICES ASSUME NEW x \in Browser, NEW k \in DOMAIN managers'[x]
               PROVE  managers'[x][k].sdp \in IF managers'[x][k].caller
                        THEN {"none", "offering", "offered", "stable", "failed"}
                        ELSE {"none", "answering", "stable", "failed"}
    BY DEF Roles
  <2>3. k \in DOMAIN managers[x] /\ (managers'[x][k].caller <=> managers[x][k].caller)
    BY <1>9 DEF SameManagers
  <2>4. CASE x # b \/ k # w
    BY <1>9, <2>2, <2>3, <2>4 DEF Roles
  <2>5. CASE x = b /\ k = w
    BY <1>9, <2>1, <2>2, <2>3, <2>5 DEF Roles
  <2> QED BY <2>4, <2>5
<1> QED BY <1>1, <1>2, <1>9, <1>10, <1>11, <1>12, <1>14, <1>15, <1>16, SdpStep

\* The offer, or the answer, is sent.
LEMMA DescriptionReadyInv ==
  ASSUME CallInv, NEW b \in Browser, NEW i \in DOMAIN managers[b], DescriptionReady(b, i)
  PROVE  CallInv'
<1> DEFINE r == managers[b][i]
           c == r.call_id
           a == r.remote
           f == IF r.sdp = "offering" THEN r ELSE Flushed(r)
           next == Described(r.sdp)
           m == [f EXCEPT !.sdp = next]
<1>1. /\ TypeOK /\ UNCHANGED <<webrtc, endedCallIds, pendingOffer, timers, used, faulty>>
      /\ managers' = SetAt(managers, b, i, m) /\ r.sdp \in Describing
  BY DEF CallInv, DescriptionReady, SetAt
<1>2. r \in Manager /\ a \in Browser /\ c \in CallId /\ c \in used
  BY <1>1, ManagerType DEF CallInv, Known
<1>3. \/ r.caller /\ r.sdp = "offering"
      \/ ~r.caller /\ r.sdp = "answering"
  BY <1>1 DEF CallInv, Roles, Describing
<1>4. PICK outcome \in SendOutcome :
        /\ Send(b, r, Description(r.sdp), outcome)
        /\ IF outcome = "refused" THEN UpdateCall(b, "error") ELSE UNCHANGED activeCall
  BY DEF DescriptionReady
<1>5. /\ m \in Manager /\ m.call_id = c /\ m.remote = a
      /\ m.caller <=> r.caller
      /\ m.media = r.media /\ m.sdp = next
  <2> HIDE DEF r
  <2>1. /\ f \in Manager /\ f.call_id = r.call_id /\ f.remote = r.remote
        /\ f.caller <=> r.caller
        /\ f.media = r.media
    BY <1>2, FlushedManager
  <2>2. next \in Sdp
    BY DEF Described, Sdp
  <2> HIDE DEF f, next
  <2> QED BY <2>1, <2>2, SdpManager
<1> HIDE DEF m
<1>6. /\ SameManagers
      /\ managers'[b][i].sdp = next
      /\ \A x \in Browser : \A j \in DOMAIN managers[x] :
           x # b \/ j # i => managers'[x][j].sdp = managers[x][j].sdp
  BY <1>1, <1>5, OneSdp
<1>7. ScreenStep /\ NoNewError
  <2>1. CASE outcome = "refused"
    <3>1. faulty /\ UpdateCall(b, "error")
      BY <1>4, <2>1 DEF SendOutcome
    <3> QED BY <1>1, <3>1, UpdatedCall DEF CallStatus
  <2>2. CASE outcome # "refused"
    BY <1>1, <1>4, <2>2, SameScreen
  <2> QED BY <2>1, <2>2
<1>8. ErrorsCaused'
  BY <1>1, <1>6, <1>7, ErrorsKept DEF CallInv, ScreenStep, NoNewError
<1>9. HeardKept
  BY <1>3, <1>6 DEF HeardKept
<1>10. OthersKeepSdp(c)
  BY <1>6 DEF OthersKeepSdp
<1>11. Roles'
  BY <1>3, <1>6 DEF CallInv, Roles, SameManagers, Described
<1>12. CASE r.caller /\ r.sdp = "offering"
  <2>1. Said(b, a, "sdp_offer", c)
    <3>1. Send(b, r, <<"sdp_offer">>, outcome)
      BY <1>4, <1>12 DEF Description
    <3> HIDE DEF r
    <3> QED BY <1>1, <1>2, <3>1, SendSays DEF MsgType
  <2>2. Placed(managers, b, i, a, c) /\ Between(managers, b, a, c)
    BY <1>12 DEF Placed, Between
  <2>3. Negotiation(managers, wire, b, i, a, c)
    BY <1>2, <2>2 DEF CallInv, Negotiated
  <2>4. /\ Callee(managers', a, c) = Callee(managers, a, c)
        /\ \A j \in Callee(managers, a, c) : managers'[a][j].sdp = "none"
    <3>1. \A j \in Callee(managers, a, c) : j \in DOMAIN managers[a] /\ (a # b \/ j # i)
      BY <1>12 DEF Callee
    <3> QED BY <1>2, <1>6, <1>12, <2>3, <3>1, SamePlaced DEF Negotiation
  <2>5. /\ Once(wire'[b][a], "sdp_offer", c) /\ Once(wire'[a][b], "sdp_answer", c)
        /\ ~Has(wire'[a][b], "sdp_answer", c)
    BY <1>2, <1>12, <2>1, <2>3 DEF Said, MsgType, Negotiation
  <2>6. Negotiation(managers', wire', b, i, a, c)
    BY <1>6, <1>12, <2>4, <2>5 DEF Negotiation, Described
  <2>7. Negotiated'
    BY <1>2, <1>6, <1>10, <2>1, <2>2, <2>6, NegotiatedBut
  <2>8. Acceptances'
    BY <1>1, <1>6, <1>9, <2>1, AcceptancesKept DEF CallInv
  <2> QED BY <1>1, <1>2, <1>6, <1>7, <1>8, <1>11, <2>1, <2>2, <2>7, <2>8, SdpStep
<1>13. CASE ~r.caller /\ r.sdp = "answering"
  <2>1. Said(b, a, "sdp_answer", c)
    <3>1. Send(b, r, <<"sdp_answer">>, outcome)
      BY <1>4, <1>13 DEF Description
    <3> HIDE DEF r
    <3> QED BY <1>1, <1>2, <3>1, SendSays DEF MsgType
  <2>2. Between(managers, a, b, c)
    BY <1>13 DEF CallInv, Paired
  <2>3. PICK k \in DOMAIN managers[a] : Placed(managers, a, k, b, c)
    BY <2>2 DEF Between
  <2>4. Negotiation(managers, wire, a, k, b, c) /\ i \in Callee(managers, b, c)
    BY <1>2, <1>13, <2>3 DEF CallInv, Negotiated, Callee
  <2>5. /\ managers[a][k].sdp = "offered"
        /\ \A l \in Callee(managers, b, c) : managers[b][l].sdp = "answering" => l = i
        /\ ~Has(wire[a][b], "sdp_offer", c) /\ ~Has(wire[b][a], "sdp_answer", c)
    BY <1>13, <2>4 DEF Negotiation
  <2>6. managers'[a][k].sdp = "offered"
    <3>1. a # b \/ k # i
      BY <1>13, <2>3 DEF Placed
    <3> QED BY <1>2, <1>6, <2>3, <2>5, <3>1
  <2>7. /\ Callee(managers', b, c) = Callee(managers, b, c)
        /\ \A j \in Callee(managers, b, c) : managers'[b][j].sdp # "answering"
    <3>1. \A j \in Callee(managers, b, c) : j \in DOMAIN managers[b]
      BY DEF Callee
    <3> QED BY <1>6, <1>13, <2>5, <3>1, SamePlaced DEF Described
  <2>8. /\ Once(wire'[a][b], "sdp_offer", c) /\ Once(wire'[b][a], "sdp_answer", c)
        /\ ~Has(wire'[a][b], "sdp_offer", c)
    BY <1>2, <2>1, <2>4, <2>5 DEF Said, MsgType, Negotiation
  <2>9. Negotiation(managers', wire', a, k, b, c)
    BY <2>6, <2>7, <2>8 DEF Negotiation
  <2>10. Negotiated'
    BY <1>2, <1>6, <1>10, <2>1, <2>3, <2>9, NegotiatedBut
  <2>11. Acceptances'
    BY <1>1, <1>6, <1>9, <2>1, AcceptancesKept DEF CallInv
  <2> QED BY <1>1, <1>2, <1>6, <1>7, <1>8, <1>11, <2>1, <2>2, <2>10, <2>11, SdpStep
<1> QED BY <1>3, <1>12, <1>13

\* A description cannot be made.
LEMMA DescriptionFailsInv ==
  ASSUME CallInv, NEW b \in Browser, NEW i \in DOMAIN managers[b], DescriptionFails(b, i)
  PROVE  CallInv'
<1> DEFINE r == managers[b][i]
           c == r.call_id
           a == r.remote
           m == [r EXCEPT !.sdp = "failed"]
<1>1. /\ TypeOK /\ UNCHANGED <<webrtc, endedCallIds, pendingOffer, timers, used, faulty>>
      /\ faulty /\ UpdateCall(b, "error")
      /\ managers' = SetAt(managers, b, i, m) /\ r.sdp \in Describing
  BY DEF CallInv, DescriptionFails, SetAt
<1>2. r \in Manager /\ a \in Browser /\ c \in CallId
  BY <1>1, ManagerType DEF CallInv
<1>3. \/ r.caller /\ r.sdp = "offering"
      \/ ~r.caller /\ r.sdp = "answering"
  BY <1>1 DEF CallInv, Roles, Describing
<1>4. PICK outcome \in SendOutcome :
        Send(b, r, IF r.sdp = "early" THEN <<"call_accepted">> ELSE <<>>, outcome)
  BY DEF DescriptionFails
<1>5. /\ m \in Manager /\ m.call_id = c /\ m.remote = a
      /\ m.caller <=> r.caller
      /\ m.media = r.media /\ m.sdp = "failed"
  BY <1>2, SdpManager DEF Sdp
<1> HIDE DEF m
<1>6. /\ SameManagers
      /\ managers'[b][i].sdp = "failed"
      /\ \A x \in Browser : \A j \in DOMAIN managers[x] :
           x # b \/ j # i => managers'[x][j].sdp = managers[x][j].sdp
  BY <1>1, <1>5, OneSdp
<1>7. ScreenStep /\ NoNewError
  BY <1>1, UpdatedCall DEF CallStatus
<1>8. ErrorsCaused'
  BY <1>1, <1>6, <1>7, ErrorsKept DEF CallInv, ScreenStep, NoNewError
<1>9. HeardKept
  BY <1>3, <1>6 DEF HeardKept
<1>10. OthersKeepSdp(c)
  BY <1>6 DEF OthersKeepSdp
<1>11. Roles'
  BY <1>6 DEF CallInv, Roles, SameManagers
<1>12. Quieter
  <2>1. Send(b, r, <<>>, outcome)
    BY <1>3, <1>4
  <2> HIDE DEF r
  <2> QED BY <1>1, <1>2, <2>1, SendNothing
<1>13. Said(b, a, "", c)
  BY <1>12, QuietSays
<1>14. Acceptances'
  BY <1>1, <1>6, <1>9, <1>13, AcceptancesKept DEF CallInv
<1>15. CASE r.caller /\ r.sdp = "offering"
  <2>2. Placed(managers, b, i, a, c)
    BY <1>15 DEF Placed
  <2>3. Negotiation(managers, wire, b, i, a, c)
    BY <1>2, <2>2 DEF CallInv, Negotiated
  <2>4. /\ Callee(managers', a, c) = Callee(managers, a, c)
        /\ \A j \in Callee(managers, a, c) : managers'[a][j].sdp = "none"
    <3>1. \A j \in Callee(managers, a, c) : j \in DOMAIN managers[a] /\ (a # b \/ j # i)
      BY <1>15 DEF Callee
    <3> QED BY <1>2, <1>6, <1>15, <2>3, <3>1, SamePlaced DEF Negotiation
  <2>5. /\ Once(wire'[b][a], "sdp_offer", c) /\ Once(wire'[a][b], "sdp_answer", c)
        /\ ~Has(wire'[b][a], "sdp_offer", c) /\ ~Has(wire'[a][b], "sdp_answer", c)
    BY <1>2, <1>12, <1>15, <2>3 DEF Quieter, MsgType, Negotiation
  <2>6. Negotiation(managers', wire', b, i, a, c)
    BY <1>6, <2>4, <2>5 DEF Negotiation
  <2>7. Negotiated'
    <3> HIDE DEF a, c
    <3> QED BY <1>2, <1>6, <1>10, <1>13, <2>2, <2>6, NegotiatedBut
  <2> QED BY <1>1, <1>2, <1>6, <1>7, <1>8, <1>11, <1>12, <1>14, <2>7, SdpSilentStep
<1>16. CASE ~r.caller /\ r.sdp = "answering"
  <2>2. Between(managers, a, b, c)
    BY <1>16 DEF CallInv, Paired
  <2>3. PICK k \in DOMAIN managers[a] : Placed(managers, a, k, b, c)
    BY <2>2 DEF Between
  <2>4. Negotiation(managers, wire, a, k, b, c) /\ i \in Callee(managers, b, c)
    BY <1>2, <1>16, <2>3 DEF CallInv, Negotiated, Callee
  <2>5. /\ managers[a][k].sdp = "offered"
        /\ \A l \in Callee(managers, b, c) : managers[b][l].sdp = "answering" => l = i
        /\ ~Has(wire[a][b], "sdp_offer", c) /\ ~Has(wire[b][a], "sdp_answer", c)
    BY <1>16, <2>4 DEF Negotiation
  <2>6. managers'[a][k].sdp = "offered"
    <3>1. a # b \/ k # i
      BY <1>16, <2>3 DEF Placed
    <3> QED BY <1>2, <1>6, <2>3, <2>5, <3>1
  <2>7. /\ Callee(managers', b, c) = Callee(managers, b, c)
        /\ \A j \in Callee(managers, b, c) : managers'[b][j].sdp # "answering"
    <3>1. \A j \in Callee(managers, b, c) : j \in DOMAIN managers[b]
      BY DEF Callee
    <3> QED BY <1>6, <2>5, <3>1, SamePlaced
  <2>8. /\ Once(wire'[a][b], "sdp_offer", c) /\ Once(wire'[b][a], "sdp_answer", c)
        /\ ~Has(wire'[a][b], "sdp_offer", c) /\ ~Has(wire'[b][a], "sdp_answer", c)
    BY <1>2, <1>12, <2>4, <2>5 DEF Quieter, MsgType, Negotiation
  <2>9. Negotiation(managers', wire', a, k, b, c)
    BY <2>6, <2>7, <2>8 DEF Negotiation
  <2>10. Negotiated'
    <3> HIDE DEF a, c
    <3> QED BY <1>2, <1>6, <1>10, <1>13, <2>3, <2>9, NegotiatedBut
  <2> QED BY <1>1, <1>2, <1>6, <1>7, <1>8, <1>11, <1>12, <1>14, <2>10, SdpSilentStep
<1> QED BY <1>3, <1>15, <1>16

\* A prompt is granted: the caller asks for the call, or the callee accepts it.
LEMMA MediaGrantedInv ==
  ASSUME CallInv, NEW b \in Browser, NEW i \in DOMAIN managers[b], MediaGranted(b, i)
  PROVE  CallInv'
<1> DEFINE r == managers[b][i]
           c == r.call_id
           a == r.remote
           m == [r EXCEPT !.media = "live", !.pc = r.pc, !.sdp = r.sdp]
<1>1. TypeOK /\ pendingOffer[b] = None
  BY DEF CallInv, OfferNeverBuffered
<1>2. /\ UNCHANGED <<webrtc, endedCallIds, pendingOffer, timers, used, faulty>>
      /\ managers' = SetAt(managers, b, i, m) /\ r.media = "asking"
  BY <1>1 DEF MediaGranted, SetAt
<1>3. r \in Manager /\ a \in Browser /\ c \in CallId /\ c \in used
  BY <1>1, ManagerType DEF CallInv, Known
<1>4. PICK outcome \in SendOutcome :
        /\ Send(b, r, IF r.caller THEN <<"call_request">> ELSE <<"call_accepted">>, outcome)
        /\ UpdateCall(b, IF outcome = "refused" THEN "error" ELSE "connecting")
  BY <1>1 DEF MediaGranted
<1>5. /\ m \in Manager /\ m.call_id = c /\ m.remote = a
      /\ m.caller <=> r.caller
      /\ m.media = "live" /\ m.sdp = r.sdp
  <2> HIDE DEF r
  <2> QED BY <1>3 DEF Manager
<1> HIDE DEF m
<1>6. SameManagers /\ SdpKept
  BY <1>1, <1>2, <1>5, OneManager
<1>7. /\ managers'[b][i].media = "live"
      /\ managers \in [Browser -> Seq(Manager)]
  <2>1. managers \in [Browser -> Seq(Manager)]
    BY <1>1 DEF TypeOK
  <2>2. managers'[b][i] = m
    BY <1>2, <1>5, <2>1, SetManager
  <2> QED BY <1>5, <2>1, <2>2
<1>8. ScreenStep /\ NoNewError
  <2>1. CASE outcome = "refused"
    <3>1. faulty /\ UpdateCall(b, "error")
      BY <1>4, <2>1 DEF SendOutcome
    <3> QED BY <1>2, <3>1, UpdatedCall DEF CallStatus
  <2>2. CASE outcome # "refused"
    <3>1. UpdateCall(b, "connecting")
      BY <1>4, <2>2
    <3> QED BY <1>2, <3>1, UpdatedCall DEF CallStatus
  <2> QED BY <2>1, <2>2
<1>9. ErrorsCaused' /\ ScreenKept /\ CurrentKept /\ EndedCallIsCleared'
  BY <1>1, <1>2, <1>6, <1>8, ErrorsKept DEF CallInv, ScreenStep, NoNewError
<1>10. Roles' /\ OneCaller' /\ OfferNeverBuffered'
  BY <1>2, <1>6, RolesKept, OneCallerKept DEF CallInv, OfferNeverBuffered
<1>11. CASE r.caller
  <2>1. Said(b, a, "call_request", c)
    <3>1. Send(b, r, <<"call_request">>, outcome)
      BY <1>4, <1>11
    <3> HIDE DEF r
    <3> QED BY <1>1, <1>3, <3>1, SendSays DEF MsgType
  <2>2. Placed(managers, b, i, a, c) /\ Between(managers, b, a, c)
    BY <1>11 DEF Placed, Between
  <2> HIDE DEF a, c
  <2>3. TypeOK'
    BY <1>1, <1>2, <1>6, <1>8, <2>1, TypeKept DEF Said
  <2>4. Known'
    BY <1>2, <1>3, <1>6, <1>9, <2>1, KnownKept DEF CallInv
  <2>5. Paired'
    BY <1>1, <1>3, <1>6, <1>9, <2>1, <2>2, PairedKept DEF CallInv
  <2>6. CurrentIsFor'
    BY <1>1, <1>6, <1>9, CurrentIsForKept DEF CallInv
  <2>7. Negotiated'
    BY <1>1, <1>6, <2>1, NegotiatedKept DEF CallInv
  <2>8. Acceptances'
    BY <1>1, <1>6, <2>1, AcceptancesKept, SdpHeard DEF CallInv
  <2>9. Requested'
    <3> SUFFICES ASSUME NEW x \in Browser, NEW y \in Browser, NEW d \in CallId,
                        NEW k \in DOMAIN managers'[x], Placed(managers', x, k, y, d)
                 PROVE  /\ Once(wire'[x][y], "call_request", d)
                        /\ managers'[x][k].media = "asking" => ~Has(wire'[x][y], "call_request", d)
                        /\ managers'[x][k].media = "asking" \/ Has(wire'[x][y], "call_request", d)
                             => Unheard(y, d)'
      BY DEF Requested
    <3>1. /\ k \in DOMAIN managers[x] /\ Placed(managers, x, k, y, d)
          /\ managers'[x][k].media = "asking" => managers[x][k].media = "asking"
      BY <1>6, SamePlaced DEF SameManagers
    <3>2. /\ Once(wire[x][y], "call_request", d)
          /\ managers[x][k].media = "asking" => ~Has(wire[x][y], "call_request", d)
          /\ managers[x][k].media = "asking" \/ Has(wire[x][y], "call_request", d) => Unheard(y, d)
      BY <3>1 DEF CallInv, Requested
    <3>3. Unheard(y, d) => Unheard(y, d)'
      BY <1>6, <1>9 DEF Unheard, InCall, ScreenKept, SameManagers
    <3>4. CASE d = c
      <4>1. x = b /\ k = i /\ y = a
        BY <1>3, <2>2, <3>1, <3>4, OneBetween
      <4>2. Once(wire'[x][y], "call_request", d)
        BY <1>2, <2>1, <3>2, <4>1 DEF Said, MsgType
      <4> QED BY <1>2, <1>7, <3>2, <3>3, <4>1, <4>2
    <3>5. CASE d # c
      <4>1. /\ Has(wire'[x][y], "call_request", d) => Has(wire[x][y], "call_request", d)
            /\ Once(wire'[x][y], "call_request", d)
        BY <2>1, <3>2, <3>5 DEF Said, MsgType
      <4> QED BY <3>1, <3>2, <3>3, <4>1
    <3> QED BY <3>4, <3>5
  <2> QED BY <1>9, <1>10, <2>3, <2>4, <2>5, <2>6, <2>7, <2>8, <2>9 DEF CallInv
<1>12. CASE ~r.caller
  <2>1. Said(b, a, "call_accepted", c)
    <3>1. Send(b, r, <<"call_accepted">>, outcome)
      BY <1>4, <1>12
    <3> HIDE DEF r
    <3> QED BY <1>1, <1>3, <3>1, SendSays DEF MsgType
  <2>2. Between(managers, a, b, c)
    BY <1>12 DEF CallInv, Paired
  <2>3. PICK k \in DOMAIN managers[a] : Placed(managers, a, k, b, c)
    BY <2>2 DEF Between
  <2>4. i \in Callee(managers, b, c)
    BY <1>12 DEF Callee
  <2> HIDE DEF a, c
  <2>5. Negotiated'
    BY <1>1, <1>6, <2>1, NegotiatedKept DEF CallInv
  <2>6. Acceptance(managers, wire, a, k, b, c)
    BY <1>3, <2>3 DEF CallInv, Acceptances
  <2>7. /\ Granted(managers, b, c) \subseteq Granted(managers', b, c)
        /\ i \in Granted(managers', b, c) /\ i \notin Granted(managers, b, c)
    <3>1. Granted(managers, b, c) \subseteq Granted(managers', b, c) /\ i \in Callee(managers', b, c)
      BY <1>6, <2>4, SamePlaced
    <3> QED BY <1>2, <1>7, <3>1 DEF Granted
  <2>8. Granted(managers, b, c) # {} => Two(Granted(managers', b, c))
    BY <2>7 DEF Two
  <2>9. Two(Granted(managers, b, c)) => Two(Granted(managers', b, c))
    BY <2>7 DEF Two
  <2>10. managers'[a][k].sdp = managers[a][k].sdp
    BY <1>3, <1>6, <2>3 DEF SdpKept
  <2>11. Once(wire[b][a], "call_accepted", c) /\ ~Has(wire[b][a], "call_accepted", c)
           => Once(wire'[b][a], "call_accepted", c)
    BY <1>3, <2>1 DEF Said, MsgType
  <2>12. Acceptance(managers', wire', a, k, b, c)
    BY <2>6, <2>7, <2>8, <2>9, <2>10, <2>11 DEF Acceptance
  <2>13. OthersKeepSdp(c)
    BY <1>6 DEF SdpKept, OthersKeepSdp
  <2>14. Acceptances'
    BY <1>3, <1>6, <2>1, <2>3, <2>12, <2>13, AcceptancesBut
  <2> QED BY <1>2, <1>3, <1>6, <1>8, <1>9, <1>10, <2>1, <2>2, <2>5, <2>14, SdpStep
<1> QED BY <1>11, <1>12

\* The only request for a call makes it ring.
LEMMA OnCallRequestInv ==
  ASSUME CallInv, NEW a \in Browser, NEW b \in Browser, OnCallRequest(a, b)
  PROVE  CallInv'
<1> DEFINE c == Callid(a, b)
           r == [call_id |-> c, remote |-> a, status |-> "incoming", outgoing |-> FALSE]
<1>1. /\ TypeOK /\ UNCHANGED <<webrtc, endedCallIds, pendingOffer, timers, managers, used, faulty>>
      /\ wire[a][b] # <<>> /\ Head(wire[a][b]).type = "call_request" /\ Take(a, b)
      /\ activeCall' = [activeCall EXCEPT ![b] = r] /\ c \notin endedCallIds[b]
  BY DEF CallInv, OnCallRequest, Arriving, Heeded
<1>2. /\ Quieter /\ c \in CallId /\ Has(wire[a][b], "call_request", c)
      /\ Once(wire[a][b], "call_request", c) => ~Has(wire'[a][b], "call_request", c)
  BY <1>1, TakeQuiets
<1> HIDE DEF c
<1>3. c \in used /\ Between(managers, a, b, c)
  BY <1>2 DEF CallInv, Known, Paired, MsgType
<1>4. PICK i \in DOMAIN managers[a] : Placed(managers, a, i, b, c)
  BY <1>3 DEF Between
<1>5. /\ ~Has(wire'[a][b], "call_request", c) /\ managers[a][i].media # "asking"
      /\ Unheard(b, c)
  BY <1>2, <1>4 DEF CallInv, Requested
<1>6. r \in ActiveCall /\ r.call_id = c /\ r.remote = a /\ r.status = "incoming"
  BY <1>2 DEF ActiveCall, CallStatus
<1> HIDE DEF r
<1>7. /\ activeCall' \in [Browser -> ActiveCall \union {None}] /\ activeCall'[b] = r
      /\ \A x \in Browser : x # b => activeCall'[x] = activeCall[x]
  BY <1>1, <1>6 DEF TypeOK
<1>8. SameManagers /\ SdpKept
  BY <1>1, NoManager
<1>9. Said(a, b, "", c)
  BY <1>2, QuietSays
<1>10. TypeOK'
  BY <1>1, <1>2, <1>7 DEF TypeOK, Quieter, WireType
<1>11. Known'
  BY <1>1, <1>2, <1>3, <1>6, <1>7 DEF CallInv, Known, Quieter
<1>12. EndedCallIsCleared'
  BY <1>1, <1>6, <1>7 DEF CallInv, EndedCallIsCleared
<1>13. OfferNeverBuffered' /\ Roles' /\ OneCaller'
  BY <1>1 DEF CallInv, OfferNeverBuffered, Roles, OneCaller
<1>14. Paired'
  <2>1. \A x \in Browser : activeCall'[x] # None =>
          LET s == activeCall'[x]
          IN /\ Between(managers, s.remote, x, s.call_id) \/ Between(managers, x, s.remote, s.call_id)
             /\ s.status = "incoming" => Between(managers, s.remote, x, s.call_id)
    BY <1>3, <1>6, <1>7 DEF CallInv, Paired
  <2>2. \A x, y \in Browser, d \in CallId :
          /\ Has(wire'[x][y], "call_request", d) \/ Has(wire'[x][y], "sdp_offer", d)
               => Between(managers, x, y, d)
          /\ Has(wire'[x][y], "call_accepted", d) \/ Has(wire'[x][y], "sdp_answer", d)
               => Between(managers, y, x, d)
    BY <1>2 DEF CallInv, Paired, Quieter, MsgType
  <2> QED BY <1>1, <2>1, <2>2 DEF CallInv, Paired
<1>15. Requested'
  <2> SUFFICES ASSUME NEW x \in Browser, NEW y \in Browser, NEW d \in CallId,
                      NEW k \in DOMAIN managers[x], Placed(managers, x, k, y, d)
               PROVE  /\ Once(wire'[x][y], "call_request", d)
                      /\ managers[x][k].media = "asking" => ~Has(wire'[x][y], "call_request", d)
                      /\ managers[x][k].media = "asking" \/ Has(wire'[x][y], "call_request", d)
                           => Unheard(y, d)'
    BY <1>1 DEF Requested
  <2>1. /\ Once(wire[x][y], "call_request", d)
        /\ managers[x][k].media = "asking" => ~Has(wire[x][y], "call_request", d)
        /\ managers[x][k].media = "asking" \/ Has(wire[x][y], "call_request", d) => Unheard(y, d)
    BY DEF CallInv, Requested
  <2>2. /\ Has(wire'[x][y], "call_request", d) => Has(wire[x][y], "call_request", d)
        /\ Once(wire'[x][y], "call_request", d)
    BY <1>2, <2>1 DEF Quieter, MsgType
  <2>3. CASE y = b /\ d = c
    BY <1>4, <1>5, <2>2, <2>3, OneBetween
  <2>4. CASE y # b \/ d # c
    <3>1. Unheard(y, d) => Unheard(y, d)'
      BY <1>1, <1>6, <1>7, <2>4 DEF Unheard, InCall
    <3> QED BY <2>1, <2>2, <3>1
  <2> QED BY <2>3, <2>4
<1>16. CurrentIsFor'
  BY <1>1, <1>5, <1>6, <1>7 DEF CallInv, CurrentIsFor, InCall, Unheard
<1>17. Negotiated' /\ Acceptances'
  BY <1>1, <1>8, <1>9, NegotiatedKept, AcceptancesKept, SdpHeard DEF CallInv
<1>18. ErrorsCaused'
  BY <1>1, <1>6, <1>7 DEF CallInv, ErrorsCaused
<1> QED BY <1>10, <1>11, <1>12, <1>13, <1>14, <1>15, <1>16, <1>17, <1>18 DEF CallInv

-----------------------------------------------------------------------------
(* The steps that make a manager. *)

\* The new manager n of b is its last, number l, and the current one.
Grown(b, l, n) ==
  /\ managers' \in [Browser -> Seq(Manager)]
  /\ l \in Nat /\ l # None /\ l \notin DOMAIN managers[b]
  /\ l \in DOMAIN managers'[b] /\ managers'[b][l] = n
  /\ \A x \in Browser : \A j :
       j \in DOMAIN managers'[x] <=> j \in DOMAIN managers[x] \/ (x = b /\ j = l)
  /\ \A x \in Browser : \A j \in DOMAIN managers[x] : managers'[x][j] = managers[x][j]
  /\ webrtc' \in [Browser -> Nat \union {None}] /\ webrtc'[b] = l
  /\ \A x \in Browser : x # b => webrtc'[x] = webrtc[x]

LEMMA CreatedManager ==
  ASSUME TypeOK, NEW b \in Browser, NEW c \in CallId, NEW a \in Browser, NEW caller \in BOOLEAN,
         CreateManager(b, c, a, caller)
  PROVE  /\ NewManager(c, a, caller) \in Manager
         /\ Grown(b, Len(managers[b]) + 1, NewManager(c, a, caller))
<1> DEFINE n == NewManager(c, a, caller)
           q == managers[b]
           l == Len(q) + 1
<1>1. n \in Manager
  BY DEF NewManager, Manager
<1> HIDE DEF n
<1>2. managers \in [Browser -> Seq(Manager)] /\ q \in Seq(Manager)
  BY DEF TypeOK
<1>3. managers' = [managers EXCEPT ![b] = Append(q, n)] /\ webrtc' = [webrtc EXCEPT ![b] = l]
  BY <1>2 DEF CreateManager, n
<1> HIDE DEF q
<1>4. /\ l \in Nat /\ DOMAIN q = 1..(l - 1) /\ l \in 1..l /\ l \notin 1..(l - 1)
      /\ Append(q, n) \in Seq(Manager) /\ DOMAIN Append(q, n) = 1..l
      /\ Append(q, n)[l] = n /\ \A j \in 1..(l - 1) : Append(q, n)[j] = q[j]
  BY <1>1, <1>2
<1>5. \A j : j \in 1..l <=> j \in 1..(l - 1) \/ j = l
  BY <1>4
<1>6. l # None
  BY <1>4, BrowserCallAssumption
<1> HIDE DEF l
<1>7. /\ managers' \in [Browser -> Seq(Manager)] /\ managers'[b] = Append(q, n)
      /\ \A x \in Browser : x # b => managers'[x] = managers[x]
  BY <1>2, <1>3, <1>4
<1>8. /\ webrtc' \in [Browser -> Nat \union {None}] /\ webrtc'[b] = l
      /\ \A x \in Browser : x # b => webrtc'[x] = webrtc[x]
  BY <1>3, <1>4 DEF TypeOK
<1>9. managers[b] = q
  BY DEF q
<1>10. \A x \in Browser : \A j :
         j \in DOMAIN managers'[x] <=> j \in DOMAIN managers[x] \/ (x = b /\ j = l)
  BY <1>4, <1>5, <1>7, <1>9
<1>11. \A x \in Browser : \A j \in DOMAIN managers[x] : managers'[x][j] = managers[x][j]
  BY <1>4, <1>7, <1>9
<1>12. Grown(b, l, n)
  BY <1>4, <1>6, <1>7, <1>8, <1>9, <1>10, <1>11 DEF Grown
<1> QED BY <1>1, <1>12 DEF n, l, q

LEMMA GrownPlaced ==
  ASSUME NEW b \in Browser, NEW l, NEW n, Grown(b, l, n)
  PROVE  /\ \A x \in Browser : \A j, y, d :
              Placed(managers', x, j, y, d) <=>
                \/ Placed(managers, x, j, y, d)
                \/ x = b /\ j = l /\ n.caller /\ n.remote = y /\ n.call_id = d
         /\ \A x \in Browser : \A y, d : Between(managers, x, y, d) => Between(managers', x, y, d)
         /\ \A x \in Browser : \A d :
              /\ \A j : j \in Callee(managers', x, d) <=>
                   \/ j \in Callee(managers, x, d)
                   \/ x = b /\ j = l /\ n.call_id = d /\ ~n.caller
              /\ Granted(managers, x, d) \subseteq Granted(managers', x, d)
              /\ Twice(managers, x, d) => Twice(managers', x, d)
<1>1. \A x \in Browser : \A j, y, d :
        Placed(managers', x, j, y, d) <=>
          \/ Placed(managers, x, j, y, d)
          \/ x = b /\ j = l /\ n.caller /\ n.remote = y /\ n.call_id = d
  BY DEF Grown, Placed
<1>2. \A x \in Browser : \A y, d : Between(managers, x, y, d) => Between(managers', x, y, d)
  BY <1>1 DEF Grown, Between
<1>3. \A x \in Browser : \A d : \A j : j \in Callee(managers', x, d) <=>
        \/ j \in Callee(managers, x, d)
        \/ x = b /\ j = l /\ n.call_id = d /\ ~n.caller
  BY DEF Grown, Callee
<1>4. \A x \in Browser : \A d : Granted(managers, x, d) \subseteq Granted(managers', x, d)
  <2>1. \A x \in Browser : \A d : Callee(managers, x, d) \subseteq DOMAIN managers[x]
    BY DEF Callee
  <2> QED BY <1>3, <2>1 DEF Grown, Granted
<1>5. \A x \in Browser : \A d : Twice(managers, x, d) => Twice(managers', x, d)
  BY DEF Grown, Twice
<1> QED BY <1>1, <1>2, <1>3, <1>4, <1>5

\* Accepting again makes one more manager that waits for the offer.
LEMMA AcceptCallInv ==
  ASSUME CallInv, NEW b \in Browser, AcceptCall(b)
  PROVE  CallInv'
<1> DEFINE c == activeCall[b].call_id
           a == activeCall[b].remote
           l == Len(managers[b]) + 1
           n == NewManager(c, a, FALSE)
<1>1. /\ TypeOK /\ UNCHANGED <<activeCall, endedCallIds, pendingOffer, timers, wire, used, faulty>>
      /\ activeCall[b] # None /\ activeCall[b].status = "incoming"
      /\ CreateManager(b, c, a, FALSE)
  BY DEF CallInv, AcceptCall, Ringing, netVars
<1>2. c \in CallId /\ a \in Browser /\ c \in used /\ InCall(b, c) /\ Between(managers, a, b, c)
  BY <1>1, CallType DEF CallInv, Known, Paired, InCall
<1> HIDE DEF c, a
<1>3. n \in Manager /\ Grown(b, l, n)
  BY <1>1, <1>2, CreatedManager
<1>4. /\ n.call_id = c /\ n.remote = a
      /\ n.sdp = "none" /\ n.media = "asking" /\ ~n.caller
  BY DEF NewManager
<1> HIDE DEF l, n
<1>5. /\ \A x \in Browser : \A j, y, d :
           Placed(managers', x, j, y, d) <=> Placed(managers, x, j, y, d)
      /\ \A x \in Browser : \A y, d : Between(managers, x, y, d) => Between(managers', x, y, d)
      /\ \A x \in Browser : \A d :
           /\ \A j : j \in Callee(managers', x, d) <=>
                j \in Callee(managers, x, d) \/ (x = b /\ j = l /\ c = d)
           /\ Granted(managers, x, d) \subseteq Granted(managers', x, d)
           /\ Twice(managers, x, d) => Twice(managers', x, d)
  BY <1>3, <1>4, GrownPlaced
<1>6. TypeOK'
  BY <1>1, <1>3 DEF TypeOK, Grown
<1>7. Known'
  <2>1. \A x \in Browser : \A j \in DOMAIN managers'[x] : managers'[x][j].call_id \in used
    BY <1>2, <1>3, <1>4 DEF CallInv, Known, Grown
  <2> QED BY <1>1, <2>1 DEF CallInv, Known
<1>8. EndedCallIsCleared' /\ OfferNeverBuffered'
  BY <1>1 DEF CallInv, EndedCallIsCleared, OfferNeverBuffered
<1>9. OneCaller'
  BY <1>3, <1>4 DEF CallInv, OneCaller, Grown
<1>10. Paired'
  <2>1. \A x \in Browser : \A j \in DOMAIN managers'[x] : ~managers'[x][j].caller
          => Between(managers', managers'[x][j].remote, x, managers'[x][j].call_id)
    <3> SUFFICES ASSUME NEW x \in Browser, NEW j \in DOMAIN managers'[x], ~managers'[x][j].caller
                 PROVE  Between(managers', managers'[x][j].remote, x, managers'[x][j].call_id)
      OBVIOUS
    <3>1. CASE x = b /\ j = l
      BY <1>2, <1>3, <1>4, <1>5, <3>1 DEF Grown
    <3>2. CASE ~(x = b /\ j = l)
      <4>1. j \in DOMAIN managers[x] /\ managers'[x][j] = managers[x][j]
        BY <1>3, <3>2 DEF Grown
      <4>2. /\ Between(managers, managers[x][j].remote, x, managers[x][j].call_id)
            /\ managers[x][j].remote \in Browser
        BY <1>1, <4>1, ManagerType DEF CallInv, Paired
      <4> QED BY <1>5, <4>1, <4>2
    <3> QED BY <3>1, <3>2
  <2>2. \A x \in Browser : activeCall[x] # None => activeCall[x].remote \in Browser
    BY <1>1, CallType
  <2> QED BY <1>1, <1>5, <2>1, <2>2 DEF CallInv, Paired
<1>11. Requested'
  <2> SUFFICES ASSUME NEW x \in Browser, NEW y \in Browser, NEW d \in CallId,
                      NEW k \in DOMAIN managers'[x], Placed(managers', x, k, y, d)
               PROVE  /\ Once(wire[x][y], "call_request", d)
                      /\ managers'[x][k].media = "asking" => ~Has(wire[x][y], "call_request", d)
                      /\ managers'[x][k].media = "asking" \/ Has(wire[x][y], "call_request", d)
                           => Unheard(y, d)'
    BY <1>1 DEF Requested
  <2>1. k \in DOMAIN managers[x] /\ Placed(managers, x, k, y, d) /\ managers'[x][k] = managers[x][k]
    <3>1. Placed(managers, x, k, y, d)
      BY <1>5
    <3>2. k \in DOMAIN managers[x]
      BY <3>1 DEF Placed
    <3> QED BY <1>3, <3>1, <3>2 DEF Grown
  <2>2. /\ Once(wire[x][y], "call_request", d)
        /\ managers[x][k].media = "asking" => ~Has(wire[x][y], "call_request", d)
        /\ managers[x][k].media = "asking" \/ Has(wire[x][y], "call_request", d) => Unheard(y, d)
    BY <2>1 DEF CallInv, Requested
  <2>3. Unheard(y, d) => Unheard(y, d)'
    BY <1>1, <1>2, <1>3, <1>4 DEF Unheard, InCall, Grown
  <2> QED BY <2>1, <2>2, <2>3
<1>12. CurrentIsFor'
  <2> SUFFICES ASSUME NEW x \in Browser, NEW j \in DOMAIN managers'[x], NEW d,
                      d = managers'[x][j].call_id, InCall(x, d), d \notin endedCallIds[x]
               PROVE  webrtc'[x] # None /\ managers'[x][webrtc'[x]].call_id = d
    BY <1>1 DEF CurrentIsFor, InCall
  <2>1. CASE x = b
    BY <1>2, <1>3, <1>4, <2>1 DEF Grown, InCall
  <2>2. CASE x # b
    <3>1. j \in DOMAIN managers[x] /\ d = managers[x][j].call_id /\ webrtc'[x] = webrtc[x]
      BY <1>3, <2>2 DEF Grown
    <3>2. webrtc[x] # None /\ webrtc[x] \in DOMAIN managers[x] /\ managers[x][webrtc[x]].call_id = d
      BY <3>1, HeededManager
    <3> QED BY <1>3, <3>1, <3>2 DEF Grown
  <2> QED BY <2>1, <2>2
<1>13. Roles'
  BY <1>3, <1>4 DEF CallInv, Roles, Grown
<1>14. Negotiated'
  <2> SUFFICES ASSUME NEW x \in Browser, NEW y \in Browser, NEW d \in CallId,
                      NEW k \in DOMAIN managers'[x], Placed(managers', x, k, y, d)
               PROVE  Negotiation(managers', wire, x, k, y, d)
    BY <1>1 DEF Negotiated
  <2>1. k \in DOMAIN managers[x] /\ Placed(managers, x, k, y, d) /\ managers'[x][k] = managers[x][k]
    <3>1. Placed(managers, x, k, y, d)
      BY <1>5
    <3>2. k \in DOMAIN managers[x]
      BY <3>1 DEF Placed
    <3> QED BY <1>3, <3>1, <3>2 DEF Grown
  <2>2. Negotiation(managers, wire, x, k, y, d)
    BY <2>1 DEF CallInv, Negotiated
  <2>3. \A j \in Callee(managers, y, d) : managers'[y][j] = managers[y][j]
    BY <1>3 DEF Callee, Grown
  <2>4. \A j \in Callee(managers', y, d) :
          j \in Callee(managers, y, d) \/ managers'[y][j].sdp = "none"
    BY <1>3, <1>4, <1>5 DEF Grown
  <2> QED BY <2>1, <2>2, <2>3, <2>4 DEF Negotiation
<1>15. Acceptances'
  <2> SUFFICES ASSUME NEW x \in Browser, NEW y \in Browser, NEW d \in CallId,
                      NEW k \in DOMAIN managers'[x], Placed(managers', x, k, y, d)
               PROVE  Acceptance(managers', wire, x, k, y, d)
    BY <1>1 DEF Acceptances
  <2>1. k \in DOMAIN managers[x] /\ Placed(managers, x, k, y, d) /\ managers'[x][k] = managers[x][k]
    <3>1. Placed(managers, x, k, y, d)
      BY <1>5
    <3>2. k \in DOMAIN managers[x]
      BY <3>1 DEF Placed
    <3> QED BY <1>3, <3>1, <3>2 DEF Grown
  <2>2. Acceptance(managers, wire, x, k, y, d)
    BY <2>1 DEF CallInv, Acceptances
  <2> QED BY <1>5, <2>1, <2>2, AcceptanceKept
<1>16. ErrorsCaused'
  <2>1. \A x \in Browser : activeCall[x] # None => activeCall[x].remote \in Browser
    BY <1>1, CallType
  <2> QED BY <1>1, <1>5, <2>1 DEF CallInv, ErrorsCaused
<1> QED BY <1>6, <1>7, <1>8, <1>9, <1>10, <1>11, <1>12, <1>13, <1>14, <1>15, <1>16 DEF CallInv

\* A new call has an id of which nothing is known anywhere.
LEMMA CallPeerInv ==
  ASSUME CallInv, NEW b \in Browser, NEW peer \in Browser, CallPeer(b, peer)
  PROVE  CallInv'
<1>1. /\ TypeOK /\ UNCHANGED <<endedCallIds, pendingOffer, timers, wire, faulty>>
      /\ activeCall[b] = None /\ peer # b
  BY DEF CallInv, CallPeer
<1>2. PICK c \in CallId \ used :
        /\ used' = used \union {c}
        /\ activeCall' = [activeCall EXCEPT ![b] =
             [call_id |-> c, remote |-> peer, status |-> "outgoing", outgoing |-> TRUE]]
        /\ CreateManager(b, c, peer, TRUE)
  BY DEF CallPeer
<1> DEFINE r == [call_id |-> c, remote |-> peer, status |-> "outgoing", outgoing |-> TRUE]
           l == Len(managers[b]) + 1
           n == NewManager(c, peer, TRUE)
<1>3. n \in Manager /\ Grown(b, l, n)
  BY <1>1, <1>2, CreatedManager
<1>4. /\ n.call_id = c /\ n.remote = peer
      /\ n.sdp = "none" /\ n.media = "asking" /\ n.caller
  BY DEF NewManager
<1>5. r \in ActiveCall /\ r.call_id = c /\ r.remote = peer /\ r.status = "outgoing"
  BY <1>2 DEF ActiveCall, CallStatus
<1>6. activeCall' = [activeCall EXCEPT ![b] = r]
  BY <1>2
<1> HIDE DEF l, n, r
<1>7. /\ activeCall' \in [Browser -> ActiveCall \union {None}] /\ activeCall'[b] = r
      /\ \A x \in Browser : x # b => activeCall'[x] = activeCall[x]
  BY <1>1, <1>5, <1>6 DEF TypeOK
<1>8. /\ \A x \in Browser : \A j, y, d :
           Placed(managers', x, j, y, d) <=>
             Placed(managers, x, j, y, d) \/ (x = b /\ j = l /\ peer = y /\ c = d)
      /\ \A x \in Browser : \A y, d : Between(managers, x, y, d) => Between(managers', x, y, d)
      /\ \A x \in Browser : \A d :
           /\ \A j : j \in Callee(managers', x, d) <=> j \in Callee(managers, x, d)
           /\ Granted(managers, x, d) \subseteq Granted(managers', x, d)
           /\ Twice(managers, x, d) => Twice(managers', x, d)
  BY <1>3, <1>4, GrownPlaced
\* Nothing is known of c.
<1>9. /\ \A x \in Browser : activeCall[x] # None => activeCall[x].call_id # c
      /\ \A x \in Browser : c \notin endedCallIds[x]
      /\ \A x \in Browser : \A j \in DOMAIN managers[x] : managers[x][j].call_id # c
      /\ \A x, y \in Browser : \A type \in MsgType : ~Has(wire[x][y], type, c)
  BY <1>2 DEF CallInv, Known
<1>10. \A x \in Browser : \A k, y, d : Placed(managers', x, k, y, d) /\ d # c =>
         k \in DOMAIN managers[x] /\ Placed(managers, x, k, y, d) /\ managers'[x][k] = managers[x][k]
  <2> SUFFICES ASSUME NEW x \in Browser, NEW k, NEW y, NEW d, Placed(managers', x, k, y, d), d # c
               PROVE  k \in DOMAIN managers[x] /\ Placed(managers, x, k, y, d)
                        /\ managers'[x][k] = managers[x][k]
    OBVIOUS
  <2>1. Placed(managers, x, k, y, d)
    BY <1>8
  <2>2. k \in DOMAIN managers[x]
    BY <2>1 DEF Placed
  <2> QED BY <1>3, <2>1, <2>2 DEF Grown
<1>11. \A x \in Browser : \A k, y : Placed(managers', x, k, y, c) => x = b /\ k = l /\ y = peer
  <2> SUFFICES ASSUME NEW x \in Browser, NEW k, NEW y, Placed(managers', x, k, y, c)
               PROVE  x = b /\ k = l /\ y = peer
    OBVIOUS
  <2>1. ~Placed(managers, x, k, y, c)
    BY <1>9 DEF Placed
  <2> QED BY <1>8, <2>1
<1>12. TypeOK'
  BY <1>1, <1>2, <1>3, <1>7 DEF TypeOK, Grown
<1>13. Known'
  <2>1. \A x \in Browser : \A j \in DOMAIN managers'[x] : managers'[x][j].call_id \in used'
    <3> SUFFICES ASSUME NEW x \in Browser, NEW j \in DOMAIN managers'[x]
                 PROVE  managers'[x][j].call_id \in used'
      OBVIOUS
    <3>1. CASE x = b /\ j = l
      BY <1>2, <1>3, <1>4, <3>1 DEF Grown
    <3>2. CASE ~(x = b /\ j = l)
      BY <1>2, <1>3, <3>2 DEF CallInv, Known, Grown
    <3> QED BY <3>1, <3>2
  <2>2. \A x \in Browser : activeCall'[x] # None => activeCall'[x].call_id \in used'
    BY <1>2, <1>5, <1>7 DEF CallInv, Known
  <2> QED BY <1>1, <1>2, <2>1, <2>2 DEF CallInv, Known
<1>14. EndedCallIsCleared' /\ OfferNeverBuffered'
  BY <1>1, <1>5, <1>7, <1>9 DEF CallInv, EndedCallIsCleared, OfferNeverBuffered
<1>15. OneCaller'
  <2> SUFFICES ASSUME NEW x \in Browser, NEW y \in Browser,
                      NEW i \in DOMAIN managers'[x], NEW j \in DOMAIN managers'[y],
                      managers'[x][i].caller
               PROVE  /\ managers'[x][i].remote # x
                      /\ managers'[y][j].caller /\ managers'[x][i].call_id = managers'[y][j].call_id
                           => x = y /\ i = j
    BY DEF OneCaller
  <2>1. CASE (x = b /\ i = l) /\ (y = b /\ j = l)
    BY <1>1, <1>3, <1>4, <2>1 DEF Grown
  <2>2. CASE (x = b /\ i = l) /\ ~(y = b /\ j = l)
    <3>1. managers'[x][i] = n
      BY <1>3, <2>2 DEF Grown
    <3>2. managers'[y][j].call_id # c
      BY <1>3, <1>9, <2>2 DEF Grown
    <3> QED BY <1>1, <1>4, <2>2, <3>1, <3>2
  <2>3. CASE ~(x = b /\ i = l) /\ (y = b /\ j = l)
    BY <1>3, <1>4, <1>9, <2>3 DEF CallInv, OneCaller, Grown
  <2>4. CASE ~(x = b /\ i = l) /\ ~(y = b /\ j = l)
    BY <1>3, <2>4 DEF CallInv, OneCaller, Grown
  <2> QED BY <2>1, <2>2, <2>3, <2>4
<1>16. Paired'
  <2>1. \A x \in Browser : \A j \in DOMAIN managers'[x] : ~managers'[x][j].caller
          => Between(managers', managers'[x][j].remote, x, managers'[x][j].call_id)
    <3> SUFFICES ASSUME NEW x \in Browser, NEW j \in DOMAIN managers'[x], ~managers'[x][j].caller
                 PROVE  Between(managers', managers'[x][j].remote, x, managers'[x][j].call_id)
      OBVIOUS
    <3>1. j \in DOMAIN managers[x] /\ managers'[x][j] = managers[x][j]
      BY <1>3, <1>4 DEF Grown
    <3>2. /\ Between(managers, managers[x][j].remote, x, managers[x][j].call_id)
          /\ managers[x][j].remote \in Browser
      BY <1>1, <3>1, ManagerType DEF CallInv, Paired
    <3> QED BY <1>8, <3>1, <3>2
  <2>2. \A x \in Browser : activeCall'[x] # None =>
          LET s == activeCall'[x]
          IN /\ Between(managers', s.remote, x, s.call_id) \/ Between(managers', x, s.remote, s.call_id)
             /\ s.status = "incoming" => Between(managers', s.remote, x, s.call_id)
    <3> SUFFICES ASSUME NEW x \in Browser, activeCall'[x] # None
                 PROVE  LET s == activeCall'[x]
                        IN /\ \/ Between(managers', s.remote, x, s.call_id)
                              \/ Between(managers', x, s.remote, s.call_id)
                           /\ s.status = "incoming" => Between(managers', s.remote, x, s.call_id)
      OBVIOUS
    <3>1. CASE x = b
      <4>1. Placed(managers', b, l, peer, c)
        BY <1>8
      <4>2. Between(managers', b, peer, c)
        BY <4>1 DEF Between, Placed
      <4> QED BY <1>5, <1>7, <3>1, <4>2
    <3>2. CASE x # b
      BY <1>1, <1>7, <1>8, <3>2, CallType DEF CallInv, Paired
    <3> QED BY <3>1, <3>2
  <2> QED BY <1>1, <1>8, <2>1, <2>2 DEF CallInv, Paired
<1>17. Requested'
  <2> SUFFICES ASSUME NEW x \in Browser, NEW y \in Browser, NEW d \in CallId,
                      NEW k \in DOMAIN managers'[x], Placed(managers', x, k, y, d)
               PROVE  /\ Once(wire[x][y], "call_request", d)
                      /\ managers'[x][k].media = "asking" => ~Has(wire[x][y], "call_request", d)
                      /\ managers'[x][k].media = "asking" \/ Has(wire[x][y], "call_request", d)
                           => Unheard(y, d)'
    BY <1>1 DEF Requested
  <2>1. CASE d = c
    <3>1. ~Has(wire[x][y], "call_request", d)
      BY <1>9, <2>1 DEF MsgType
    <3>2. Once(wire[x][y], "call_request", d)
      BY <3>1 DEF Has, Once
    <3>3. y # b
      BY <1>1, <1>11, <2>1
    <3>4. Unheard(y, d)'
      <4>1. ~InCall(y, d)'
        BY <1>7, <1>9, <2>1, <3>3 DEF InCall
      <4>2. \A j \in DOMAIN managers'[y] : managers'[y][j].call_id # d
        BY <1>3, <1>9, <2>1, <3>3 DEF Grown
      <4> QED BY <4>1, <4>2 DEF Unheard
    <3> QED BY <3>1, <3>2, <3>4
  <2>2. CASE d # c
    <3>1. k \in DOMAIN managers[x] /\ Placed(managers, x, k, y, d) /\ managers'[x][k] = managers[x][k]
      BY <1>10, <2>2
    <3>2. /\ Once(wire[x][y], "call_request", d)
          /\ managers[x][k].media = "asking" => ~Has(wire[x][y], "call_request", d)
          /\ managers[x][k].media = "asking" \/ Has(wire[x][y], "call_request", d) => Unheard(y, d)
      BY <3>1 DEF CallInv, Requested
    <3>3. Unheard(y, d) => Unheard(y, d)'
      <4>1. InCall(y, d)' => InCall(y, d)
        BY <1>5, <1>7, <2>2 DEF InCall
      <4>2. \A j \in DOMAIN managers'[y] : managers'[y][j].call_id = d =>
              j \in DOMAIN managers[y] /\ managers[y][j].call_id = d
        BY <1>3, <1>4, <2>2 DEF Grown
      <4> QED BY <4>1, <4>2 DEF Unheard
    <3> QED BY <3>1, <3>2, <3>3
  <2> QED BY <2>1, <2>2
<1>18. CurrentIsFor'
  <2> SUFFICES ASSUME NEW x \in Browser, NEW j \in DOMAIN managers'[x], NEW d,
                      d = managers'[x][j].call_id, InCall(x, d)', d \notin endedCallIds[x]
               PROVE  webrtc'[x] # None /\ managers'[x][webrtc'[x]].call_id = d
    BY <1>1 DEF CurrentIsFor
  <2>1. CASE x = b
    BY <1>3, <1>4, <1>5, <1>7, <2>1 DEF Grown, InCall
  <2>2. CASE x # b
    <3>1. j \in DOMAIN managers[x] /\ d = managers[x][j].call_id /\ webrtc'[x] = webrtc[x]
      BY <1>3, <2>2 DEF Grown
    <3>2. InCall(x, d)
      BY <1>7, <2>2 DEF InCall
    <3>3. webrtc[x] # None /\ webrtc[x] \in DOMAIN managers[x] /\ managers[x][webrtc[x]].call_id = d
      BY <3>1, <3>2, HeededManager
    <3> QED BY <1>3, <3>1, <3>3 DEF Grown
  <2> QED BY <2>1, <2>2
<1>19. Roles'
  BY <1>3, <1>4 DEF CallInv, Roles, Grown
<1>20. ASSUME NEW x \in Browser, NEW y \in Browser, NEW d \in CallId,
              NEW k \in DOMAIN managers'[x], Placed(managers', x, k, y, d)
       PROVE  Negotiation(managers', wire, x, k, y, d) /\ Acceptance(managers', wire, x, k, y, d)
  <2>1. CASE d = c
    <3>1. /\ ~Has(wire[x][y], "sdp_offer", d) /\ ~Has(wire[y][x], "sdp_answer", d)
          /\ ~Has(wire[y][x], "call_accepted", d)
      BY <1>9, <2>1 DEF MsgType
    <3>2. /\ Once(wire[x][y], "sdp_offer", d) /\ Once(wire[y][x], "sdp_answer", d)
          /\ Once(wire[y][x], "call_accepted", d)
      BY <3>1 DEF Has, Once
    <3>3. managers'[x][k].sdp = "none"
      <4>1. x = b /\ k = l
        BY <1>11, <1>20, <2>1
      <4> QED BY <1>3, <1>4, <4>1 DEF Grown
    <3>4. \A j : j \notin Callee(managers', y, d)
      <4>1. \A j : j \notin Callee(managers, y, d)
        BY <1>9, <2>1 DEF Callee
      <4> QED BY <1>8, <4>1
    <3> QED BY <3>1, <3>2, <3>3, <3>4 DEF Negotiation, Acceptance
  <2>2. CASE d # c
    <3>1. k \in DOMAIN managers[x] /\ Placed(managers, x, k, y, d) /\ managers'[x][k] = managers[x][k]
      BY <1>10, <1>20, <2>2
    <3>2. Negotiation(managers, wire, x, k, y, d) /\ Acceptance(managers, wire, x, k, y, d)
      BY <3>1 DEF CallInv, Negotiated, Acceptances
    <3>3. \A j \in Callee(managers, y, d) : managers'[y][j] = managers[y][j]
      BY <1>3 DEF Callee, Grown
    <3>4. Negotiation(managers', wire, x, k, y, d)
      BY <1>8, <3>1, <3>2, <3>3 DEF Negotiation
    <3>5. Granted(managers, y, d) \subseteq Granted(managers', y, d)
      BY <1>8
    <3>6. Acceptance(managers', wire, x, k, y, d)
      BY <3>1, <3>2, <3>5, AcceptanceKept
    <3> QED BY <3>4, <3>6
  <2> QED BY <2>1, <2>2
<1>21. Negotiated' /\ Acceptances'
  BY <1>1, <1>20 DEF Negotiated, Acceptances
<1>22. ErrorsCaused'
  <2>1. \A x \in Browser : activeCall[x] # None => activeCall[x].remote \in Browser
    BY <1>1, CallType
  <2> QED BY <1>1, <1>5, <1>7, <1>8, <2>1 DEF CallInv, ErrorsCaused
<1> QED BY <1>12, <1>13, <1>14, <1>15, <1>16, <1>17, <1>18, <1>19, <1>21, <1>22 DEF CallInv

-----------------------------------------------------------------------------
(* The invariant. *)

LEMMA CallInit == Init => CallInv
<1> SUFFICES ASSUME Init
             PROVE  CallInv
  OBVIOUS
<1>1. /\ \A b \in Browser : /\ activeCall[b] = None /\ webrtc[b] = None /\ endedCallIds[b] = {}
                            /\ pendingOffer[b] = None /\ timers[b] = 0 /\ managers[b] = <<>>
      /\ \A a, b \in Browser : wire[a][b] = <<>>
      /\ \A b \in Browser : DOMAIN managers[b] = {}
      /\ \A a, b \in Browser : DOMAIN wire[a][b] = {}
  BY DEF Init
<1>2. TypeOK
  <2>1. faulty \in BOOLEAN
    BY BrowserCallAssumption, Zenon DEF Init
  <2>2. /\ activeCall \in [Browser -> ActiveCall \union {None}]
        /\ webrtc \in [Browser -> Nat \union {None}]
        /\ pendingOffer \in [Browser -> CallId \union {None}]
    BY DEF Init
  <2>3. /\ endedCallIds \in [Browser -> SUBSET CallId] /\ timers \in [Browser -> Nat]
        /\ used \subseteq CallId
    BY DEF Init
  <2>4. managers \in [Browser -> Seq(Manager)]
    BY DEF Init
  <2>5. wire \in [Browser -> [Browser -> Seq(Msg)]]
    BY DEF Init
  <2> QED BY <1>1, <2>1, <2>2, <2>3, <2>4, <2>5 DEF TypeOK
<1>3. \A a, b \in Browser : \A type, c : ~Has(wire[a][b], type, c)
  BY <1>1 DEF Has
<1>4. \A a \in Browser : \A i, b, c : ~Placed(managers, a, i, b, c)
  BY <1>1 DEF Placed
<1>5. Known /\ EndedCallIsCleared /\ OfferNeverBuffered /\ OneCaller /\ CurrentIsFor /\ Roles
  BY <1>1, <1>3 DEF Known, EndedCallIsCleared, OfferNeverBuffered, OneCaller, CurrentIsFor, Roles
<1>6. Paired /\ ErrorsCaused
  BY <1>1, <1>3 DEF Paired, ErrorsCaused
<1>7. Requested /\ Negotiated /\ Acceptances
  BY <1>4 DEF Requested, Negotiated, Acceptances
<1> QED BY <1>2, <1>5, <1>6, <1>7 DEF CallInv

LEMMA CallStutter == CallInv /\ UNCHANGED vars => CallInv'
<1> SUFFICES ASSUME CallInv, UNCHANGED vars
             PROVE  CallInv'
  OBVIOUS
<1>1. /\ UNCHANGED <<activeCall, webrtc, endedCallIds, pendingOffer, timers, managers>>
      /\ UNCHANGED <<wire, used, faulty>>
  BY DEF vars, ctrlVars, netVars
<1>2. TypeOK' /\ EndedCallIsCleared' /\ OfferNeverBuffered' /\ OneCaller' /\ Roles'
  BY <1>1 DEF CallInv, TypeOK, EndedCallIsCleared, OfferNeverBuffered, OneCaller, Roles
<1>3. Known' /\ Paired'
  BY <1>1 DEF CallInv, Known, Paired
<1>4. Requested' /\ CurrentIsFor'
  BY <1>1 DEF CallInv, Requested, CurrentIsFor, Unheard, InCall
<1>5. Negotiated' /\ Acceptances' /\ ErrorsCaused'
  BY <1>1 DEF CallInv, Negotiated, Acceptances, ErrorsCaused
<1> QED BY <1>2, <1>3, <1>4, <1>5 DEF CallInv

LEMMA CallStep == CallInv /\ [Next]_vars => CallInv'
<1> SUFFICES ASSUME CallInv, [Next]_vars
             PROVE  CallInv'
  OBVIOUS
<1>1. ASSUME NEW b \in Browser, User(b)
      PROVE  CallInv'
  BY <1>1, CallPeerInv, AcceptCallInv, RejectCallInv, HangUpInv DEF User
<1>2. ASSUME NEW b \in Browser, Continue(b)
      PROVE  CallInv'
  <2>1. ASSUME NEW i \in DOMAIN managers[b], MediaGranted(b, i)
        PROVE  CallInv'
    BY <2>1, MediaGrantedInv
  <2>2. ASSUME NEW i \in DOMAIN managers[b], MediaDenied(b, i)
        PROVE  CallInv'
    BY <2>2, MediaDeniedInv
  <2>3. ASSUME NEW i \in DOMAIN managers[b], DescriptionReady(b, i)
        PROVE  CallInv'
    BY <2>3, DescriptionReadyInv
  <2>4. ASSUME NEW i \in DOMAIN managers[b], DescriptionFails(b, i)
        PROVE  CallInv'
    BY <2>4, DescriptionFailsInv
  <2>5. ASSUME NEW i \in DOMAIN managers[b], CandidateGathered(b, i)
        PROVE  CallInv'
    BY <2>5, CandidateGatheredInv
  <2>6. ASSUME NEW i \in DOMAIN managers[b], Connected(b, i)
        PROVE  CallInv'
    BY <2>6, ConnectedInv
  <2>7. ASSUME NEW i \in DOMAIN managers[b], ConnectionFailed(b, i)
        PROVE  CallInv'
    BY <2>7, ConnectionFailedInv
  <2>8. ASSUME ClearCall(b)
        PROVE  CallInv'
    BY <2>8, ClearCallInv
  <2> QED BY <1>2, <2>1, <2>2, <2>3, <2>4, <2>5, <2>6, <2>7, <2>8 DEF Continue
<1>3. ASSUME NEW a \in Browser, NEW b \in Browser, HandleEnvelope(a, b)
      PROVE  CallInv'
  <2>1. ASSUME Ignore(a, b)
        PROVE  CallInv'
    BY <2>1, IgnoreInv
  <2>2. ASSUME OnCallRequest(a, b)
        PROVE  CallInv'
    BY <2>2, OnCallRequestInv
  <2>3. ASSUME OnCallAccepted(a, b)
        PROVE  CallInv'
    BY <2>3, OnCallAcceptedInv
  <2>4. ASSUME OnCallOver(a, b)
        PROVE  CallInv'
    BY <2>4, OnCallOverInv
  <2>5. ASSUME OnSdpOffer(a, b)
        PROVE  CallInv'
    BY <2>5, OnSdpOfferInv
  <2>6. ASSUME OnSdpAnswer(a, b)
        PROVE  CallInv'
    BY <2>6, OnSdpAnswerInv
  <2>7. ASSUME OnIceCandidate(a, b)
        PROVE  CallInv'
    BY <2>7, OnIceCandidateInv
  <2> QED BY <1>3, <2>1, <2>2, <2>3, <2>4, <2>5, <2>6, <2>7 DEF HandleEnvelope
<1>4. CASE UNCHANGED vars
  BY <1>4, CallStutter
<1> QED BY <1>1, <1>2, <1>3, <1>4 DEF Next

THEOREM CallInvariant == Spec => []CallInv
BY CallInit, CallStep, PTL DEF Spec

-----------------------------------------------------------------------------
(* The properties. *)

\* Every variable of the browsers' controllers, managers and messages keeps the
\* shape the code gives it.
THEOREM TypeCorrect == Spec => []TypeOK
BY CallInvariant, PTL DEF CallInv

\* A call that is over never stays on the screen without a timer of endCall
\* that will clear it, whatever late callback changes its status.
THEOREM EndedCallsCleared == Spec => []EndedCallIsCleared
BY CallInvariant, PTL DEF CallInv

LEMMA HeededMessage ==
  ASSUME CallInv, NEW a \in Browser, NEW b \in Browser, NEW type, type # "call_request",
         Arriving(a, b, type), Heeded(a, b)
  PROVE  LET c == Callid(a, b)
         IN /\ c \in CallId /\ InCall(b, c) /\ c \notin endedCallIds[b]
            /\ Has(wire[a][b], type, c)
<1> DEFINE q == wire[a][b]
<1>1. q \in Seq(Msg) /\ q # <<>> /\ Head(q).type = type /\ Callid(a, b) = Head(q).call_id
  BY DEF CallInv, TypeOK, Arriving, Callid
<1> HIDE DEF q
<1>2. Head(q) \in Msg /\ Has(q, type, Callid(a, b))
  BY <1>1, TailQueue
<1>3. Callid(a, b) \in CallId
  BY <1>1, <1>2 DEF Msg
<1>4. InCall(b, Callid(a, b)) /\ Callid(a, b) \notin endedCallIds[b]
  BY DEF Heeded, Arriving
<1> QED BY <1>2, <1>3, <1>4 DEF q

\* Negotiation messages meet the manager they are for: an offer that is heeded
\* finds one that the callee made for its call and that waits for it, an answer
\* the one whose offer it answers, although handleEnvelope compares the call
\* that is shown and hands the message to whatever manager is current.
THEOREM SdpMeetsManager == Spec => []SdpFindsItsManager
<1>1. CallInv => SdpFindsItsManager
  <2> SUFFICES ASSUME CallInv, NEW a \in Browser, NEW b \in Browser,
                      Arriving(a, b, "sdp_offer") \/ Arriving(a, b, "sdp_answer"), Heeded(a, b)
               PROVE  /\ webrtc[b] # None
                      /\ LET m == managers[b][webrtc[b]]
                             answer == Arriving(a, b, "sdp_answer")
                         IN /\ m.call_id = Callid(a, b) /\ m.remote = a /\ m.caller = answer
                            /\ m.sdp = IF answer THEN "offered" ELSE "none"
    BY DEF SdpFindsItsManager
  <2> DEFINE c == Callid(a, b)
             w == webrtc[b]
             m == managers[b][w]
  <2>1. CASE Arriving(a, b, "sdp_offer")
    <3>1. /\ c \in CallId /\ InCall(b, c) /\ c \notin endedCallIds[b]
          /\ Has(wire[a][b], "sdp_offer", c)
      BY <2>1, HeededMessage
    <3> HIDE DEF c
    <3>2. Between(managers, a, b, c)
      BY <3>1 DEF CallInv, Paired
    <3>3. PICK i \in DOMAIN managers[a] : Placed(managers, a, i, b, c)
      BY <3>2 DEF Between
    <3>4. Negotiation(managers, wire, a, i, b, c) /\ Acceptance(managers, wire, a, i, b, c)
      BY <3>1, <3>3 DEF CallInv, Negotiated, Acceptances
    <3>5. PICK j \in DOMAIN managers[b] : managers[b][j].call_id = c
      BY <3>1, <3>4 DEF Negotiation, Acceptance, Granted, Callee
    <3>6. w # None /\ w \in DOMAIN managers[b] /\ m.call_id = c
      BY <3>1, <3>5, HeededManager
    <3>7. w \in Callee(managers, b, c) /\ ~m.caller /\ m.remote = a
      BY <3>2, <3>6, TheirManager
    <3>8. m.sdp = "none"
      BY <3>1, <3>4, <3>7 DEF Negotiation
    <3>9. ~Arriving(a, b, "sdp_answer")
      BY <2>1 DEF Arriving
    <3>10. m.caller \in BOOLEAN
      BY <3>6, ManagerType DEF CallInv
    <3> HIDE DEF m, w
    <3>11. m.caller = Arriving(a, b, "sdp_answer")
      BY <3>7, <3>9, <3>10 DEF Arriving
    <3> QED BY <3>6, <3>7, <3>8, <3>9, <3>11 DEF c, m, w
  <2>2. CASE Arriving(a, b, "sdp_answer")
    <3>1. /\ c \in CallId /\ InCall(b, c) /\ c \notin endedCallIds[b]
          /\ Has(wire[a][b], "sdp_answer", c)
      BY <2>2, HeededMessage
    <3> HIDE DEF c
    <3>2. Between(managers, b, a, c)
      BY <3>1 DEF CallInv, Paired
    <3>3. w # None /\ w \in DOMAIN managers[b] /\ Placed(managers, b, w, a, c)
      BY <3>1, <3>2, CallerHeeds
    <3>4. m.sdp = "offered"
      BY <3>1, <3>3 DEF CallInv, Negotiated, Negotiation
    <3>5. m.call_id = c /\ m.remote = a /\ m.caller /\ m.caller \in BOOLEAN
      BY <3>3, ManagerType DEF CallInv, Placed
    <3> HIDE DEF m, w
    <3>6. m.caller = Arriving(a, b, "sdp_answer")
      BY <2>2, <3>5 DEF Arriving
    <3> QED BY <2>2, <3>3, <3>4, <3>5, <3>6 DEF c, m, w
  <2> QED BY <2>1, <2>2
<1> QED BY <1>1, CallInvariant, PTL

\* An offer is made at most once for a call, after the callee accepted, and all
\* managers the callee made for the call wait for it as long as it is on its way.
THEOREM OneOffer == Spec => []OfferOnce
<1>1. CallInv => OfferOnce
  <2> SUFFICES ASSUME CallInv, NEW a \in Browser, NEW b \in Browser, NEW c \in CallId,
                      NEW offers,
                      offers = {k \in DOMAIN wire[a][b] :
                                  wire[a][b][k] = [type |-> "sdp_offer", call_id |-> c]},
                      offers # {}
               PROVE  /\ Cardinality(offers) = 1
                      /\ Accepted(b, c) # {}
                      /\ \A i \in Accepted(b, c) : managers[b][i].sdp = "none"
    BY DEF OfferOnce
  <2>1. \A k \in offers : /\ k \in DOMAIN wire[a][b]
                          /\ wire[a][b][k].type = "sdp_offer" /\ wire[a][b][k].call_id = c
    OBVIOUS
  <2>2. PICK k : k \in offers
    OBVIOUS
  <2>3. Has(wire[a][b], "sdp_offer", c)
    BY <2>1, <2>2 DEF Has
  <2>4. Between(managers, a, b, c)
    BY <2>3 DEF CallInv, Paired
  <2>5. PICK i \in DOMAIN managers[a] : Placed(managers, a, i, b, c)
    BY <2>4 DEF Between
  <2>6. Negotiation(managers, wire, a, i, b, c) /\ Acceptance(managers, wire, a, i, b, c)
    BY <2>5 DEF CallInv, Negotiated, Acceptances
  <2>7. Cardinality(offers) = 1
    <3>1. offers = {k}
      BY <2>1, <2>2, <2>6 DEF Negotiation, Once
    <3> QED BY <3>1, FS_Singleton
  <2>8. Accepted(b, c) = Callee(managers, b, c)
    BY DEF Accepted, Callee
  <2>9. Callee(managers, b, c) # {}
    BY <2>3, <2>6 DEF Negotiation, Acceptance, Granted
  <2> QED BY <2>3, <2>6, <2>7, <2>8, <2>9 DEF Negotiation
<1> QED BY <1>1, CallInvariant, PTL

\* Without faults a call is shown as an error only when the other side's user
\* accepted it more than once.
THEOREM ErrorsHaveCause == Spec => []NoErrorWithoutCause
<1>1. CallInv => NoErrorWithoutCause
  <2> SUFFICES ASSUME CallInv, ~faulty, NEW b \in Browser, activeCall[b] # None,
                      activeCall[b].status = "error"
               PROVE  Cardinality(Accepted(activeCall[b].remote, activeCall[b].call_id)) > 1
    BY DEF NoErrorWithoutCause
  <2> DEFINE a == activeCall[b].remote
             c == activeCall[b].call_id
             S == Accepted(a, c)
  <2>1. a \in Browser /\ Twice(managers, a, c)
    BY CallType DEF CallInv, ErrorsCaused
  <2> HIDE DEF a, c
  <2>2. PICK i \in S, j \in S : i # j
    BY <2>1 DEF Twice, Accepted
  <2>3. IsFiniteSet(S) /\ Cardinality(S) \in Nat
    <3>1. managers[a] \in Seq(Manager)
      BY <2>1 DEF CallInv, TypeOK
    <3>2. Len(managers[a]) \in Int /\ DOMAIN managers[a] = 1..Len(managers[a])
      BY <3>1
    <3>3. IsFiniteSet(1..Len(managers[a]))
      BY <3>2, FS_Interval
    <3>4. S \in SUBSET (1..Len(managers[a]))
      BY <3>2 DEF Accepted
    <3> HIDE DEF S
    <3>5. IsFiniteSet(S)
      BY <3>3, <3>4, FS_Subset
    <3> QED BY <3>5, FS_CardinalityType
  <2>4. Cardinality({i} \union {j}) = 2 /\ {i} \union {j} \in SUBSET S
    <3>1. IsFiniteSet({i}) /\ Cardinality({i}) = 1
      BY FS_Singleton
    <3>2. j \notin {i}
      BY <2>2
    <3>3. Cardinality({i} \union {j}) = 1 + 1
      BY <3>1, <3>2, FS_AddElement
    <3> QED BY <3>3
  <2> HIDE DEF S
  <2>5. Cardinality({i} \union {j}) <= Cardinality(S)
    BY <2>3, <2>4, FS_Subset
  <2>6. Cardinality(S) > 1
    BY <2>3, <2>4, <2>5
  <2> QED BY <2>6 DEF S, a, c
<1> QED BY <1>1, CallInvariant, PTL

==============================================================================
