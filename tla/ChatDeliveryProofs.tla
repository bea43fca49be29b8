------------------------- MODULE ChatDeliveryProofs -------------------------
(***************************************************************************)
(* Proofs about ChatDelivery, for any finite set of messages, any peers,   *)
(* any limits and any number of restarts.                                  *)
(***************************************************************************)
EXTENDS ChatDelivery, RequestResponseProofs, SequenceTheorems

-----------------------------------------------------------------------------
(* Facts about the operators the queue is built from. *)

\* Removing a message from a queue takes at most one entry off it.
LEMMA RemoveEntryLength ==
  ASSUME NEW S, NEW s \in Seq(S), NEW m
  PROVE  /\ RemoveEntry(s, m) \in Seq(S)
         /\ Len(RemoveEntry(s, m)) \in Nat
         /\ Len(RemoveEntry(s, m)) >= Len(s) - 1
<1> DEFINE k == CHOOSE i \in DOMAIN s : s[i] = m
<1>1. /\ Len(s) \in Nat
      /\ DOMAIN s = 1 .. Len(s)
      /\ \A i \in 1 .. Len(s) : s[i] \in S
  BY LenProperties, ElementOfSeq
<1>2. CASE m \notin ToSet(s)
  BY <1>1, <1>2 DEF RemoveEntry
<1>3. CASE m \in ToSet(s)
  <2>1. \E i \in DOMAIN s : s[i] = m
    BY <1>3 DEF ToSet
  <2>2. k \in 1 .. Len(s)
    BY <1>1, <2>1
  <2>3. RemoveEntry(s, m) = SubSeq(s, 1, k - 1) \o SubSeq(s, k + 1, Len(s))
    BY <1>3 DEF RemoveEntry, RemoveAt
  <2> HIDE DEF k
  <2>4. /\ SubSeq(s, 1, k - 1) \in Seq(S)
        /\ Len(SubSeq(s, 1, k - 1)) = k - 1
    <3>1. (\A i \in 1 .. k - 1 : s[i] \in S) /\ 1 \in Int /\ k - 1 \in Int
      BY <1>1, <2>2
    <3>2. /\ SubSeq(s, 1, k - 1) \in Seq(S)
          /\ Len(SubSeq(s, 1, k - 1)) = IF 1 <= k - 1 THEN k - 1 - 1 + 1 ELSE 0
      BY ONLY <3>1, SubSeqProperties
    <3> QED BY <3>2, <1>1, <2>2
  <2> DEFINE rest == SubSeq(s, k + 1, Len(s))
  <2>5. rest \in Seq(S) /\ Len(rest) = Len(s) - k
    <3>1. (\A i \in k + 1 .. Len(s) : s[i] \in S) /\ k + 1 \in Int /\ Len(s) \in Int
      BY <1>1, <2>2
    <3>2. /\ rest \in Seq(S)
          /\ Len(rest) = IF k + 1 <= Len(s) THEN Len(s) - (k + 1) + 1 ELSE 0
      BY ONLY <3>1, SubSeqProperties
    <3> HIDE DEF rest
    <3>3. Len(s) \in Int /\ k \in Int /\ k <= Len(s)
      BY <1>1, <2>2
    <3>4. rest \in Seq(S)
      BY <3>2
    <3>5. Len(rest) = Len(s) - k
      BY <3>2, <3>3
    <3> QED BY <3>4, <3>5
  <2>6. /\ RemoveEntry(s, m) \in Seq(S)
        /\ Len(RemoveEntry(s, m)) = (k - 1) + (Len(s) - k)
    BY <2>3, <2>4, <2>5, ConcatProperties
  <2> QED BY <1>1, <2>2, <2>6
<1> QED BY <1>2, <1>3

\* Popping a queue takes at most one entry off it.
LEMMA TakeOutboundLength ==
  ASSUME NEW S, NEW s \in Seq(S)
  PROVE  /\ TakeOutbound(s) \in Seq(S)
         /\ Len(TakeOutbound(s)) \in Nat
         /\ Len(TakeOutbound(s)) >= Len(s) - 1
<1>1. CASE s = <<>>
  BY <1>1, EmptySeq DEF TakeOutbound
<1>2. CASE s # <<>>
  BY <1>2, HeadTailProperties, LenProperties DEF TakeOutbound
<1> QED BY <1>1, <1>2

\* Popping a queue without repetition leaves one, of entries it had.
LEMMA TakeOutboundEntries ==
  ASSUME NEW S, NEW s \in Seq(S), IsInjective(s)
  PROVE  IsInjective(TakeOutbound(s)) /\ ToSet(TakeOutbound(s)) \subseteq ToSet(s)
<1>1. CASE s = <<>>
  BY <1>1 DEF TakeOutbound
<1>2. CASE s # <<>>
  <2>1. /\ Len(s) \in Nat /\ DOMAIN s = 1 .. Len(s)
        /\ Tail(s) \in Seq(S) /\ Len(Tail(s)) = Len(s) - 1
        /\ \A i \in 1 .. Len(Tail(s)) : Tail(s)[i] = s[i + 1]
    BY <1>2, HeadTailProperties, LenProperties
  <2>2. DOMAIN Tail(s) = 1 .. Len(s) - 1
    BY <2>1, LenProperties
  <2>3. TakeOutbound(s) = Tail(s)
    BY <1>2 DEF TakeOutbound
  <2>4. IsInjective(Tail(s))
    BY <2>1, <2>2 DEF IsInjective
  <2>5. ToSet(Tail(s)) \subseteq ToSet(s)
    BY <2>1, <2>2 DEF ToSet
  <2> QED BY <2>3, <2>4, <2>5
<1> QED BY <1>1, <1>2

\* Removing a message from a queue without repetition leaves one without it.
LEMMA RemoveEntryEntries ==
  ASSUME NEW S, NEW s \in Seq(S), NEW m, IsInjective(s)
  PROVE  /\ IsInjective(RemoveEntry(s, m))
         /\ ToSet(RemoveEntry(s, m)) \subseteq ToSet(s) \ {m}
<1> DEFINE k == CHOOSE i \in DOMAIN s : s[i] = m
           t == RemoveEntry(s, m)
<1>1. /\ Len(s) \in Nat
      /\ DOMAIN s = 1 .. Len(s)
      /\ \A i \in 1 .. Len(s) : s[i] \in S
  BY LenProperties, ElementOfSeq
<1>2. CASE m \notin ToSet(s)
  BY <1>2 DEF RemoveEntry
<1>3. CASE m \in ToSet(s)
  <2>1. \E i \in DOMAIN s : s[i] = m
    BY <1>3 DEF ToSet
  <2>2. k \in 1 .. Len(s) /\ s[k] = m
    BY <1>1, <2>1
  <2>3. t = SubSeq(s, 1, k - 1) \o SubSeq(s, k + 1, Len(s))
    BY <1>3 DEF RemoveEntry, RemoveAt
  <2> HIDE DEF k, t
  <2> DEFINE f == SubSeq(s, 1, k - 1)
             g == SubSeq(s, k + 1, Len(s))
  <2>f. /\ f \in Seq(S) /\ Len(f) = k - 1
        /\ \A i \in 1 .. k - 1 : f[i] = s[i]
    <3>1. (\A i \in 1 .. k - 1 : s[i] \in S) /\ 1 \in Int /\ k - 1 \in Int
      BY <1>1, <2>2
    <3>2. /\ f \in Seq(S)
          /\ Len(f) = IF 1 <= k - 1 THEN k - 1 - 1 + 1 ELSE 0
          /\ \A i \in 1 .. Len(f) : f[i] = s[1 + i - 1]
      BY ONLY <3>1, SubSeqProperties
    <3> HIDE DEF f
    <3>3. Len(f) = k - 1
      BY <3>2, <2>2
    <3> QED BY <3>2, <3>3, <2>2
  <2>g. /\ g \in Seq(S) /\ Len(g) = Len(s) - k
        /\ \A i \in 1 .. Len(s) - k : g[i] = s[k + i]
    <3>1. (\A i \in k + 1 .. Len(s) : s[i] \in S) /\ k + 1 \in Int /\ Len(s) \in Int
      BY <1>1, <2>2
    <3>2. /\ g \in Seq(S)
          /\ Len(g) = IF k + 1 <= Len(s) THEN Len(s) - (k + 1) + 1 ELSE 0
          /\ \A i \in 1 .. Len(g) : g[i] = s[k + 1 + i - 1]
      BY ONLY <3>1, SubSeqProperties
    <3> HIDE DEF g
    <3>a. Len(s) \in Int /\ k \in Int /\ k <= Len(s)
      BY <1>1, <2>2
    <3>b. Len(g) = IF k + 1 <= Len(s) THEN Len(s) - (k + 1) + 1 ELSE 0
      BY <3>2
    <3>3. Len(g) = Len(s) - k
      BY ONLY <3>a, <3>b
    <3>4. ASSUME NEW i \in 1 .. Len(s) - k
          PROVE  g[i] = s[k + i]
      <4>1. k + 1 + i - 1 = k + i
        BY <1>1, <2>2
      <4> QED BY <3>2, <3>3, <4>1
    <3> QED BY <3>2, <3>3, <3>4
  <2> HIDE DEF f, g
  <2>4. DOMAIN t = 1 .. Len(s) - 1 /\
        \A i \in 1 .. Len(s) - 1 : t[i] = s[IF i < k THEN i ELSE i + 1]
    <3>1. /\ t \in Seq(S)
          /\ Len(t) = Len(f) + Len(g)
          /\ \A i \in 1 .. Len(f) + Len(g) :
               t[i] = IF i <= Len(f) THEN f[i] ELSE g[i - Len(f)]
      BY <2>3, <2>f, <2>g, ConcatProperties DEF f, g
    <3>2. Len(t) = Len(s) - 1
      BY <1>1, <2>2, <2>f, <2>g, <3>1
    <3>3. DOMAIN t = 1 .. Len(s) - 1
      BY <3>1, <3>2, LenProperties
    <3>4. ASSUME NEW i \in 1 .. Len(s) - 1
          PROVE  t[i] = s[IF i < k THEN i ELSE i + 1]
      <4>1. CASE i < k
        <5>1. i \in 1 .. k - 1 /\ i <= Len(f) /\ i \in 1 .. Len(f) + Len(g)
          BY <1>1, <2>2, <2>f, <2>g, <4>1
        <5>2. t[i] = f[i]
          BY <3>1, <5>1
        <5> QED BY <2>f, <4>1, <5>1, <5>2
      <4>2. CASE ~(i < k)
        <5>1. i - (k - 1) \in 1 .. Len(s) - k /\ k + (i - (k - 1)) = i + 1
          BY <1>1, <2>2, <4>2
        <5>2. t[i] = g[i - Len(f)]
          <6>1. ~(i <= Len(f)) /\ i \in 1 .. Len(f) + Len(g)
            BY <1>1, <2>2, <2>f, <2>g, <4>2
          <6> QED BY <3>1, <6>1
        <5> QED BY <2>f, <2>g, <4>2, <5>1, <5>2
      <4> QED BY <4>1, <4>2
    <3> QED BY <3>3, <3>4
  <2>5. IsInjective(t)
    BY <1>1, <2>2, <2>4 DEF IsInjective
  <2>6. \A i \in 1 .. Len(s) - 1 : t[i] \in ToSet(s) /\ t[i] # m
    BY <1>1, <2>2, <2>4 DEF IsInjective, ToSet
  <2>7. ToSet(t) \subseteq ToSet(s) \ {m}
    BY <2>4, <2>6 DEF ToSet
  <2> QED BY <2>5, <2>7 DEF t
<1> QED BY <1>2, <1>3

\* Appending a message that is not in a queue without repetition leaves one.
LEMMA AppendEntries ==
  ASSUME NEW S, NEW s \in Seq(S), NEW m \in S, m \notin ToSet(s), IsInjective(s)
  PROVE  /\ IsInjective(Append(s, m))
         /\ ToSet(Append(s, m)) = ToSet(s) \cup {m}
<1>1. /\ Len(s) \in Nat /\ DOMAIN s = 1 .. Len(s)
      /\ DOMAIN Append(s, m) = 1 .. Len(s) + 1
      /\ \A i \in 1 .. Len(s) : Append(s, m)[i] = s[i]
      /\ Append(s, m)[Len(s) + 1] = m
  BY LenProperties, AppendProperties
<1>2. \A i \in 1 .. Len(s) : s[i] # m
  BY <1>1 DEF ToSet
<1>3. IsInjective(Append(s, m))
  BY <1>1, <1>2 DEF IsInjective
<1>4. \A x : x \in ToSet(Append(s, m)) <=> x \in ToSet(s) \cup {m}
  BY <1>1 DEF ToSet
<1> QED BY <1>3, <1>4

-----------------------------------------------------------------------------
(* Type correctness. *)

\* The variables always hold values of the expected kinds, and every queue holds
\* its own pair's messages, each once, none failed or of an earlier process.
THEOREM TypeCorrect == Spec => []TypeOK
<1>1. Init => TypeOK
  <2> SUFFICES ASSUME Init
               PROVE  TypeOK
    OBVIOUS
  <2>1. \A p, q \in Peer : QueueOK(p, q, chat_outbound[p][q])
    <3>1. IsInjective(<<>>) /\ ToSet(<<>>) = {}
      BY DEF IsInjective, ToSet
    <3> QED BY <3>1 DEF Init, QueueOK
  <2> QED BY <2>1, RouteAssumption, EmptySeq DEF Init, RRInit, TypeOK, Status
<1>2. TypeOK /\ [Next]_vars => TypeOK'
  <2> SUFFICES ASSUME TypeOK, [Next]_vars
               PROVE  TypeOK'
    OBVIOUS
  <2> USE RouteAssumption, SizeAssumption
  <2>a. ASSUME NEW p \in Peer, NEW q \in Peer, NEW m \in ToSet(chat_outbound[p][q])
        PROVE  m \in Msg
    BY LenProperties, ElementOfSeq DEF TypeOK, ToSet
  <2> DEFINE QueuesOK == \A p, q \in Peer : QueueOK(p, q, chat_outbound[p][q])
  <2>b. ASSUME UNCHANGED <<status, chat_outbound>>
        PROVE  QueuesOK'
    BY <2>b DEF TypeOK, QueueOK
  <2>1. ASSUME NEW m \in Msg, SendChat(m)
        PROVE  TypeOK'
    <3>1. chat_outbound' \in [Peer -> [Peer -> Seq(Msg)]]
      BY <2>1 DEF SendChat, TypeOK
    <3>2. status' \in [Msg -> Status] /\ request' \subseteq Msg
      BY <2>1 DEF SendChat, SendRequest, TypeOK, Status
    <3>3. QueuesOK'
      <4> SUFFICES ASSUME NEW p \in Peer, NEW q \in Peer
                   PROVE  QueueOK(p, q, chat_outbound[p][q])'
        OBVIOUS
      <4>1. QueueOK(p, q, chat_outbound[p][q]) /\ chat_outbound[p][q] \in Seq(Msg)
        BY DEF TypeOK
      <4>2. status[m] = "unsent" /\ status' = [status EXCEPT ![m] = "waiting"]
        BY <2>1 DEF SendChat, SendRequest
      <4>3. m \notin ToSet(chat_outbound[p][q])
        BY <4>1, <4>2 DEF QueueOK
      <4>4. chat_outbound'[p][q] = IF p = From[m] /\ q = To[m]
                                   THEN Append(chat_outbound[p][q], m)
                                   ELSE chat_outbound[p][q]
        BY <2>1 DEF SendChat, TypeOK
      <4>a. /\ IsInjective(Append(chat_outbound[p][q], m))
            /\ ToSet(Append(chat_outbound[p][q], m)) = ToSet(chat_outbound[p][q]) \cup {m}
        <5>1. IsInjective(chat_outbound[p][q])
          BY <4>1 DEF QueueOK
        <5> QED BY <4>1, <4>3, <5>1, AppendEntries
      <4>5. IsInjective(chat_outbound'[p][q])
        BY <4>1, <4>4, <4>a DEF QueueOK
      <4>6. \A n \in ToSet(chat_outbound'[p][q]) :
              n \in ToSet(chat_outbound[p][q]) \/ (n = m /\ p = From[m] /\ q = To[m])
        <5>1. CASE p = From[m] /\ q = To[m]
          BY <4>4, <4>a, <5>1
        <5>2. CASE ~(p = From[m] /\ q = To[m])
          BY <4>4, <5>2
        <5> QED BY <5>1, <5>2
      <4>7. ASSUME NEW n \in ToSet(chat_outbound'[p][q])
            PROVE  From[n] = p /\ To[n] = q /\ status'[n] \in {"waiting", "acked", "refused"}
        <5>1. status'[m] = "waiting"
          BY <4>2 DEF TypeOK
        <5>2. CASE n = m
          BY <4>2, <4>3, <4>6, <5>1, <5>2
        <5>3. CASE n # m
          <6>1. n \in ToSet(chat_outbound[p][q])
            BY <4>6, <5>3
          <6>2. status'[n] = status[n]
            BY <2>a, <4>2, <5>3, <6>1 DEF TypeOK
          <6> QED BY <4>1, <6>1, <6>2 DEF QueueOK
        <5> QED BY <5>2, <5>3
      <4> QED BY <4>5, <4>7 DEF QueueOK
    <3> QED BY <2>1, <3>1, <3>2, <3>3 DEF SendChat, SendRequest, TypeOK
  <2>2. ASSUME NEW m \in Msg, OnRequest(m)
        PROVE  TypeOK'
    <3>1. OkAck(m) \in ChatAck
      BY DEF OkAck, ChatAck
    <3>2. response' \subseteq [id : Msg, ack : ChatAck] /\ request' \subseteq Msg
      BY <2>2, <3>1 DEF OnRequest, TakeRequest, TypeOK
    <3>3. QueuesOK'
      BY <2>2, <2>b DEF OnRequest, TakeRequest
    <3> QED BY <2>2, <3>2, <3>3 DEF OnRequest, TakeRequest, TypeOK
  <2>3. ASSUME NEW m \in Msg, OnInvalidRequest(m)
        PROVE  TypeOK'
    <3>1. NokAck \in ChatAck
      BY DEF NokAck, ChatAck
    <3>2. response' \subseteq [id : Msg, ack : ChatAck] /\ request' \subseteq Msg
      BY <2>3, <3>1 DEF OnInvalidRequest, TakeRequest, TypeOK
    <3>3. QueuesOK'
      BY <2>3, <2>b DEF OnInvalidRequest, TakeRequest, chatVars
    <3> QED BY <2>3, <3>2, <3>3 DEF OnInvalidRequest, TakeRequest, chatVars, TypeOK
  <2>4. ASSUME NEW m \in Msg, OnFailure(m)
        PROVE  TypeOK'
    <3>1. chat_outbound' \in [Peer -> [Peer -> Seq(Msg)]]
      BY <2>4, RemoveEntryLength DEF OnFailure, TypeOK
    <3>2. status' \in [Msg -> Status] /\ response' \subseteq [id : Msg, ack : ChatAck]
      BY <2>4 DEF OnFailure, FailRequest, TypeOK, Status
    <3>3. errored' \in [Msg -> Nat] /\ unnamed' \subseteq Msg
      BY <2>4 DEF OnFailure, TypeOK
    <3>4. QueuesOK'
      <4> SUFFICES ASSUME NEW p \in Peer, NEW q \in Peer
                   PROVE  QueueOK(p, q, chat_outbound[p][q])'
        OBVIOUS
      <4>1. QueueOK(p, q, chat_outbound[p][q]) /\ chat_outbound[p][q] \in Seq(Msg)
        BY DEF TypeOK
      <4>2. status' = [status EXCEPT ![m] = "failed"]
        BY <2>4 DEF OnFailure, FailRequest
      <4>3. chat_outbound'[p][q] = IF p = From[m] /\ q = To[m]
                                   THEN RemoveEntry(chat_outbound[p][q], m)
                                   ELSE chat_outbound[p][q]
        BY <2>4 DEF OnFailure, TypeOK
      <4>4. IsInjective(chat_outbound'[p][q])
        BY <4>1, <4>3, RemoveEntryEntries DEF QueueOK
      <4>5. ToSet(chat_outbound'[p][q]) \subseteq ToSet(chat_outbound[p][q]) \ {m}
        <5>1. CASE p = From[m] /\ q = To[m]
          BY <4>1, <4>3, <5>1, RemoveEntryEntries DEF QueueOK
        <5>2. CASE ~(p = From[m] /\ q = To[m])
          BY <4>1, <4>3, <5>2 DEF QueueOK
        <5> QED BY <5>1, <5>2
      <4>6. ASSUME NEW n \in ToSet(chat_outbound'[p][q])
            PROVE  From[n] = p /\ To[n] = q /\ status'[n] \in {"waiting", "acked", "refused"}
        BY <2>a, <4>1, <4>2, <4>5, <4>6 DEF QueueOK, TypeOK
      <4> QED BY <4>4, <4>6 DEF QueueOK
    <3> QED BY <2>4, <3>1, <3>2, <3>3, <3>4 DEF OnFailure, FailRequest, TypeOK
  <2>5. ASSUME NEW r \in response, OnAck(r)
        PROVE  TypeOK'
    <3>1. r.id \in Msg /\ r.ack \in ChatAck
      BY DEF TypeOK
    <3>2. chat_outbound' \in [Peer -> [Peer -> Seq(Msg)]]
      BY <2>5, <3>1, TakeOutboundLength DEF OnAck, TypeOK
    <3>3. status' \in [Msg -> Status] /\ response' \subseteq [id : Msg, ack : ChatAck]
      BY <2>5, <3>1 DEF OnAck, TakeResponse, TypeOK, Status
    <3>4. delivered' \in [Msg -> Nat]
      <4>1. delivered' = delivered \/ \E n : delivered' = [delivered EXCEPT ![n] = @ + 1]
        BY <2>5 DEF OnAck
      <4>2. delivered \in [Msg -> Nat]
        BY DEF TypeOK
      <4> QED BY ONLY <4>1, <4>2
    <3>5. QueuesOK'
      <4> SUFFICES ASSUME NEW p \in Peer, NEW q \in Peer
                   PROVE  QueueOK(p, q, chat_outbound[p][q])'
        OBVIOUS
      <4>1. QueueOK(p, q, chat_outbound[p][q]) /\ chat_outbound[p][q] \in Seq(Msg)
        BY DEF TypeOK
      <4>2. status' = [status EXCEPT ![r.id] = "acked"]
        BY <2>5 DEF OnAck, TakeResponse
      <4>3. chat_outbound'[p][q] = IF p = From[r.id] /\ q = To[r.id]
                                   THEN TakeOutbound(chat_outbound[p][q])
                                   ELSE chat_outbound[p][q]
        BY <2>5, <3>1 DEF OnAck, TypeOK
      <4>4. /\ IsInjective(chat_outbound'[p][q])
            /\ ToSet(chat_outbound'[p][q]) \subseteq ToSet(chat_outbound[p][q])
        BY <4>1, <4>3, TakeOutboundEntries DEF QueueOK
      <4>5. ASSUME NEW n \in ToSet(chat_outbound'[p][q])
            PROVE  From[n] = p /\ To[n] = q /\ status'[n] \in {"waiting", "acked", "refused"}
        BY <2>a, <4>1, <4>2, <4>4, <4>5 DEF QueueOK, TypeOK
      <4> QED BY <4>4, <4>5 DEF QueueOK
    <3> QED BY <2>5, <3>2, <3>3, <3>4, <3>5 DEF OnAck, TakeResponse, TypeOK
  <2>6. ASSUME NEW r \in response, OnNok(r)
        PROVE  TypeOK'
    <3>1. QueuesOK'
      <4> SUFFICES ASSUME NEW p \in Peer, NEW q \in Peer
                   PROVE  QueueOK(p, q, chat_outbound[p][q])'
        OBVIOUS
      <4>1. /\ status' = [status EXCEPT ![r.id] = "refused"]
            /\ chat_outbound' = chat_outbound
        BY <2>6 DEF OnNok, TakeResponse, chatVars
      <4>2. QueueOK(p, q, chat_outbound[p][q])
        BY DEF TypeOK
      <4>3. \A n \in ToSet(chat_outbound[p][q]) :
              status'[n] \in {"waiting", "acked", "refused"}
        BY <2>a, <4>1, <4>2 DEF QueueOK, TypeOK
      <4> QED BY <4>1, <4>2, <4>3 DEF QueueOK
    <3> QED BY <2>6, <3>1 DEF OnNok, TakeResponse, chatVars, TypeOK, Status
  <2>7. ASSUME NEW p \in Peer, Restart(p)
        PROVE  TypeOK'
    <3>1. chat_outbound' \in [Peer -> [Peer -> Seq(Msg)]]
      BY <2>7, EmptySeq DEF Restart, TypeOK
    <3>2. status' \in [Msg -> Status]
      BY <2>7 DEF Restart, DropPeer, TypeOK, Status
    <3>3. QueuesOK'
      <4> SUFFICES ASSUME NEW x \in Peer, NEW y \in Peer
                   PROVE  QueueOK(x, y, chat_outbound[x][y])'
        OBVIOUS
      <4>1. QueueOK(x, y, chat_outbound[x][y])
        BY DEF TypeOK
      <4>2. chat_outbound'[x][y] = IF x = p THEN <<>> ELSE chat_outbound[x][y]
        BY <2>7 DEF Restart, TypeOK
      <4>3. IsInjective(<<>>) /\ ToSet(<<>>) = {}
        BY DEF IsInjective, ToSet
      <4>4. \A n \in ToSet(chat_outbound[x][y]) : x # p => status'[n] = status[n]
        BY <2>7, <2>a, <4>1 DEF Restart, DropPeer, QueueOK
      <4> QED BY <4>1, <4>2, <4>3, <4>4 DEF QueueOK
    <3> QED BY <2>7, <3>1, <3>2, <3>3 DEF Restart, DropPeer, TypeOK
  <2>8. CASE UNCHANGED vars
    <3>1. QueuesOK'
      BY <2>8, <2>b DEF vars, rrVars, chatVars
    <3> QED BY <2>8, <3>1 DEF vars, rrVars, chatVars, TypeOK, ChatAck
  <2> QED BY <2>1, <2>2, <2>3, <2>4, <2>5, <2>6, <2>7, <2>8 DEF Next
<1> QED BY <1>1, <1>2, PTL DEF Spec

-----------------------------------------------------------------------------
(* The queue covers the outstanding requests. *)

\* No overtaking, failure, refusal or restart leaves a peer's queue with fewer
\* entries than the peer has requests outstanding, so that take_chat_outbound
\* always finds an entry for an acknowledgement.
THEOREM QueueCovers == Spec => []QueueCoversWaiting
<1>1. Init => QueueCoversWaiting
  <2> SUFFICES ASSUME Init, NEW p \in Peer, NEW q \in Peer
               PROVE  Cardinality(Waiting(p, q)) <= Len(chat_outbound[p][q])
    BY DEF QueueCoversWaiting
  <2>1. Waiting(p, q) = {}
    BY DEF Init, RRInit, Waiting
  <2>2. chat_outbound[p][q] = <<>>
    BY DEF Init
  <2> QED BY <2>1, <2>2, FS_EmptySet, EmptySeq
<1>2. TypeOK /\ TypeOK' /\ QueueCoversWaiting /\ [Next]_vars => QueueCoversWaiting'
  <2> SUFFICES ASSUME TypeOK, TypeOK', QueueCoversWaiting, [Next]_vars,
                      NEW p \in Peer, NEW q \in Peer
               PROVE  Cardinality(Waiting(p, q)') <= Len(chat_outbound'[p][q])
    BY DEF QueueCoversWaiting
  <2> DEFINE w == Cardinality(Waiting(p, q))
             l == Len(chat_outbound[p][q])
  <2>0. /\ w \in Nat /\ l \in Nat /\ w <= l
        /\ chat_outbound[p][q] \in Seq(Msg)
        /\ Len(chat_outbound'[p][q]) \in Nat
        /\ status \in [Msg -> Status]
    BY WaitingFinite, LenProperties DEF QueueCoversWaiting, TypeOK
  <2> USE RouteAssumption
  <2>1. ASSUME NEW m \in Msg, SendChat(m)
        PROVE  Cardinality(Waiting(p, q)') <= Len(chat_outbound'[p][q])
    <3>1. Cardinality(Waiting(p, q)') = IF p = From[m] /\ q = To[m] THEN w + 1 ELSE w
      <4>1. SendRequest(m)
        BY <2>1 DEF SendChat
      <4>2. IF p = From[m] /\ q = To[m]
              THEN Waiting(p, q)' = Waiting(p, q) \cup {m} /\ m \notin Waiting(p, q)
              ELSE Waiting(p, q)' = Waiting(p, q)
        BY <2>0, <4>1, SendWaiting
      <4>3. /\ IsFiniteSet(Waiting(p, q))
            /\ m \notin Waiting(p, q) =>
                 Cardinality(Waiting(p, q) \cup {m}) = w + 1
        BY WaitingFinite, FS_AddElement
      <4> QED BY <4>2, <4>3
    <3>2. chat_outbound'[p][q] = IF p = From[m] /\ q = To[m]
                                 THEN Append(chat_outbound[p][q], m)
                                 ELSE chat_outbound[p][q]
      BY <2>1 DEF SendChat, TypeOK
    <3>3. Len(Append(chat_outbound[p][q], m)) = l + 1
      BY <2>0
    <3> HIDE DEF w, l
    <3> QED BY <2>0, <3>1, <3>2, <3>3 DEF l
  <2>2. ASSUME NEW m \in Msg, NEW s, Settle(m, s),
               Len(chat_outbound'[p][q]) >= IF p = From[m] /\ q = To[m] THEN l - 1 ELSE l
        PROVE  Cardinality(Waiting(p, q)') <= Len(chat_outbound'[p][q])
    <3>1. Cardinality(Waiting(p, q)') = IF p = From[m] /\ q = To[m] THEN w - 1 ELSE w
      <4>1. IF p = From[m] /\ q = To[m]
              THEN Waiting(p, q)' = Waiting(p, q) \ {m} /\ m \in Waiting(p, q)
              ELSE Waiting(p, q)' = Waiting(p, q)
        BY <2>0, <2>2, OutcomeWaiting
      <4>2. m \in Waiting(p, q) => Cardinality(Waiting(p, q) \ {m}) = w - 1
        BY WaitingFinite, FS_RemoveElement
      <4> QED BY <4>1, <4>2
    <3> HIDE DEF w, l
    <3> QED BY <2>0, <2>2, <3>1
  <2>3. ASSUME UNCHANGED <<status, chat_outbound>>
        PROVE  Cardinality(Waiting(p, q)') <= Len(chat_outbound'[p][q])
    BY <2>0, <2>3 DEF Waiting
  <2>4. ASSUME NEW m \in Msg, OnFailure(m)
        PROVE  Cardinality(Waiting(p, q)') <= Len(chat_outbound'[p][q])
    <3>1. chat_outbound'[p][q] = IF p = From[m] /\ q = To[m]
                                 THEN RemoveEntry(chat_outbound[p][q], m)
                                 ELSE chat_outbound[p][q]
      BY <2>4 DEF OnFailure, TypeOK
    <3>2. Len(RemoveEntry(chat_outbound[p][q], m)) >= l - 1
      BY <2>0, RemoveEntryLength
    <3>3. Len(chat_outbound'[p][q]) >= IF p = From[m] /\ q = To[m] THEN l - 1 ELSE l
      <4>1. CASE p = From[m] /\ q = To[m]
        BY <3>1, <3>2, <4>1
      <4>2. CASE ~(p = From[m] /\ q = To[m])
        BY <2>0, <3>1, <4>2
      <4> QED BY <4>1, <4>2
    <3>4. Settle(m, "failed")
      BY <2>4 DEF OnFailure, FailRequest, Settle
    <3> QED BY <2>2, <3>3, <3>4
  <2>5. ASSUME NEW r \in response, OnAck(r)
        PROVE  Cardinality(Waiting(p, q)') <= Len(chat_outbound'[p][q])
    <3>0. r.id \in Msg
      BY DEF TypeOK
    <3>1. chat_outbound'[p][q] = IF p = From[r.id] /\ q = To[r.id]
                                 THEN TakeOutbound(chat_outbound[p][q])
                                 ELSE chat_outbound[p][q]
      BY <2>5, <3>0 DEF OnAck, TypeOK
    <3>2. Len(TakeOutbound(chat_outbound[p][q])) >= l - 1
      BY <2>0, TakeOutboundLength
    <3>3. Len(chat_outbound'[p][q]) >= IF p = From[r.id] /\ q = To[r.id] THEN l - 1 ELSE l
      <4>1. CASE p = From[r.id] /\ q = To[r.id]
        BY <3>1, <3>2, <4>1
      <4>2. CASE ~(p = From[r.id] /\ q = To[r.id])
        BY <2>0, <3>1, <4>2
      <4> QED BY <4>1, <4>2
    <3>4. Settle(r.id, "acked")
      BY <2>5 DEF OnAck, TakeResponse, Settle
    <3> QED BY <2>2, <3>0, <3>3, <3>4
  <2>6. ASSUME NEW r \in response, OnNok(r)
        PROVE  Cardinality(Waiting(p, q)') <= Len(chat_outbound'[p][q])
    <3>0. r.id \in Msg
      BY DEF TypeOK
    <3>1. Len(chat_outbound'[p][q]) >= IF p = From[r.id] /\ q = To[r.id] THEN l - 1 ELSE l
      BY <2>0, <2>6 DEF OnNok, chatVars
    <3>2. Settle(r.id, "refused")
      BY <2>6 DEF OnNok, TakeResponse, Settle
    <3> QED BY <2>2, <3>0, <3>1, <3>2
  <2>7. ASSUME NEW d \in Peer, Restart(d)
        PROVE  Cardinality(Waiting(p, q)') <= Len(chat_outbound'[p][q])
    <3>1. Waiting(p, q)' = IF p = d THEN {} ELSE Waiting(p, q)
      BY <2>0, <2>7, DropWaiting DEF Restart
    <3>2. chat_outbound'[p][q] = IF p = d THEN <<>> ELSE chat_outbound[p][q]
      BY <2>7 DEF Restart, TypeOK
    <3> QED BY <2>0, <3>1, <3>2, FS_EmptySet, EmptySeq
  <2>8. ASSUME NEW m \in Msg, OnRequest(m) \/ OnInvalidRequest(m)
        PROVE  UNCHANGED <<status, chat_outbound>>
    BY <2>8 DEF OnRequest, OnInvalidRequest, TakeRequest, chatVars
  <2>9. CASE UNCHANGED vars
    BY <2>3, <2>9 DEF vars, rrVars, chatVars
  <2> QED BY <2>1, <2>3, <2>4, <2>5, <2>6, <2>7, <2>8, <2>9 DEF Next
<1> QED BY <1>1, <1>2, TypeCorrect, PTL DEF Spec

-----------------------------------------------------------------------------
(* The reports are right. *)

\* An acknowledgement finds an entry in the queue.
LEMMA QueueNotEmpty ==
  ASSUME TypeOK, QueueCoversWaiting, NEW m \in Msg, status[m] = "waiting"
  PROVE  chat_outbound[From[m]][To[m]] # <<>>
<1>1. /\ From[m] \in Peer /\ To[m] \in Peer
      /\ m \in Waiting(From[m], To[m])
  BY RouteAssumption DEF Waiting
<1>2. Cardinality(Waiting(From[m], To[m])) # 0
  BY <1>1, WaitingFinite, FS_EmptySet
<1>3. Cardinality(Waiting(From[m], To[m])) <= Len(chat_outbound[From[m]][To[m]])
  BY <1>1 DEF QueueCoversWaiting
<1> QED BY <1>2, <1>3, WaitingFinite, EmptySeq

\* What the code does of errors in full: one for each failed request, and none of
\* any other message, also when it was refused.
ErrorsExact ==
  \A m \in Msg :
    IF status[m] = "failed"
      THEN errored[m] = (IF m \in unnamed THEN 0 ELSE 1)
      ELSE errored[m] = 0 /\ m \notin unnamed

\* The wire, delivery reports and failure reports, together inductive once the
\* queue is known to cover the outstanding requests.
Reports == WireInv /\ DeliveryReports /\ ErrorsExact

\* The wire and the reports stay right through every step.
LEMMA ReportsInvariant == Spec => []Reports
<1>1. Init => Reports
  BY DEF Init, RRInit, Reports, WireInv, DeliveryReports, ErrorsExact
<1>2. TypeOK /\ QueueCoversWaiting /\ Reports /\ [Next]_vars => Reports'
  <2> SUFFICES ASSUME TypeOK, QueueCoversWaiting, Reports, [Next]_vars
               PROVE  Reports'
    OBVIOUS
  <2> USE DEF Reports
  <2>1. ASSUME NEW m \in Msg, SendChat(m)
        PROVE  Reports'
    <3>1. WireInv'
      BY <2>1 DEF SendChat, SendRequest, TypeOK, WireInv
    <3>2. DeliveryReports' /\ ErrorsExact'
      BY <2>1 DEF SendChat, SendRequest, TypeOK, DeliveryReports, ErrorsExact
    <3> QED BY <3>1, <3>2
  <2>2. ASSUME NEW m \in Msg, OnRequest(m)
        PROVE  Reports'
    <3>1. WireInv'
      BY <2>2 DEF OnRequest, TakeRequest, OkAck, TypeOK, WireInv
    <3>2. DeliveryReports' /\ ErrorsExact'
      BY <2>2 DEF OnRequest, TakeRequest, DeliveryReports, ErrorsExact
    <3> QED BY <3>1, <3>2
  <2>3. ASSUME NEW m \in Msg, OnInvalidRequest(m)
        PROVE  Reports'
    <3>1. WireInv'
      <4>1. /\ m \in request /\ request' = request \ {m}
            /\ UNCHANGED <<status, received>>
        BY <2>3 DEF OnInvalidRequest, TakeRequest, chatVars
      <4>2. \A r \in response' : r \in response \/ (r.id = m /\ ~r.ack.ok)
        <5>1. response' = response \cup {[id |-> m, ack |-> NokAck]}
          BY <2>3 DEF OnInvalidRequest, TakeRequest
        <5>2. ~NokAck.ok
          BY DEF NokAck
        <5> QED BY <5>1, <5>2
      <4> QED BY <4>1, <4>2 DEF WireInv
    <3>2. DeliveryReports' /\ ErrorsExact'
      BY <2>3 DEF OnInvalidRequest, TakeRequest, chatVars, DeliveryReports, ErrorsExact
    <3> QED BY <3>1, <3>2
  <2>4. ASSUME NEW m \in Msg, OnFailure(m)
        PROVE  Reports'
    <3>1. WireInv'
      BY <2>4 DEF OnFailure, FailRequest, TypeOK, WireInv
    <3>2. DeliveryReports'
      BY <2>4 DEF OnFailure, FailRequest, TypeOK, DeliveryReports
    <3>3. ErrorsExact'
      BY <2>4 DEF OnFailure, FailRequest, TypeOK, ErrorsExact
    <3> QED BY <3>1, <3>2, <3>3
  <2>5. ASSUME NEW r \in response, OnAck(r)
        PROVE  Reports'
    <3>1. r.id \in Msg /\ r.ack.message_id = r.id /\ r.id \in received
      BY <2>5 DEF OnAck, TypeOK, WireInv
    <3>2. status[r.id] = "waiting" /\ status' = [status EXCEPT ![r.id] = "acked"]
      BY <2>5 DEF OnAck, TakeResponse
    <3>3. chat_outbound[From[r.id]][To[r.id]] # <<>>
      BY <3>1, <3>2, QueueNotEmpty
    <3>4. delivered' = [delivered EXCEPT ![r.id] = @ + 1]
      BY <2>5, <3>1, <3>3, SizeAssumption DEF OnAck
    <3>5. WireInv'
      BY <2>5, <3>1 DEF OnAck, TakeResponse, TypeOK, WireInv
    <3>6. DeliveryReports'
      <4>1. received' = received
        BY <2>5 DEF OnAck
      <4>2. status \in [Msg -> Status] /\ delivered \in [Msg -> Nat]
        BY DEF TypeOK
      <4>3. \A m \in Msg : delivered'[m] = IF m = r.id THEN delivered[m] + 1
                                                       ELSE delivered[m]
        BY <3>4, <4>2
      <4>4. \A m \in Msg : status'[m] = IF m = r.id THEN "acked" ELSE status[m]
        BY <3>2, <4>2
      <4> QED BY <3>1, <3>2, <4>1, <4>3, <4>4 DEF DeliveryReports
    <3>7. ErrorsExact'
      BY <2>5, <3>1, <3>2 DEF OnAck, TypeOK, ErrorsExact
    <3> QED BY <3>5, <3>6, <3>7
  <2>6. ASSUME NEW r \in response, OnNok(r)
        PROVE  Reports'
    <3>1. r.id \in Msg
      BY DEF TypeOK
    <3>2. WireInv'
      BY <2>6, <3>1 DEF OnNok, TakeResponse, chatVars, TypeOK, WireInv
    <3>3. DeliveryReports' /\ ErrorsExact'
      BY <2>6, <3>1 DEF OnNok, TakeResponse, chatVars, TypeOK,
                        DeliveryReports, ErrorsExact
    <3> QED BY <3>2, <3>3
  <2>7. ASSUME NEW p \in Peer, Restart(p)
        PROVE  Reports'
    <3>1. WireInv'
      BY <2>7 DEF Restart, DropPeer, TypeOK, WireInv
    <3>2. DeliveryReports' /\ ErrorsExact'
      BY <2>7 DEF Restart, DropPeer, TypeOK, DeliveryReports, ErrorsExact
    <3> QED BY <3>1, <3>2
  <2>8. CASE UNCHANGED vars
    BY <2>8 DEF vars, rrVars, chatVars, WireInv, DeliveryReports, ErrorsExact
  <2> QED BY <2>1, <2>2, <2>3, <2>4, <2>5, <2>6, <2>7, <2>8 DEF Next
<1> QED BY <1>1, <1>2, TypeCorrect, QueueCovers, PTL DEF Spec

\* A message is reported delivered exactly when its acknowledgement came, and
\* only if the destination's application was given it, whatever the order of
\* events (translate_chat_event).
THEOREM DeliveriesReported == Spec => []DeliveryReports
<1>1. Reports => DeliveryReports
  BY DEF Reports
<1> QED BY <1>1, ReportsInvariant, PTL

\* A failure is reported exactly once, and no message is reported as an error that
\* neither failed nor was refused (translate_chat_event, OutboundFailure).
THEOREM FailuresReported == Spec => []FailureReports
<1>1. Reports => FailureReports
  BY DEF Reports, ErrorsExact, FailureReports, Errors
<1> QED BY <1>1, ReportsInvariant, PTL

-----------------------------------------------------------------------------
(* The chat path implements ChatService. *)

\* With the reports right, a message's verdict follows its request's outcome.
VerdictOf(s) ==
  IF s = "waiting" THEN "pending"
  ELSE IF s = "acked" THEN "delivered"
  ELSE IF s \in {"refused", "abandoned"} THEN "unknown"
  ELSE s

\* What an application can tell of a message is what became of its request.
LEMMA VerdictFollowsStatus ==
  TypeOK /\ Reports => \A m \in Msg : Verdict(m) = VerdictOf(status[m])
<1> SUFFICES ASSUME TypeOK, Reports, NEW m \in Msg
             PROVE  Verdict(m) = VerdictOf(status[m])
  OBVIOUS
<1>1. status[m] \in Status /\ delivered[m] \in Nat /\ errored[m] \in Nat
  BY DEF TypeOK
<1>2. delivered[m] = IF status[m] = "acked" THEN 1 ELSE 0
  BY DEF Reports, DeliveryReports
<1>3. IF status[m] = "failed" THEN errored[m] > 0 \/ m \in unnamed
                              ELSE ~(errored[m] > 0) /\ m \notin unnamed
  BY DEF Reports, ErrorsExact
<1> QED BY <1>1, <1>2, <1>3 DEF Verdict, VerdictOf, Status

\* Every behaviour of the chat path is one of the service: what an application
\* sees of a message is an arrival at most once, one verdict at most, and
\* "delivered" only after the arrival.
THEOREM ChatImplementsService == Spec => ServiceSpec
<1> DEFINE verdict == [m \in Msg |-> Verdict(m)]
<1>1. Init => Service!Init
  <2> SUFFICES ASSUME Init
               PROVE  Service!Init
    OBVIOUS
  <2>1. \A m \in Msg : Verdict(m) = "unsent"
    BY DEF Init, RRInit, Verdict
  <2> QED BY <2>1 DEF Init, Service!Init
<1>2. /\ TypeOK /\ TypeOK' /\ QueueCoversWaiting /\ Reports /\ Reports'
      /\ [Next]_vars
      => [Service!Next]_(Service!serviceVars)
  <2> SUFFICES ASSUME TypeOK, TypeOK', QueueCoversWaiting, Reports, Reports',
                      [Next]_vars
               PROVE  Service!Next \/ (verdict' = verdict /\ received' = received)
    BY DEF Service!serviceVars
  <2>a. verdict = [m \in Msg |-> VerdictOf(status[m])]
    BY VerdictFollowsStatus
  <2>b. verdict' = [m \in Msg |-> VerdictOf(status'[m])]
    <3>1. (\A m \in Msg : Verdict(m) = VerdictOf(status[m]))'
      BY VerdictFollowsStatus, PTL
    <3> QED BY <3>1
  <2>c. status \in [Msg -> Status]
    BY DEF TypeOK
  <2>1. ASSUME NEW m \in Msg, SendChat(m)
        PROVE  Service!Submit(m)
    <3>1. /\ status[m] = "unsent"
          /\ status' = [status EXCEPT ![m] = "waiting"]
          /\ received' = received
      BY <2>1 DEF SendChat, SendRequest
    <3>2. verdict[m] = "unsent"
      BY <2>a, <3>1 DEF VerdictOf
    <3>3. verdict' = [verdict EXCEPT ![m] = "pending"]
      BY <2>a, <2>b, <2>c, <3>1 DEF VerdictOf
    <3> QED BY <3>1, <3>2, <3>3 DEF Service!Submit
  <2>2. ASSUME NEW m \in Msg, OnRequest(m)
        PROVE  Service!Arrive(m)
    <3>1. /\ status[m] \in {"waiting", "failed"} /\ m \notin received
          /\ status' = status /\ received' = received \cup {m}
      BY <2>2 DEF OnRequest, TakeRequest, Reports, WireInv
    <3>2. verdict[m] \in {"pending", "failed"}
      BY <2>a, <3>1 DEF VerdictOf
    <3>3. verdict' = verdict
      BY <2>a, <2>b, <3>1
    <3> QED BY <3>1, <3>2, <3>3 DEF Service!Arrive
  <2>3. ASSUME NEW m \in Msg, OnFailure(m)
        PROVE  Service!Fail(m)
    <3>1. /\ status[m] = "waiting"
          /\ status' = [status EXCEPT ![m] = "failed"]
          /\ received' = received
      BY <2>3 DEF OnFailure, FailRequest
    <3>2. verdict[m] = "pending"
      BY <2>a, <3>1 DEF VerdictOf
    <3>3. verdict' = [verdict EXCEPT ![m] = "failed"]
      BY <2>a, <2>b, <2>c, <3>1 DEF VerdictOf
    <3> QED BY <3>1, <3>2, <3>3 DEF Service!Fail
  <2>4. ASSUME NEW r \in response, OnAck(r)
        PROVE  r.id \in Msg /\ Service!Confirm(r.id)
    <3>1. /\ r.id \in Msg /\ r.id \in received
          /\ status[r.id] = "waiting"
          /\ status' = [status EXCEPT ![r.id] = "acked"]
          /\ received' = received
      BY <2>4 DEF OnAck, TakeResponse, TypeOK, Reports, WireInv
    <3>2. verdict[r.id] = "pending"
      BY <2>a, <3>1 DEF VerdictOf
    <3>3. verdict' = [verdict EXCEPT ![r.id] = "delivered"]
      BY <2>a, <2>b, <2>c, <3>1 DEF VerdictOf
    <3> QED BY <3>1, <3>2, <3>3 DEF Service!Confirm
  <2>5. ASSUME NEW S \in SUBSET Msg, \A m \in S : status[m] = "waiting",
               NEW s \in {"refused", "abandoned"},
               status' = [m \in Msg |-> IF m \in S THEN s ELSE status[m]],
               received' = received
        PROVE  Service!Forget(S)
    <3>1. \A m \in S : verdict[m] = "pending"
      BY <2>a, <2>5 DEF VerdictOf
    <3>2. verdict' = [m \in Msg |-> IF m \in S THEN "unknown" ELSE verdict[m]]
      BY <2>a, <2>b, <2>5 DEF VerdictOf
    <3> QED BY <2>5, <3>1, <3>2 DEF Service!Forget
  <2>6. ASSUME NEW r \in response, OnNok(r)
        PROVE  \E S \in SUBSET Msg : Service!Forget(S)
    <3>1. /\ {r.id} \in SUBSET Msg
          /\ \A m \in {r.id} : status[m] = "waiting"
          /\ status' = [m \in Msg |-> IF m \in {r.id} THEN "refused" ELSE status[m]]
          /\ received' = received
      BY <2>6, <2>c DEF OnNok, TakeResponse, chatVars, TypeOK
    <3> QED BY <2>5, <3>1
  <2>7. ASSUME NEW p \in Peer, Restart(p)
        PROVE  \E S \in SUBSET Msg : Service!Forget(S)
    <3> DEFINE S == {m \in Msg : status[m] = "waiting" /\ From[m] = p}
    <3>1. /\ S \in SUBSET Msg
          /\ \A m \in S : status[m] = "waiting"
          /\ status' = [m \in Msg |-> IF m \in S THEN "abandoned" ELSE status[m]]
          /\ received' = received
      BY <2>7 DEF Restart, DropPeer
    <3> QED BY <2>5, <3>1
  <2>8. ASSUME \/ \E m \in Msg : OnInvalidRequest(m)
               \/ UNCHANGED vars
        PROVE  verdict' = verdict /\ received' = received
    <3>1. status' = status /\ received' = received
      BY <2>8 DEF OnInvalidRequest, TakeRequest, chatVars, rrVars, vars
    <3> QED BY <2>a, <2>b, <3>1
  <2> HIDE DEF verdict
  <2> QED BY <2>1, <2>2, <2>3, <2>4, <2>6, <2>7, <2>8 DEF Next, Service!Next
<1> QED BY <1>1, <1>2, TypeCorrect, QueueCovers, ReportsInvariant, PTL
       DEF Spec, ServiceSpec, Service!Spec

=============================================================================
