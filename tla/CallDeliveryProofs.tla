------------------------- MODULE CallDeliveryProofs -------------------------
(***************************************************************************)
(* Proofs about CallDelivery, for any finite set of messages, any peers,   *)
(* any releases and any number of restarts.                                *)
(***************************************************************************)
EXTENDS CallDelivery, RequestResponseProofs

-----------------------------------------------------------------------------
(* Type correctness. *)

\* What an acknowledgement takes is one of the entries for the peer, or none.
LEMMA TakeableEntry ==
  ASSUME NEW p, NEW q, NEW taken \in Takeable(p, q)
  PROVE  /\ taken \subseteq Entries(p, q)
         /\ Entries(p, q) # {} => \E m \in Entries(p, q) : taken = {m}
         /\ Entries(p, q) = {} => taken = {}
BY DEF Takeable

\* One step keeps the type invariant.
TypeStep == TypeOK /\ [Next]_vars => TypeOK'

\* Every action of the signaling path leaves the variables well-typed.
LEMMA TypeInductive == TypeStep
<1> SUFFICES ASSUME TypeOK, [Next]_vars
             PROVE  TypeOK'
  BY DEF TypeStep
<1> USE RouteAssumption, CallAssumption
<1>1. ASSUME NEW m \in Msg, SendCall(m)
      PROVE  TypeOK'
  <2>1. status' \in [Msg -> Status] /\ request' \subseteq Msg
    BY <1>1 DEF SendCall, SendRequest, TypeOK, Status
  <2>2. call_outbound' \in [Peer -> SUBSET Msg]
    BY <1>1 DEF SendCall, TypeOK
  <2>3. \A p \in Peer, n \in Msg :
          n \in call_outbound'[p] =>
            From[n] = p /\ status'[n] \in {"waiting", "acked", "refused"}
    BY <1>1 DEF SendCall, SendRequest, TypeOK
  <2> QED BY <1>1, <2>1, <2>2, <2>3 DEF SendCall, SendRequest, TypeOK
<1>2. ASSUME NEW m \in Msg, OnRequest(m) \/ OnInvalidRequest(m)
      PROVE  TypeOK'
  <2>1. /\ m \in Msg
        /\ response' \subseteq response \cup {[id |-> m, ack |-> [ok |-> b]] : b \in BOOLEAN}
    BY <1>2 DEF OnRequest, OnInvalidRequest, TakeRequest
  <2>2. response' \subseteq [id : Msg, ack : [ok : BOOLEAN]]
    BY <2>1 DEF TypeOK
  <2>3. UNCHANGED <<status, call_outbound, restarts, reported, errors>>
    BY <1>2 DEF OnRequest, OnInvalidRequest, TakeRequest, callVars
  <2>4. request' \subseteq Msg /\ received' \subseteq Msg
    BY <1>2 DEF OnRequest, OnInvalidRequest, TakeRequest, callVars, TypeOK
  <2> QED BY <2>2, <2>3, <2>4 DEF TypeOK
<1>3. ASSUME NEW m \in Msg, OnFailure(m)
      PROVE  TypeOK'
  BY <1>3 DEF OnFailure, FailRequest, TypeOK, Status
<1>4. ASSUME NEW r \in response, OnAck(r)
      PROVE  TypeOK'
  <2>1. r.id \in Msg
    BY DEF TypeOK
  <2>2. PICK taken : /\ call_outbound' = [call_outbound EXCEPT ![From[r.id]] = @ \ taken]
                     /\ reported' = [m \in Msg |-> IF m \in taken THEN reported[m] + 1
                                                                  ELSE reported[m]]
    BY <1>4 DEF OnAck
  <2>3. reported' \in [Msg -> Nat]
    BY <2>2 DEF TypeOK
  <2>4. status' = [status EXCEPT ![r.id] = "acked"]
    BY <1>4 DEF OnAck, TakeResponse
  <2>5. /\ call_outbound' \in [Peer -> SUBSET Msg]
        /\ \A p \in Peer : call_outbound'[p] \subseteq call_outbound[p]
    BY <2>1, <2>2 DEF TypeOK
  <2>6. \A p \in Peer, n \in Msg :
          n \in call_outbound'[p] =>
            From[n] = p /\ status'[n] \in {"waiting", "acked", "refused"}
    BY <2>1, <2>4, <2>5 DEF TypeOK
  <2>7. status' \in [Msg -> Status]
    BY <2>1, <2>4 DEF TypeOK, Status
  <2> QED BY <1>4, <2>3, <2>5, <2>6, <2>7 DEF OnAck, TakeResponse, TypeOK
<1>5. ASSUME NEW r \in response, OnNok(r)
      PROVE  TypeOK'
  <2>1. r.id \in Msg
    BY DEF TypeOK
  <2> QED BY <1>5, <2>1 DEF OnNok, TakeResponse, TypeOK, Status
<1>6. ASSUME NEW p \in Peer, Restart(p)
      PROVE  TypeOK'
  BY <1>6 DEF Restart, DropPeer, TypeOK, Status
<1>7. CASE UNCHANGED vars
  BY <1>7 DEF vars, rrVars, callVars, TypeOK
<1> QED BY <1>1, <1>2, <1>3, <1>4, <1>5, <1>6, <1>7 DEF Next

\* The variables always hold values of the expected kinds, and a map never holds
\* a message of another peer, or one that failed or is of an earlier process.
THEOREM TypeCorrect == Spec => []TypeOK
<1>1. Init => TypeOK
  BY RouteAssumption DEF Init, RRInit, TypeOK, Status
<1> QED BY <1>1, TypeInductive, PTL DEF Spec, TypeStep

-----------------------------------------------------------------------------
(* The map covers the outstanding requests. *)

\* A peer has finitely many entries for another.
LEMMA EntriesFinite ==
  ASSUME TypeOK, NEW p \in Peer, NEW q
  PROVE  IsFiniteSet(Entries(p, q)) /\ Cardinality(Entries(p, q)) \in Nat
<1>1. Entries(p, q) \in SUBSET Msg
  BY DEF Entries, TypeOK
<1> QED BY <1>1, MsgFinite, FS_Subset, FS_CardinalityType

\* Whatever entries acknowledgements take, a peer's map never holds fewer
\* entries for another peer than it has requests to it outstanding, so that
\* every acknowledgement is reported.
THEOREM EntriesCover == Spec => []EntriesCoverWaiting
<1>1. Init => EntriesCoverWaiting
  BY FS_EmptySet DEF Init, RRInit, EntriesCoverWaiting, Waiting, Entries
<1>2. TypeOK /\ TypeOK' /\ EntriesCoverWaiting /\ [Next]_vars => EntriesCoverWaiting'
  <2> SUFFICES ASSUME TypeOK, TypeOK', EntriesCoverWaiting, [Next]_vars,
                      NEW p \in Peer, NEW q \in Peer
               PROVE  Cardinality(Waiting(p, q)') <= Cardinality(Entries(p, q)')
    BY DEF EntriesCoverWaiting
  <2> DEFINE w == Cardinality(Waiting(p, q))
             e == Cardinality(Entries(p, q))
  <2>0. /\ w \in Nat /\ e \in Nat /\ w <= e
        /\ IsFiniteSet(Entries(p, q)) /\ IsFiniteSet(Waiting(p, q))
        /\ status \in [Msg -> Status] /\ call_outbound \in [Peer -> SUBSET Msg]
    BY WaitingFinite, EntriesFinite DEF EntriesCoverWaiting, TypeOK
  <2> USE RouteAssumption
  <2>1. ASSUME NEW m \in Msg, SendCall(m)
        PROVE  Cardinality(Waiting(p, q)') <= Cardinality(Entries(p, q)')
    <3>1. SendRequest(m)
      BY <2>1 DEF SendCall
    <3>2. m \notin call_outbound[From[m]]
      BY <3>1 DEF SendRequest, TypeOK
    <3>3. CASE p = From[m] /\ q = To[m]
      <4>1. Waiting(p, q)' = Waiting(p, q) \cup {m} /\ m \notin Waiting(p, q)
        BY <2>0, <3>1, <3>3, SendWaiting
      <4>2. Entries(p, q)' = Entries(p, q) \cup {m} /\ m \notin Entries(p, q)
        BY <2>0, <2>1, <3>2, <3>3 DEF SendCall, Entries
      <4>3. Cardinality(Waiting(p, q)') = w + 1
        BY <2>0, <4>1, FS_AddElement
      <4>4. Cardinality(Entries(p, q)') = e + 1
        BY <2>0, <4>2, FS_AddElement
      <4> QED BY <2>0, <4>3, <4>4
    <3>4. CASE ~(p = From[m] /\ q = To[m])
      <4>1. Waiting(p, q)' = Waiting(p, q)
        BY <2>0, <3>1, <3>4, SendWaiting
      <4>2. Entries(p, q)' = Entries(p, q)
        BY <2>0, <2>1, <3>4 DEF SendCall, Entries
      <4> QED BY <2>0, <4>1, <4>2
    <3> QED BY <3>3, <3>4
  <2>2. ASSUME NEW m \in Msg, NEW s, Settle(m, s), NEW gone,
               IF p = From[m] /\ q = To[m]
                 THEN Entries(p, q)' = Entries(p, q) \ {gone}
                 ELSE Entries(p, q)' = Entries(p, q)
        PROVE  Cardinality(Waiting(p, q)') <= Cardinality(Entries(p, q)')
    <3>1. CASE p = From[m] /\ q = To[m]
      <4>1. Waiting(p, q)' = Waiting(p, q) \ {m} /\ m \in Waiting(p, q)
        BY <2>0, <2>2, <3>1, OutcomeWaiting
      <4>2. Cardinality(Waiting(p, q)') = w - 1
        BY <2>0, <4>1, FS_RemoveElement
      <4>3. \/ Cardinality(Entries(p, q)') = e - 1
            \/ Cardinality(Entries(p, q)') = e
        <5>1. Cardinality(Entries(p, q) \ {gone}) = IF gone \in Entries(p, q) THEN e - 1 ELSE e
          BY <2>0, FS_RemoveElement
        <5> QED BY <2>2, <3>1, <5>1
      <4> QED BY <2>0, <4>2, <4>3
    <3>2. CASE ~(p = From[m] /\ q = To[m])
      <4>1. Waiting(p, q)' = Waiting(p, q)
        BY <2>0, <2>2, <3>2, OutcomeWaiting
      <4> QED BY <2>0, <2>2, <3>2, <4>1
    <3> QED BY <3>1, <3>2
  <2>3. ASSUME UNCHANGED <<status, call_outbound>>
        PROVE  Cardinality(Waiting(p, q)') <= Cardinality(Entries(p, q)')
    BY <2>0, <2>3 DEF Waiting, Entries
  <2>4. ASSUME NEW m \in Msg, OnFailure(m)
        PROVE  Cardinality(Waiting(p, q)') <= Cardinality(Entries(p, q)')
    <3>1. Settle(m, "failed")
      BY <2>4 DEF OnFailure, FailRequest, Settle
    <3>2. IF p = From[m] /\ q = To[m] THEN Entries(p, q)' = Entries(p, q) \ {m}
                                      ELSE Entries(p, q)' = Entries(p, q)
      BY <2>0, <2>4 DEF OnFailure, Entries
    <3> QED BY <2>2, <3>1, <3>2
  <2>5. ASSUME NEW r \in response, OnAck(r)
        PROVE  Cardinality(Waiting(p, q)') <= Cardinality(Entries(p, q)')
    <3>1. r.id \in Msg
      BY DEF TypeOK
    <3>2. Settle(r.id, "acked")
      BY <2>5 DEF OnAck, TakeResponse, Settle
    <3>3. PICK taken \in Takeable(From[r.id], To[r.id]) :
            call_outbound' = [call_outbound EXCEPT ![From[r.id]] = @ \ taken]
      BY <2>5 DEF OnAck
    <3>4. /\ taken \subseteq Entries(From[r.id], To[r.id])
          /\ \E gone : taken \subseteq {gone}
      BY <3>3, TakeableEntry
    <3>5. PICK gone : taken \subseteq {gone}
      BY <3>4
    <3>6. CASE taken = {gone}
      <4>1. IF p = From[r.id] /\ q = To[r.id]
              THEN Entries(p, q)' = Entries(p, q) \ {gone}
              ELSE Entries(p, q)' = Entries(p, q)
        BY <2>0, <3>1, <3>3, <3>4, <3>6 DEF Entries
      <4> QED BY <2>2, <3>1, <3>2, <4>1
    <3>7. CASE taken = {}
      <4>1. Entries(p, q)' = Entries(p, q)
        BY <2>0, <3>1, <3>3, <3>7 DEF Entries
      <4>2. Entries(p, q) = {} \/ ~(p = From[r.id] /\ q = To[r.id])
        BY <3>3, <3>7, TakeableEntry
      <4>3. Entries(p, q) = {} => Entries(p, q) = Entries(p, q) \ {gone}
        OBVIOUS
      <4> QED BY <2>2, <3>1, <3>2, <4>1, <4>2, <4>3
    <3> QED BY <3>5, <3>6, <3>7
  <2>6. ASSUME NEW r \in response, OnNok(r)
        PROVE  Cardinality(Waiting(p, q)') <= Cardinality(Entries(p, q)')
    <3>1. r.id \in Msg
      BY DEF TypeOK
    <3>2. Settle(r.id, "refused")
      BY <2>6 DEF OnNok, TakeResponse, Settle
    <3>3. Entries(p, q)' = Entries(p, q)
      BY <2>6 DEF OnNok, Entries
    <3>4. CASE p = From[r.id] /\ q = To[r.id]
      <4>1. Waiting(p, q)' = Waiting(p, q) \ {r.id} /\ r.id \in Waiting(p, q)
        BY <2>0, <3>1, <3>2, <3>4, OutcomeWaiting
      <4>2. Cardinality(Waiting(p, q) \ {r.id}) = w - 1
        <5>1. IsFiniteSet(Waiting(p, q)) /\ r.id \in Waiting(p, q)
          BY <2>0, <4>1
        <5> QED BY ONLY <5>1, FS_RemoveElement
      <4> QED BY <2>0, <3>3, <4>1, <4>2
    <3>5. CASE ~(p = From[r.id] /\ q = To[r.id])
      <4>1. Waiting(p, q)' = Waiting(p, q)
        BY <2>0, <3>1, <3>2, <3>5, OutcomeWaiting
      <4> QED BY <2>0, <3>3, <4>1
    <3> QED BY <3>4, <3>5
  <2>7. ASSUME NEW d \in Peer, Restart(d)
        PROVE  Cardinality(Waiting(p, q)') <= Cardinality(Entries(p, q)')
    <3>1. Waiting(p, q)' = IF p = d THEN {} ELSE Waiting(p, q)
      BY <2>0, <2>7, DropWaiting DEF Restart
    <3>2. Entries(p, q)' = IF p = d THEN {} ELSE Entries(p, q)
      BY <2>0, <2>7 DEF Restart, Entries
    <3> QED BY <2>0, <3>1, <3>2, FS_EmptySet
  <2>8. ASSUME NEW m \in Msg, OnRequest(m) \/ OnInvalidRequest(m)
        PROVE  UNCHANGED <<status, call_outbound>>
    BY <2>8 DEF OnRequest, OnInvalidRequest, TakeRequest, callVars
  <2>9. CASE UNCHANGED vars
    BY <2>3, <2>9 DEF vars, rrVars, callVars
  <2> QED BY <2>1, <2>3, <2>4, <2>5, <2>6, <2>7, <2>8, <2>9 DEF Next
<1> QED BY <1>1, <1>2, TypeCorrect, PTL DEF Spec

-----------------------------------------------------------------------------
(* One message at a time. *)

\* What holds of p's messages to q when p sends them one at a time: one request
\* is outstanding at most and its entry is the only one, q accepts what is on
\* the way, so that no refusal comes back, and only acknowledged messages were
\* reported sent.
PairInv(p, q) ==
  /\ \A m, n \in Waiting(p, q) : m = n
  /\ Entries(p, q) = Waiting(p, q)
  /\ \A m \in request : From[m] = p /\ To[m] = q => m \in Accepts[p]
  /\ \A r \in response : From[r.id] = p /\ To[r.id] = q => r.ack.ok
  /\ \A m \in Msg : From[m] = p /\ To[m] = q /\ reported[m] > 0 => status[m] = "acked"

OneAtATimeInv ==
  \A p \in OneAtATime, q \in Peer : Accepts[p] \subseteq Accepts[q] => PairInv(p, q)

\* An application that waits for each message's outcome before it sends the
\* next one to the same peer is told the truth by take_call_outbound.
THEOREM OneAtATimeReports == Spec => []OneAtATimeExact
<1>1. Init => OneAtATimeInv
  <2> SUFFICES ASSUME Init, NEW p \in OneAtATime, NEW q \in Peer
               PROVE  PairInv(p, q)
    BY DEF OneAtATimeInv
  <2>1. Waiting(p, q) = {} /\ Entries(p, q) = {}
    BY CallAssumption DEF Init, RRInit, Waiting, Entries
  <2> QED BY <2>1 DEF Init, RRInit, PairInv
<1>2. TypeOK /\ OneAtATimeInv /\ [Next]_vars => OneAtATimeInv'
  <2> SUFFICES ASSUME TypeOK, [Next]_vars, NEW p \in OneAtATime, NEW q \in Peer,
                      Accepts[p] \subseteq Accepts[q], PairInv(p, q)
               PROVE  PairInv(p, q)'
    BY DEF OneAtATimeInv
  <2> USE RouteAssumption, CallAssumption
  <2>0. /\ status \in [Msg -> Status] /\ call_outbound \in [Peer -> SUBSET Msg]
        /\ reported \in [Msg -> Nat] /\ p \in Peer
        /\ \A r \in response : r.id \in Msg
    BY DEF TypeOK
  <2>1. ASSUME NEW m \in Msg, SendCall(m)
        PROVE  PairInv(p, q)'
    <3>1. /\ SendRequest(m)
          /\ status[m] = "unsent" /\ status' = [status EXCEPT ![m] = "waiting"]
          /\ request' = request \cup {m} /\ response' = response
          /\ m \in Accepts[From[m]] /\ reported' = reported
      BY <2>1 DEF SendCall, SendRequest
    <3>2. IF p = From[m] /\ q = To[m]
            THEN Waiting(p, q)' = Waiting(p, q) \cup {m}
            ELSE Waiting(p, q)' = Waiting(p, q)
      BY <2>0, <3>1, SendWaiting
    <3>3. IF p = From[m] /\ q = To[m]
            THEN Entries(p, q)' = Entries(p, q) \cup {m}
            ELSE Entries(p, q)' = Entries(p, q)
      BY <2>0, <2>1 DEF SendCall, Entries
    <3>4. p = From[m] /\ q = To[m] => Waiting(p, q) = {}
      BY <2>1 DEF SendCall
    <3>5. \A n \in Msg : status[n] = "acked" => status'[n] = "acked"
      BY <2>0, <3>1
    <3> QED BY <3>1, <3>2, <3>3, <3>4, <3>5 DEF PairInv
  <2>2. ASSUME NEW m \in Msg, OnFailure(m)
        PROVE  PairInv(p, q)'
    <3>1. /\ Settle(m, "failed") /\ status[m] = "waiting"
          /\ status' = [status EXCEPT ![m] = "failed"]
          /\ request' = request /\ response' \subseteq response /\ reported' = reported
      BY <2>2 DEF OnFailure, FailRequest, Settle
    <3>2. IF p = From[m] /\ q = To[m]
            THEN Waiting(p, q)' = Waiting(p, q) \ {m} /\ m \in Waiting(p, q)
            ELSE Waiting(p, q)' = Waiting(p, q)
      BY <2>0, <3>1, OutcomeWaiting
    <3>3. IF p = From[m] /\ q = To[m]
            THEN Entries(p, q)' = Entries(p, q) \ {m}
            ELSE Entries(p, q)' = Entries(p, q)
      BY <2>0, <2>2 DEF OnFailure, Entries
    <3>4. \A n \in Msg : status[n] = "acked" => status'[n] = "acked"
      BY <2>0, <3>1
    <3> QED BY <3>1, <3>2, <3>3, <3>4 DEF PairInv
  <2>3. ASSUME NEW r \in response, OnAck(r)
        PROVE  PairInv(p, q)'
    <3> DEFINE m == r.id
    <3>1. /\ m \in Msg /\ Settle(m, "acked")
          /\ status' = [status EXCEPT ![m] = "acked"]
          /\ request' = request /\ response' \subseteq response
      BY <2>0, <2>3 DEF OnAck, TakeResponse, Settle
    <3>2. PICK taken \in Takeable(From[m], To[m]) :
            /\ call_outbound' = [call_outbound EXCEPT ![From[m]] = @ \ taken]
            /\ reported' = [n \in Msg |-> IF n \in taken THEN reported[n] + 1
                                                         ELSE reported[n]]
      BY <2>3 DEF OnAck
    <3> HIDE DEF m
    <3>3. IF p = From[m] /\ q = To[m]
            THEN Waiting(p, q)' = Waiting(p, q) \ {m} /\ m \in Waiting(p, q)
            ELSE Waiting(p, q)' = Waiting(p, q)
      BY <2>0, <3>1, OutcomeWaiting
    <3>4. p = From[m] /\ q = To[m] => taken = {m}
      <4> SUFFICES ASSUME p = From[m], q = To[m]
                   PROVE  taken = {m}
        OBVIOUS
      <4>1. Entries(p, q) = {m}
        BY <3>3 DEF PairInv
      <4> QED BY <3>2, <4>1, TakeableEntry
    <3>5. taken \subseteq Entries(From[m], To[m])
      BY <3>2, TakeableEntry
    <3>6. IF p = From[m] /\ q = To[m]
            THEN Entries(p, q)' = Entries(p, q) \ {m}
            ELSE Entries(p, q)' = Entries(p, q)
      BY <2>0, <3>1, <3>2, <3>4, <3>5 DEF Entries
    <3>7. \A n \in Msg : From[n] = p /\ To[n] = q /\ reported'[n] > 0
                           => status'[n] = "acked"
      <4> SUFFICES ASSUME NEW n \in Msg, From[n] = p, To[n] = q, reported'[n] > 0
                   PROVE  status'[n] = "acked"
        OBVIOUS
      <4>1. CASE n = m
        BY <2>0, <3>1, <4>1
      <4>2. CASE n # m
        <5>1. n \notin taken
          <6>1. CASE p = From[m] /\ q = To[m]
            BY <3>4, <4>2, <6>1
          <6>2. CASE ~(p = From[m] /\ q = To[m])
            <7>1. From[n] = From[m] /\ To[n] = To[m] => FALSE
              BY <6>2
            <7>2. n \in taken => To[n] = To[m] /\ n \in call_outbound[From[m]]
              BY <3>5 DEF Entries
            <7>3. n \in call_outbound[From[m]] => From[n] = From[m]
              BY <3>1 DEF TypeOK
            <7> QED BY <7>1, <7>2, <7>3
          <6> QED BY <6>1, <6>2
        <5>2. reported[n] > 0
          BY <2>0, <3>2, <5>1
        <5>3. status[n] = "acked"
          BY <5>2 DEF PairInv
        <5> QED BY <2>0, <3>1, <4>2, <5>3
      <4> QED BY <4>1, <4>2
    <3> QED BY <3>1, <3>3, <3>6, <3>7 DEF PairInv
  <2>4. ASSUME NEW r \in response, OnNok(r)
        PROVE  PairInv(p, q)'
    <3>1. /\ r.id \in Msg /\ Settle(r.id, "refused") /\ status[r.id] = "waiting"
          /\ status' = [status EXCEPT ![r.id] = "refused"]
          /\ request' = request /\ response' \subseteq response
          /\ UNCHANGED <<call_outbound, reported>>
      BY <2>0, <2>4 DEF OnNok, TakeResponse, Settle
    <3>2. ~(p = From[r.id] /\ q = To[r.id])
      BY <2>4 DEF OnNok, PairInv
    <3>3. Waiting(p, q)' = Waiting(p, q)
      BY <2>0, <3>1, <3>2, OutcomeWaiting
    <3>4. Entries(p, q)' = Entries(p, q)
      BY <3>1 DEF Entries
    <3>5. \A n \in Msg : status[n] = "acked" => status'[n] = "acked"
      BY <2>0, <3>1
    <3> QED BY <3>1, <3>3, <3>4, <3>5 DEF PairInv
  <2>5. ASSUME NEW m \in Msg, OnRequest(m) \/ OnInvalidRequest(m)
        PROVE  PairInv(p, q)'
    <3>1. /\ UNCHANGED <<status, call_outbound, reported>>
          /\ request' \subseteq request /\ m \in request
      BY <2>5 DEF OnRequest, OnInvalidRequest, TakeRequest, callVars
    <3>2. \A r \in response' :
            r \in response \/ (r.id = m /\ (m \in Accepts[To[m]] => r.ack.ok))
      <4>1. CASE OnRequest(m)
        BY <4>1 DEF OnRequest, TakeRequest
      <4>2. CASE OnInvalidRequest(m)
        BY <4>2 DEF OnInvalidRequest, TakeRequest
      <4> QED BY <2>5, <4>1, <4>2
    <3>3. p = From[m] /\ q = To[m] => m \in Accepts[To[m]]
      BY <3>1 DEF PairInv
    <3>4. Waiting(p, q)' = Waiting(p, q) /\ Entries(p, q)' = Entries(p, q)
      BY <3>1 DEF Waiting, Entries
    <3>5. \A r \in response' : From[r.id] = p /\ To[r.id] = q => r.ack.ok
      BY <3>2, <3>3 DEF PairInv
    <3> QED BY <3>1, <3>4, <3>5 DEF PairInv
  <2>6. ASSUME NEW d \in Peer, Restart(d)
        PROVE  PairInv(p, q)'
    <3>1. Waiting(p, q)' = IF p = d THEN {} ELSE Waiting(p, q)
      BY <2>0, <2>6, DropWaiting DEF Restart
    <3>2. Entries(p, q)' = IF p = d THEN {} ELSE Entries(p, q)
      BY <2>0, <2>6 DEF Restart, Entries
    <3>3. /\ \A n \in Msg : status[n] = "acked" => status'[n] = "acked"
          /\ request' \subseteq request /\ response' \subseteq response
          /\ reported' = reported
      BY <2>6 DEF Restart, DropPeer
    <3> QED BY <3>1, <3>2, <3>3 DEF PairInv
  <2>7. CASE UNCHANGED vars
    BY <2>7 DEF vars, rrVars, callVars, PairInv, Entries, Waiting
  <2> QED BY <2>1, <2>2, <2>3, <2>4, <2>5, <2>6, <2>7 DEF Next
<1>3. OneAtATimeInv => OneAtATimeExact
  BY DEF OneAtATimeInv, OneAtATimeExact, PairInv
<1> QED BY <1>1, <1>2, <1>3, TypeCorrect, PTL DEF Spec

-----------------------------------------------------------------------------
(* The reports are right in number. *)

\* The messages from p to q that were reported sent.
Reported(p, q) == {m \in Msg : From[m] = p /\ To[m] = q /\ reported[m] > 0}
Failed(p, q) == Ended(p, q, "failed") \union Ended(p, q, "refused")

\* A message in the map was not reported yet, one not sent never.
ReportedOnce ==
  \A m \in Msg :
    /\ reported[m] <= 1
    /\ reported[m] > 0 => status[m] # "unsent" /\ m \notin call_outbound[From[m]]

CountInv ==
  /\ ReportedOnce
  /\ \A p, q \in Peer :
       /\ Cardinality(Reported(p, q)) = Cardinality(Ended(p, q, "acked"))
       /\ errors[p][q] = Cardinality(Failed(p, q))

\* A set of messages is finite.
LEMMA MessagesFinite ==
  ASSUME NEW S, S \subseteq Msg
  PROVE  IsFiniteSet(S) /\ Cardinality(S) \in Nat
BY MsgFinite, FS_Subset, FS_CardinalityType

\* One more message in a set.
LEMMA OneMore ==
  ASSUME NEW S, S \subseteq Msg, NEW m, m \notin S
  PROVE  Cardinality(S \union {m}) = Cardinality(S) + 1
BY MessagesFinite, FS_AddElement

\* An outcome for m is one more of its kind between m's peers, and no other.
LEMMA OutcomeEnded ==
  ASSUME NEW m \in Msg, NEW s, status \in [Msg -> Status], Settle(m, s),
         NEW p, NEW q, NEW o, o # "waiting"
  PROVE  /\ m \notin Ended(p, q, o) /\ Ended(p, q, o) \subseteq Msg
         /\ Ended(p, q, o)' = IF p = From[m] /\ q = To[m] /\ o = s
                                THEN Ended(p, q, o) \union {m} ELSE Ended(p, q, o)
BY DEF Settle, Ended

\* The same for failures and refusals together.
LEMMA OutcomeFailed ==
  ASSUME NEW m \in Msg, NEW s, status \in [Msg -> Status], Settle(m, s),
         NEW p, NEW q
  PROVE  /\ m \notin Failed(p, q) /\ Failed(p, q) \subseteq Msg
         /\ Failed(p, q)' = IF p = From[m] /\ q = To[m] /\ s \in {"failed", "refused"}
                              THEN Failed(p, q) \union {m} ELSE Failed(p, q)
<1>1. /\ m \notin Ended(p, q, "failed") /\ Ended(p, q, "failed") \subseteq Msg
      /\ Ended(p, q, "failed")' = IF p = From[m] /\ q = To[m] /\ s = "failed"
                                    THEN Ended(p, q, "failed") \union {m}
                                    ELSE Ended(p, q, "failed")
  BY OutcomeEnded
<1>2. /\ m \notin Ended(p, q, "refused") /\ Ended(p, q, "refused") \subseteq Msg
      /\ Ended(p, q, "refused")' = IF p = From[m] /\ q = To[m] /\ s = "refused"
                                     THEN Ended(p, q, "refused") \union {m}
                                     ELSE Ended(p, q, "refused")
  BY OutcomeEnded
<1> QED BY <1>1, <1>2 DEF Failed

\* Steps that give no outcome and take no entry.
LEMMA CountsKept ==
  ASSUME TypeOK, CountInv, UNCHANGED <<reported, errors>>,
         \A m \in Msg : /\ status[m] # "unsent" => status'[m] # "unsent"
                        /\ \A o \in {"acked", "failed", "refused"} :
                             status'[m] = o <=> status[m] = o
                        /\ m \in call_outbound'[From[m]] =>
                             m \in call_outbound[From[m]] \/ status[m] = "unsent"
  PROVE  CountInv'
<1>1. ReportedOnce'
  BY DEF CountInv, ReportedOnce
<1>2. \A p, q \in Peer : Reported(p, q)' = Reported(p, q)
  BY DEF Reported
<1>3. \A p, q \in Peer : /\ Ended(p, q, "acked")' = Ended(p, q, "acked")
                         /\ Failed(p, q)' = Failed(p, q)
  BY DEF Ended, Failed
<1> QED BY <1>1, <1>2, <1>3 DEF CountInv

\* As many reports as acknowledgements, as many errors as failures and refusals:
\* take_call_outbound may name the wrong message, but never too many or too few.
THEOREM CountsRight == Spec => []ReportsCount
<1>1. Init => CountInv
  <2> SUFFICES ASSUME Init
               PROVE  CountInv
    OBVIOUS
  <2>1. ASSUME NEW p \in Peer, NEW q \in Peer
        PROVE  Reported(p, q) = {} /\ Ended(p, q, "acked") = {} /\ Failed(p, q) = {}
               /\ errors[p][q] = 0
    BY DEF Init, RRInit, Reported, Ended, Failed
  <2>2. ReportedOnce
    BY DEF Init, RRInit, ReportedOnce
  <2> QED BY <2>1, <2>2, FS_EmptySet DEF CountInv
<1>2. TypeOK /\ EntriesCoverWaiting /\ CountInv /\ [Next]_vars => CountInv'
  <2> SUFFICES ASSUME TypeOK, EntriesCoverWaiting, CountInv, [Next]_vars
               PROVE  CountInv'
    OBVIOUS
  <2> USE RouteAssumption
  <2>0. /\ status \in [Msg -> Status] /\ call_outbound \in [Peer -> SUBSET Msg]
        /\ reported \in [Msg -> Nat] /\ errors \in [Peer -> [Peer -> Nat]]
        /\ \A r \in response : r.id \in Msg
    BY DEF TypeOK
  <2>1. ASSUME NEW m \in Msg, SendCall(m)
        PROVE  CountInv'
    BY <2>0, <2>1, CountsKept DEF SendCall, SendRequest
  <2>2. ASSUME NEW m \in Msg, OnRequest(m) \/ OnInvalidRequest(m)
        PROVE  CountInv'
    BY <2>0, <2>2, CountsKept DEF OnRequest, OnInvalidRequest, TakeRequest, callVars
  <2>3. ASSUME NEW m \in Msg, NEW s \in {"failed", "refused"}, Settle(m, s),
               errors' = [errors EXCEPT ![From[m]][To[m]] = @ + 1],
               reported' = reported, \A p \in Peer : call_outbound'[p] \subseteq call_outbound[p]
        PROVE  CountInv'
    <3>1. ReportedOnce'
      BY <2>0, <2>3 DEF CountInv, ReportedOnce, Settle
    <3>2. ASSUME NEW p \in Peer, NEW q \in Peer
          PROVE  /\ Cardinality(Reported(p, q)') = Cardinality(Ended(p, q, "acked")')
                 /\ errors'[p][q] = Cardinality(Failed(p, q)')
      <4>1. Reported(p, q)' = Reported(p, q)
        BY <2>3 DEF Reported
      <4>0. Settle(m, s) /\ status \in [Msg -> Status] /\ s # "acked"
        BY <2>0, <2>3
      <4>2. Ended(p, q, "acked")' = Ended(p, q, "acked")
        BY <4>0, OutcomeEnded
      <4>3. /\ m \notin Failed(p, q) /\ Failed(p, q) \subseteq Msg
            /\ Failed(p, q)' = IF p = From[m] /\ q = To[m] THEN Failed(p, q) \union {m}
                                                           ELSE Failed(p, q)
        BY <2>3, <4>0, OutcomeFailed
      <4>4. errors'[p][q] = IF p = From[m] /\ q = To[m] THEN errors[p][q] + 1
                                                        ELSE errors[p][q]
        BY <2>0, <2>3
      <4>5. Cardinality(Failed(p, q) \union {m}) = Cardinality(Failed(p, q)) + 1
        BY <4>3, OneMore
      <4> QED BY <4>1, <4>2, <4>3, <4>4, <4>5 DEF CountInv
    <3> QED BY <3>1, <3>2 DEF CountInv
  <2>4. ASSUME NEW m \in Msg, OnFailure(m)
        PROVE  CountInv'
    <3>1. Settle(m, "failed")
      BY <2>4 DEF OnFailure, FailRequest, Settle
    <3>2. \A p \in Peer : call_outbound'[p] \subseteq call_outbound[p]
      BY <2>0, <2>4 DEF OnFailure
    <3> QED BY <2>3, <2>4, <3>1, <3>2 DEF OnFailure
  <2>5. ASSUME NEW r \in response, OnNok(r)
        PROVE  CountInv'
    <3>1. r.id \in Msg /\ Settle(r.id, "refused")
      BY <2>0, <2>5 DEF OnNok, TakeResponse, Settle
    <3> QED BY <2>3, <2>5, <3>1 DEF OnNok
  <2>6. ASSUME NEW r \in response, OnAck(r)
        PROVE  CountInv'
    <3> DEFINE m == r.id
    <3>1. m \in Msg /\ Settle(m, "acked") /\ errors' = errors
      BY <2>0, <2>6 DEF OnAck, TakeResponse, Settle
    <3>2. PICK taken \in Takeable(From[m], To[m]) :
            /\ call_outbound' = [call_outbound EXCEPT ![From[m]] = @ \ taken]
            /\ reported' = [n \in Msg |-> IF n \in taken THEN reported[n] + 1
                                                         ELSE reported[n]]
      BY <2>6 DEF OnAck
    <3> HIDE DEF m
    <3>3. Entries(From[m], To[m]) # {}
      <4>1. m \in Waiting(From[m], To[m])
        BY <3>1 DEF Waiting, Settle
      <4>2. Waiting(From[m], To[m]) # {} /\ Cardinality(Waiting(From[m], To[m])) # 0
        BY <4>1, WaitingFinite, FS_EmptySet
      <4>3. Cardinality(Waiting(From[m], To[m])) <= Cardinality(Entries(From[m], To[m]))
        BY <3>1 DEF EntriesCoverWaiting
      <4>4. Cardinality(Waiting(From[m], To[m])) \in Nat
        BY WaitingFinite
      <4>5. Entries(From[m], To[m]) = {} => Cardinality(Entries(From[m], To[m])) = 0
        BY FS_EmptySet
      <4> QED BY <4>2, <4>3, <4>4, <4>5
    <3>4. PICK n \in Entries(From[m], To[m]) : taken = {n}
      BY <3>2, <3>3, TakeableEntry
    <3>5. /\ n \in Msg /\ n \in call_outbound[From[m]]
          /\ From[n] = From[m] /\ To[n] = To[m] /\ status[n] # "unsent"
      BY <2>0, <3>1, <3>4 DEF Entries, TypeOK
    <3>6. reported[n] = 0
      BY <2>0, <3>5 DEF CountInv, ReportedOnce
    <3>7. /\ reported'[n] = 1
          /\ \A k \in Msg : k # n => reported'[k] = reported[k]
      BY <2>0, <3>2, <3>4, <3>5, <3>6
    <3>8. ReportedOnce'
      <4> SUFFICES ASSUME NEW k \in Msg
                   PROVE  /\ reported'[k] <= 1
                          /\ reported'[k] > 0 => /\ status'[k] # "unsent"
                                                 /\ k \notin call_outbound'[From[k]]
        BY DEF ReportedOnce
      <4>1. status[k] # "unsent" => status'[k] # "unsent"
        BY <2>0, <3>1 DEF Settle
      <4>2. CASE k = n
        BY <2>0, <3>1, <3>2, <3>4, <3>5, <3>7, <4>1, <4>2
      <4>3. CASE k # n
        <5>1. call_outbound'[From[k]] \subseteq call_outbound[From[k]]
          BY <2>0, <3>1, <3>2
        <5> QED BY <3>7, <4>1, <4>3, <5>1 DEF CountInv, ReportedOnce
      <4> QED BY <4>2, <4>3
    <3>9. ASSUME NEW p \in Peer, NEW q \in Peer
          PROVE  /\ Cardinality(Reported(p, q)') = Cardinality(Ended(p, q, "acked")')
                 /\ errors'[p][q] = Cardinality(Failed(p, q)')
      <4>1. Failed(p, q)' = Failed(p, q)
        <5>1. \A o \in {"failed", "refused"} : Ended(p, q, o)' = Ended(p, q, o)
          BY <2>0, <3>1 DEF Settle, Ended
        <5> QED BY <5>1 DEF Failed
      <4>0. Settle(m, "acked") /\ status \in [Msg -> Status] /\ m \in Msg
        BY <2>0, <3>1
      <4>2. /\ m \notin Ended(p, q, "acked") /\ Ended(p, q, "acked") \subseteq Msg
            /\ Ended(p, q, "acked")' = IF p = From[m] /\ q = To[m]
                                         THEN Ended(p, q, "acked") \union {m}
                                         ELSE Ended(p, q, "acked")
        BY <4>0, OutcomeEnded
      <4>3. /\ n \notin Reported(p, q) /\ Reported(p, q) \subseteq Msg
            /\ Reported(p, q)' = IF p = From[m] /\ q = To[m] THEN Reported(p, q) \union {n}
                                                             ELSE Reported(p, q)
        BY <3>5, <3>6, <3>7 DEF Reported
      <4>4. /\ Cardinality(Ended(p, q, "acked") \union {m}) = Cardinality(Ended(p, q, "acked")) + 1
            /\ Cardinality(Reported(p, q) \union {n}) = Cardinality(Reported(p, q)) + 1
        BY <4>2, <4>3, OneMore
      <4> QED BY <3>1, <4>1, <4>2, <4>3, <4>4 DEF CountInv
    <3> QED BY <3>8, <3>9 DEF CountInv
  <2>7. ASSUME NEW p \in Peer, Restart(p)
        PROVE  CountInv'
    BY <2>0, <2>7, CountsKept DEF Restart, DropPeer
  <2>8. CASE UNCHANGED vars
    BY <2>0, <2>8, CountsKept DEF vars, rrVars, callVars
  <2> QED BY <2>1, <2>2, <2>4, <2>5, <2>6, <2>7, <2>8 DEF Next
<1>3. CountInv => ReportsCount
  <2> SUFFICES ASSUME CountInv, NEW p \in Peer, NEW q \in Peer
               PROVE  LET all == {m \in Msg : From[m] = p /\ To[m] = q}
                      IN /\ Cardinality({m \in all : reported[m] > 0})
                              = Cardinality(Ended(p, q, "acked"))
                         /\ errors[p][q] = Cardinality(Failed(p, q))
    BY DEF ReportsCount, CountInv, ReportedOnce, Failed
  <2>1. {m \in {n \in Msg : From[n] = p /\ To[n] = q} : reported[m] > 0} = Reported(p, q)
    BY DEF Reported
  <2> QED BY <2>1 DEF CountInv
<1> QED BY <1>1, <1>2, <1>3, TypeCorrect, EntriesCover, PTL DEF Spec

=============================================================================
