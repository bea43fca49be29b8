-------------------------- MODULE AndroidAppProofs --------------------------
(***************************************************************************)
(* Proofs about AndroidApp, for any number of threads and events.          *)
(*                                                                         *)
(* The argument is about places in the mutex's queue: whoever an event     *)
(* passed is ahead of the event task when it queues again.                 *)
(***************************************************************************)
EXTENDS AndroidApp, SequenceTheorems, TLAPS

-----------------------------------------------------------------------------
(* Queues without repetitions. *)

Holds(q, w) == \E i \in DOMAIN q : q[i] = w
Once(q) == \A i, j \in DOMAIN q : q[i] = q[j] => i = j
Behind(q, v, w) == \E i, j \in DOMAIN q : i < j /\ q[i] = v /\ q[j] = w

\* Who queues up comes last.
LEMMA QueueUp ==
  ASSUME NEW S, NEW q \in Seq(S), NEW w \in S, Once(q), ~Holds(q, w)
  PROVE  /\ Append(q, w) \in Seq(S) /\ Once(Append(q, w))
         /\ \A x : Holds(Append(q, w), x) <=> Holds(q, x) \/ x = w
         /\ \A v, x : Behind(Append(q, w), v, x) =>
                        Behind(q, v, x) \/ (x = w /\ Holds(q, v))
<1> DEFINE n == Len(q)
           r == Append(q, w)
<1>1. /\ n \in Nat /\ DOMAIN q = 1..n /\ r \in Seq(S) /\ DOMAIN r = 1..(n + 1)
      /\ r[n + 1] = w /\ \A i \in 1..n : r[i] = q[i]
  BY AppendProperties, LenProperties
<1> HIDE DEF n, r
<1>2. \A i \in 1..(n + 1) : IF i = n + 1 THEN r[i] = w ELSE i \in 1..n /\ r[i] = q[i]
  BY <1>1
<1>3. \A i \in 1..n : i \in 1..(n + 1) /\ i # n + 1 /\ q[i] # w
  BY <1>1 DEF Holds
<1>4. n + 1 \in 1..(n + 1)
  BY <1>1
<1>5. Once(r)
  BY <1>1, <1>2, <1>3 DEF Once
<1>6. \A x : Holds(r, x) <=> Holds(q, x) \/ x = w
  BY <1>1, <1>2, <1>3, <1>4 DEF Holds
<1>7. ASSUME NEW v, NEW x, Behind(r, v, x)
      PROVE  Behind(q, v, x) \/ (x = w /\ Holds(q, v))
  <2>1. PICK i \in 1..(n + 1), j \in 1..(n + 1) : i < j /\ r[i] = v /\ r[j] = x
    BY <1>1, <1>7 DEF Behind
  <2>2. i \in 1..n /\ q[i] = v
    BY <1>1, <1>2, <2>1
  <2>3. CASE j = n + 1
    BY <1>1, <1>2, <2>1, <2>2, <2>3 DEF Holds
  <2>4. CASE j # n + 1
    BY <1>1, <1>2, <2>1, <2>2, <2>4 DEF Behind
  <2> QED BY <2>3, <2>4
<1> QED
  BY <1>1, <1>5, <1>6, <1>7 DEF r

\* Who has an entry taken away keeps no other; the rest keep their order.
LEMMA LeaveQueue ==
  ASSUME NEW S, NEW q \in Seq(S), NEW k \in DOMAIN q, Once(q)
  PROVE  LET r == RemoveAt(q, k)
         IN  /\ r \in Seq(S) /\ Once(r)
             /\ \A x : Holds(r, x) <=> Holds(q, x) /\ x # q[k]
             /\ \A v, x : Behind(r, v, x) => Behind(q, v, x)
<1> DEFINE n == Len(q)
           a == SubSeq(q, 1, k - 1)
           b == SubSeq(q, k + 1, n)
           r == RemoveAt(q, k)
<1>1. n \in Nat /\ DOMAIN q = 1..n /\ k \in 1..n /\ \A i \in 1..n : q[i] \in S
  BY LenProperties, ElementOfSeq
<1>2. a \in Seq(S) /\ Len(a) = k - 1 /\ \A i \in 1..(k - 1) : a[i] = q[i]
  <2>1. (\A i \in 1..(k - 1) : q[i] \in S) /\ 1 \in Int /\ k - 1 \in Int
    BY <1>1
  <2>2. /\ a \in Seq(S) /\ Len(a) = IF 1 <= k - 1 THEN k - 1 - 1 + 1 ELSE 0
        /\ \A i \in 1..(k - 1 - 1 + 1) : a[i] = q[1 + i - 1]
    BY ONLY <2>1, SubSeqProperties
  <2> HIDE DEF a
  <2> QED
    BY <1>1, <2>2
<1>3. b \in Seq(S) /\ Len(b) = n - k /\ \A i \in 1..(n - k) : b[i] = q[k + i]
  <2>1. (\A i \in (k + 1)..n : q[i] \in S) /\ k + 1 \in Int /\ n \in Int
    BY <1>1
  <2>2. /\ b \in Seq(S) /\ Len(b) = IF k + 1 <= n THEN n - (k + 1) + 1 ELSE 0
        /\ \A i \in 1..(n - (k + 1) + 1) : b[i] = q[k + 1 + i - 1]
    BY ONLY <2>1, SubSeqProperties
  <2> HIDE DEF b, n
  <2>3. Len(b) = n - k
    BY <1>1, <2>2
  <2>4. ASSUME NEW i \in 1..(n - k)
        PROVE  b[i] = q[k + i]
    <3>1. i \in 1..(n - (k + 1) + 1) /\ k + 1 + i - 1 = k + i
      BY <1>1
    <3> QED BY <2>2, <3>1
  <2> QED BY <2>2, <2>3, <2>4
<1>4. r = a \o b
  BY DEF RemoveAt
<1> HIDE DEF a, b, r, n
<1>5. /\ r \in Seq(S) /\ DOMAIN r = 1..(n - 1)
      /\ \A i \in 1..(n - 1) : r[i] = IF i < k THEN q[i] ELSE q[i + 1]
  <2>1. r \in Seq(S) /\ Len(r) = n - 1
    <3>1. r \in Seq(S) /\ Len(r) = Len(a) + Len(b)
      BY <1>2, <1>3, <1>4, ConcatProperties
    <3>2. (k - 1) + (n - k) = n - 1
      BY <1>1
    <3> QED BY <1>2, <1>3, <3>1, <3>2
  <2>2. ASSUME NEW i \in 1..(n - 1)
        PROVE  r[i] = IF i < k THEN q[i] ELSE q[i + 1]
    <3>1. i \in 1..(Len(a) + Len(b))
      BY <1>1, <1>2, <1>3
    <3>2. r[i] = IF i <= Len(a) THEN a[i] ELSE b[i - Len(a)]
      BY <1>2, <1>3, <1>4, <3>1, ConcatProperties
    <3>3. CASE i < k
      BY <1>1, <1>2, <3>2, <3>3
    <3>4. CASE ~(i < k)
      <4>1. i - (k - 1) \in 1..(n - k) /\ k + (i - (k - 1)) = i + 1 /\ ~(i <= k - 1)
        BY <1>1, <3>4
      <4> QED
        BY <1>2, <1>3, <3>2, <3>4, <4>1
    <3> QED BY <3>3, <3>4
  <2> QED BY <2>1, <2>2, LenProperties
<1> DEFINE old(i) == IF i < k THEN i ELSE i + 1
<1>6. \A i \in 1..(n - 1) : old(i) \in 1..n /\ old(i) # k /\ r[i] = q[old(i)]
  BY <1>1, <1>5
<1>7. \A i, j \in 1..(n - 1) : (old(i) = old(j) => i = j) /\ (i < j => old(i) < old(j))
  BY <1>1
<1>8. \A m \in 1..n : m # k => \E i \in 1..(n - 1) : old(i) = m
  <2> SUFFICES ASSUME NEW m \in 1..n, m # k
               PROVE  \E i \in 1..(n - 1) : old(i) = m
    OBVIOUS
  <2>1. CASE m < k
    <3>1. m \in 1..(n - 1) /\ old(m) = m
      BY <1>1, <2>1
    <3> QED BY <3>1
  <2>2. CASE m > k
    <3>1. m - 1 \in 1..(n - 1) /\ old(m - 1) = m
      BY <1>1, <2>2
    <3> QED BY <3>1
  <2> QED BY <1>1, <2>1, <2>2
<1> HIDE DEF old
<1>9. Once(r)
  BY <1>1, <1>5, <1>6, <1>7 DEF Once
<1>10. \A x : Holds(r, x) <=> Holds(q, x) /\ x # q[k]
  <2> TAKE x
  <2>1. ASSUME Holds(r, x) PROVE Holds(q, x) /\ x # q[k]
    <3>1. PICK i \in 1..(n - 1) : r[i] = x
      BY <1>5, <2>1 DEF Holds
    <3>2. old(i) \in 1..n /\ old(i) # k /\ q[old(i)] = x
      BY <1>6, <3>1
    <3> QED BY <1>1, <3>2 DEF Once, Holds
  <2>2. ASSUME Holds(q, x), x # q[k] PROVE Holds(r, x)
    <3>1. PICK m \in 1..n : q[m] = x
      BY <1>1, <2>2 DEF Holds
    <3>2. PICK i \in 1..(n - 1) : old(i) = m
      BY <1>8, <2>2, <3>1
    <3> QED BY <1>5, <1>6, <3>1, <3>2 DEF Holds
  <2> QED BY <2>1, <2>2
<1>11. \A v, x : Behind(r, v, x) => Behind(q, v, x)
  BY <1>1, <1>5, <1>6, <1>7 DEF Behind
<1> QED
  BY <1>5, <1>9, <1>10, <1>11 DEF r

\* Who is served was first; everybody else was behind.
LEMMA Served ==
  ASSUME NEW S, NEW q \in Seq(S), q # <<>>, Once(q)
  PROVE  /\ Tail(q) \in Seq(S) /\ Once(Tail(q)) /\ Holds(q, Head(q))
         /\ \A x : Holds(Tail(q), x) <=> Holds(q, x) /\ x # Head(q)
         /\ \A v, x : Behind(Tail(q), v, x) => Behind(q, v, x)
         /\ \A x : Holds(q, x) /\ x # Head(q) => Behind(q, Head(q), x)
<1> DEFINE n == Len(q)
           r == Tail(q)
<1>1. /\ n \in Nat /\ n >= 1 /\ DOMAIN q = 1..n /\ Head(q) = q[1]
      /\ r \in Seq(S) /\ DOMAIN r = 1..(n - 1) /\ \A i \in 1..(n - 1) : r[i] = q[i + 1]
  BY HeadTailProperties, LenProperties, EmptySeq
<1> HIDE DEF n, r
<1>2. \A i \in 1..(n - 1) : i + 1 \in 1..n /\ i + 1 # 1
  BY <1>1
<1>3. \A m \in 1..n : m # 1 => m - 1 \in 1..(n - 1) /\ r[m - 1] = q[m] /\ 1 < m
  <2> TAKE m \in 1..n
  <2> HAVE m # 1
  <2>1. m - 1 \in 1..(n - 1) /\ (m - 1) + 1 = m
    BY <1>1
  <2> QED BY <1>1, <2>1
<1>4. 1 \in 1..n
  BY <1>1
<1>5. Once(r)
  <2> SUFFICES ASSUME NEW i \in 1..(n - 1), NEW j \in 1..(n - 1), r[i] = r[j]
               PROVE  i = j
    BY <1>1 DEF Once
  <2>1. q[i + 1] = q[j + 1] /\ i + 1 \in 1..n /\ j + 1 \in 1..n
    BY <1>1, <1>2
  <2>2. i + 1 = j + 1
    BY <1>1, <2>1 DEF Once
  <2> QED BY <1>1, <2>2
<1>6. \A x : Holds(r, x) <=> Holds(q, x) /\ x # q[1]
  <2> SUFFICES ASSUME NEW x
               PROVE  Holds(r, x) <=> Holds(q, x) /\ x # q[1]
    OBVIOUS
  <2>1. ASSUME Holds(r, x)
        PROVE  Holds(q, x) /\ x # q[1]
    <3>1. PICK i \in 1..(n - 1) : r[i] = x
      BY <1>1, <2>1 DEF Holds
    <3>2. i + 1 \in DOMAIN q /\ q[i + 1] = x /\ i + 1 # 1
      BY <1>1, <1>2, <3>1
    <3> QED BY <1>1, <1>4, <3>2 DEF Holds, Once
  <2>2. ASSUME Holds(q, x), x # q[1]
        PROVE  Holds(r, x)
    <3>1. PICK m \in 1..n : q[m] = x
      BY <1>1, <2>2 DEF Holds
    <3>2. m - 1 \in DOMAIN r /\ r[m - 1] = x
      BY <1>1, <1>3, <2>2, <3>1
    <3> QED BY <3>2 DEF Holds
  <2> QED BY <2>1, <2>2
<1>7. \A v, x : Behind(r, v, x) => Behind(q, v, x)
  <2> SUFFICES ASSUME NEW v, NEW x, Behind(r, v, x)
               PROVE  Behind(q, v, x)
    OBVIOUS
  <2>1. PICK i \in 1..(n - 1), j \in 1..(n - 1) : i < j /\ r[i] = v /\ r[j] = x
    BY <1>1 DEF Behind
  <2>2. /\ i + 1 \in 1..n /\ j + 1 \in 1..n /\ i + 1 < j + 1
        /\ q[i + 1] = v /\ q[j + 1] = x
    BY <1>1, <2>1
  <2> QED BY <1>1, <2>2 DEF Behind
<1>8. \A x : Holds(q, x) /\ x # q[1] => Behind(q, q[1], x)
  BY <1>1, <1>3, <1>4 DEF Holds, Behind
<1> QED
  BY <1>1, <1>4, <1>5, <1>6, <1>7, <1>8 DEF r, Holds

-----------------------------------------------------------------------------
(* The invariant. *)

\* Whoever an event passed is no longer behind the event task.
PassedIsAhead == \A t \in Thread : Behind(mutex, Task, t) => passed[t] = 0

\* Without a handle there is no task; what it sends has a number.
TaskHasEvent ==
  /\ box = "none" => task = "none"
  /\ task = "sending" => reported >= 1

\* What TypeOK says of the queue, and of the rest.
QueueOK ==
  /\ mutex \in Seq(Thread \union {Task})
  /\ Once(mutex)
  /\ \A t \in Thread : box # "freed" => (call[t] = "waiting" <=> Holds(mutex, t))
  /\ task = "locking" <=> Holds(mutex, Task)

StateOK ==
  /\ box \in {"none", "live", "closing", "freed"}
  /\ task \in {"none", "unlocked", "locking", "sending", "gone"}
  /\ box \in {"closing", "freed"} => task = "gone"
  /\ reported \in 0..MaxEvents
  /\ rx \in Seq(1..MaxEvents)
  /\ call \in [Thread -> {"none", "called", "waiting"}]
  /\ passed \in [Thread -> Nat]

AppStateOK ==
  /\ looper \in Seq(1..MaxEvents) /\ handled \in Seq(1..MaxEvents)
  /\ activity \in {"created", "init", "peer_id", "bootstrap", "running", "closing",
                   "destroyed"}
  /\ drain \in {"unstarted", "testing", "reading", "called", "receiving", "stopped"}

FlagsOK == alive \in BOOLEAN /\ handle \in BOOLEAN /\ draining \in BOOLEAN

LEMMA TypeParts == TypeOK <=> QueueOK /\ StateOK /\ AppStateOK /\ FlagsOK
BY Zenon DEF TypeOK, QueueOK, StateOK, AppStateOK, FlagsOK, Once, Holds

NativeInv == QueueOK /\ StateOK /\ OneEventAtMost /\ PassedIsAhead /\ TaskHasEvent
AppInv == NativeInv /\ AppStateOK /\ FlagsOK /\ EventsInOrder

LEMMA InitInv == Init => AppInv
<1> SUFFICES ASSUME Init PROVE AppInv
  OBVIOUS
<1>1. QueueOK /\ StateOK /\ PassedIsAhead /\ OneEventAtMost /\ TaskHasEvent
  BY FfiAssumption DEF Init, FfiInit, QueueOK, StateOK, PassedIsAhead, OneEventAtMost,
                       TaskHasEvent, Once, Holds, Behind
<1>2. AppStateOK
  <2>1. looper = <<>> /\ handled = <<>> /\ activity = "created" /\ drain = "unstarted"
    BY DEF Init
  <2> QED BY <2>1 DEF AppStateOK
<1>3. FlagsOK
  BY Zenon DEF Init, FlagsOK
<1>4. EventsInOrder
  <2>1. /\ handled = <<>> /\ looper = <<>> /\ rx = <<>> /\ reported = 0 /\ task = "none"
    BY DEF Init, FfiInit
  <2> QED BY <2>1 DEF EventsInOrder, InHand
<1> QED BY <1>1, <1>2, <1>3, <1>4 DEF AppInv, NativeInv

-----------------------------------------------------------------------------
(* The queue: what the steps of the native code keep. *)

LEMMA NativeKept ==
  ASSUME NativeInv, UNCHANGED <<box, mutex, task, reported, call, passed>>,
         rx' \in Seq(1..MaxEvents)
  PROVE  NativeInv'
BY DEF NativeInv, QueueOK, StateOK, OneEventAtMost, PassedIsAhead, TaskHasEvent

\* A thread goes on without having waited, or need not be followed any more.
LEMMA CallKept ==
  ASSUME NativeInv, NEW t \in Thread, NEW c \in {"none", "called"},
         call[t] # "waiting" \/ box = "freed",
         call' = [call EXCEPT ![t] = c], UNCHANGED <<box, mutex, task, reported, rx, passed>>
  PROVE  NativeInv'
<1>1. StateOK' /\ OneEventAtMost' /\ PassedIsAhead' /\ TaskHasEvent'
  BY DEF NativeInv, StateOK, OneEventAtMost, PassedIsAhead, TaskHasEvent
<1>2. QueueOK'
  BY DEF NativeInv, QueueOK, StateOK
<1> QED BY <1>1, <1>2 DEF NativeInv

LEMMA LockPeerInv ==
  ASSUME NativeInv, LockPeer
  PROVE  NativeInv'
<1>1. /\ task = "unlocked" /\ task' = "locking"
      /\ mutex' = Append(mutex, Task)
      /\ UNCHANGED <<box, reported, rx, call, passed>>
  BY DEF LockPeer
<1>2. /\ mutex \in Seq(Thread \union {Task}) /\ Task \in Thread \union {Task}
      /\ Once(mutex) /\ ~Holds(mutex, Task)
  BY <1>1 DEF NativeInv, QueueOK
<1>3. /\ mutex' \in Seq(Thread \union {Task}) /\ Once(mutex')
      /\ \A x : Holds(mutex', x) <=> Holds(mutex, x) \/ x = Task
      /\ \A v, x : Behind(mutex', v, x) => Behind(mutex, v, x) \/ (x = Task /\ Holds(mutex, v))
  BY <1>1, <1>2, QueueUp
<1>4. \A t \in Thread : t # Task
  BY FfiAssumption
<1> QED
  BY <1>1, <1>3, <1>4
     DEF NativeInv, QueueOK, StateOK, OneEventAtMost, PassedIsAhead, TaskHasEvent

LEMMA ReportEventInv ==
  ASSUME NativeInv, ReportEvent
  PROVE  NativeInv' /\ task = "locking" /\ task' = "sending" /\ reported' = reported + 1
<1>1. /\ task = "locking" /\ Head(mutex) = Task /\ reported < MaxEvents
      /\ reported' = reported + 1 /\ task' = "sending"
      /\ mutex' = Tail(mutex)
      /\ passed' = [t \in Thread |-> IF call[t] = "waiting" THEN passed[t] + 1 ELSE 0]
      /\ UNCHANGED <<box, rx, call>>
  BY DEF ReportEvent
<1>2. /\ mutex \in Seq(Thread \union {Task}) /\ Once(mutex) /\ mutex # <<>>
  BY <1>1 DEF NativeInv, QueueOK, Holds
<1>3. /\ mutex' \in Seq(Thread \union {Task}) /\ Once(mutex')
      /\ \A x : Holds(mutex', x) <=> Holds(mutex, x) /\ x # Task
      /\ \A x : Holds(mutex, x) /\ x # Task => Behind(mutex, Task, x)
  BY <1>1, <1>2, Served
<1>4. box # "freed" /\ \A t \in Thread : t # Task
  BY <1>1, FfiAssumption DEF NativeInv, StateOK
<1>5. QueueOK'
  BY <1>1, <1>3, <1>4 DEF NativeInv, QueueOK
<1>6. StateOK' /\ TaskHasEvent'
  BY <1>1, FfiAssumption DEF NativeInv, StateOK, TaskHasEvent
<1>7. \A t \in Thread : call[t] = "waiting" => passed[t] = 0
  BY <1>3, <1>4 DEF NativeInv, QueueOK, PassedIsAhead
<1>8. OneEventAtMost'
  BY <1>1, <1>7 DEF OneEventAtMost
<1>9. ~Holds(mutex', Task)
  BY <1>3
<1>10. PassedIsAhead'
  BY <1>9 DEF PassedIsAhead, Behind, Holds
<1> QED
  BY <1>1, <1>5, <1>6, <1>8, <1>10 DEF NativeInv

LEMMA WaitInv ==
  ASSUME NativeInv, NEW t \in Thread, Wait(t)
  PROVE  NativeInv'
<1>1. /\ call[t] = "called" /\ box \in {"live", "closing"}
      /\ call' = [call EXCEPT ![t] = "waiting"]
      /\ passed' = [passed EXCEPT ![t] = 0]
      /\ mutex' = Append(mutex, t)
      /\ UNCHANGED <<box, task, reported, rx>>
  BY DEF Wait
<1>2. /\ mutex \in Seq(Thread \union {Task}) /\ t \in Thread \union {Task} /\ t # Task
      /\ Once(mutex) /\ ~Holds(mutex, t)
  BY <1>1, FfiAssumption DEF NativeInv, QueueOK
<1>3. /\ mutex' \in Seq(Thread \union {Task}) /\ Once(mutex')
      /\ \A x : Holds(mutex', x) <=> Holds(mutex, x) \/ x = t
      /\ \A v, x : Behind(mutex', v, x) => Behind(mutex, v, x) \/ (x = t /\ Holds(mutex, v))
  BY <1>1, <1>2, QueueUp
<1>4. /\ StateOK'
      /\ \A u \in Thread : IF u = t THEN call'[u] = "waiting" /\ passed'[u] = 0
                                    ELSE call'[u] = call[u] /\ passed'[u] = passed[u]
  BY <1>1 DEF NativeInv, StateOK
<1>5. QueueOK'
  BY <1>1, <1>2, <1>3, <1>4 DEF NativeInv, QueueOK
<1>6. OneEventAtMost' /\ PassedIsAhead' /\ TaskHasEvent'
  BY <1>1, <1>3, <1>4 DEF NativeInv, OneEventAtMost, PassedIsAhead, TaskHasEvent
<1> QED BY <1>4, <1>5, <1>6 DEF NativeInv

LEMMA ActInv ==
  ASSUME NativeInv, NEW t \in Thread, Act(t)
  PROVE  NativeInv'
<1>1. /\ call[t] = "waiting" /\ box \in {"live", "closing"} /\ Head(mutex) = t
      /\ call' = [call EXCEPT ![t] = "none"]
      /\ passed' = [passed EXCEPT ![t] = 0]
      /\ mutex' = Tail(mutex)
      /\ UNCHANGED <<box, task, reported, rx>>
  BY DEF Act
<1>2. /\ mutex \in Seq(Thread \union {Task}) /\ Once(mutex) /\ mutex # <<>> /\ t # Task
  BY <1>1, FfiAssumption DEF NativeInv, QueueOK, Holds
<1>3. /\ mutex' \in Seq(Thread \union {Task}) /\ Once(mutex')
      /\ \A x : Holds(mutex', x) <=> Holds(mutex, x) /\ x # t
      /\ \A v, x : Behind(mutex', v, x) => Behind(mutex, v, x)
  BY <1>1, <1>2, Served
<1>4. /\ StateOK'
      /\ \A u \in Thread : IF u = t THEN call'[u] = "none" /\ passed'[u] = 0
                                    ELSE call'[u] = call[u] /\ passed'[u] = passed[u]
  BY <1>1 DEF NativeInv, StateOK
<1>5. QueueOK'
  BY <1>1, <1>2, <1>3, <1>4 DEF NativeInv, QueueOK
<1>6. OneEventAtMost' /\ PassedIsAhead' /\ TaskHasEvent'
  BY <1>1, <1>3, <1>4 DEF NativeInv, OneEventAtMost, PassedIsAhead, TaskHasEvent
<1> QED BY <1>4, <1>5, <1>6 DEF NativeInv

\* With the runtime the task leaves the queue; whoever waits for the lock is next.
LEMMA DropRuntimeInv ==
  ASSUME NativeInv, DropRuntime
  PROVE  NativeInv'
<1>1. /\ box = "live" /\ task = "locking" /\ box' = "closing" /\ task' = "gone"
      /\ UNCHANGED <<reported, rx, call, passed>>
  BY DEF DropRuntime
<1>2. PICK i \in DOMAIN mutex : mutex[i] = Task /\ mutex' = RemoveAt(mutex, i)
  BY DEF DropRuntime
<1>3. mutex \in Seq(Thread \union {Task}) /\ Once(mutex) /\ \A t \in Thread : t # Task
  BY FfiAssumption DEF NativeInv, QueueOK
<1>4. /\ mutex' \in Seq(Thread \union {Task}) /\ Once(mutex')
      /\ \A x : Holds(mutex', x) <=> Holds(mutex, x) /\ x # Task
      /\ \A v, x : Behind(mutex', v, x) => Behind(mutex, v, x)
  BY <1>2, <1>3, LeaveQueue
<1>5. QueueOK'
  BY <1>1, <1>3, <1>4 DEF NativeInv, QueueOK
<1>6. StateOK' /\ OneEventAtMost' /\ PassedIsAhead' /\ TaskHasEvent'
  BY <1>1, <1>4 DEF NativeInv, StateOK, OneEventAtMost, PassedIsAhead, TaskHasEvent
<1> QED BY <1>5, <1>6 DEF NativeInv

-----------------------------------------------------------------------------
(* The events: what stands where on their way. *)

\* A queue's first element may as well be at the end of the queue before it.
LEMMA HandOn ==
  ASSUME NEW S, NEW q \in Seq(S), NEW r \in Seq(S), r # <<>>
  PROVE  Append(q, Head(r)) \o Tail(r) = q \o r
<1>1. /\ Head(r) \in S /\ Tail(r) \in Seq(S) /\ Len(Tail(r)) = Len(r) - 1
      /\ Append(q, Head(r)) \in Seq(S) /\ Len(Append(q, Head(r))) = Len(q) + 1
      /\ Len(q) \in Nat /\ Len(r) \in Nat \ {0} /\ Head(r) = r[1]
      /\ \A i \in 1..(Len(r) - 1) : Tail(r)[i] = r[i + 1]
      /\ \A i \in 1..Len(q) : Append(q, Head(r))[i] = q[i]
      /\ Append(q, Head(r))[Len(q) + 1] = Head(r)
  BY HeadTailProperties, AppendProperties, LenProperties, EmptySeq
<1> DEFINE a == Append(q, Head(r))
           b == Tail(r)
           n == Len(q)
           m == Len(r)
<1>2. /\ a \o b \in Seq(S) /\ q \o r \in Seq(S)
      /\ Len(a \o b) = n + 1 + (m - 1) /\ Len(q \o r) = n + m
      /\ \A i \in 1..(n + 1 + (m - 1)) : (a \o b)[i] = IF i <= n + 1 THEN a[i] ELSE b[i - (n + 1)]
      /\ \A i \in 1..(n + m) : (q \o r)[i] = IF i <= n THEN q[i] ELSE r[i - n]
  BY <1>1, ConcatProperties
<1>3. ASSUME NEW i \in 1..(n + m)
      PROVE  (a \o b)[i] = (q \o r)[i]
  <2>1. i \in 1..(n + 1 + (m - 1)) /\ n + 1 + (m - 1) = n + m
    BY <1>1
  <2>2. CASE i <= n
    BY <1>1, <1>2, <2>1, <2>2
  <2>3. CASE i = n + 1
    <3>1. (a \o b)[i] = r[1]
      BY <1>1, <1>2, <2>1, <2>3
    <3>2. (q \o r)[i] = r[i - n] /\ i - n = 1
      BY <1>1, <1>2, <2>3
    <3> QED BY <3>1, <3>2
  <2>4. CASE i > n + 1
    <3>1. (a \o b)[i] = b[i - (n + 1)]
      BY <1>1, <1>2, <2>1, <2>4
    <3>2. i - (n + 1) \in 1..(m - 1) /\ (i - (n + 1)) + 1 = i - n
      BY <1>1, <2>4
    <3>3. b[i - (n + 1)] = r[i - n]
      BY <1>1, <3>2
    <3>4. n \in Nat /\ i \in Int /\ ~(i <= n)
      BY <1>1, <2>4
    <3>5. (q \o r)[i] = r[i - n]
      BY <1>2, <3>4
    <3> QED BY <3>1, <3>3, <3>5
  <2> QED BY <1>1, <2>2, <2>3, <2>4
<1>4. Len(a \o b) = Len(q \o r)
  BY <1>1, <1>2
<1> HIDE DEF a, b, n, m
<1>5. a \o b = q \o r
  BY <1>2, <1>3, <1>4, SeqEqual
<1> QED BY <1>5 DEF a, b

\* What was in hand and is sent was the last of them before.
LEMMA SendOn ==
  ASSUME NEW S, NEW q \in Seq(S), NEW r \in Seq(S), NEW e \in S
  PROVE  (q \o Append(r, e)) \o <<>> = (q \o r) \o <<e>>
<1>1. Append(r, e) = r \o <<e>> /\ <<e>> \in Seq(S) /\ Append(r, e) \in Seq(S)
  BY AppendIsConcat, AppendProperties
<1>2. q \o (r \o <<e>>) = (q \o r) \o <<e>>
  BY <1>1, ConcatAssociative
<1>3. q \o Append(r, e) \in Seq(S)
  BY <1>1, ConcatProperties
<1> QED BY <1>1, <1>2, <1>3, ConcatEmptySeq

\* The numbers up to the next one.
LEMMA NextNumber ==
  ASSUME NEW k \in Nat
  PROVE  [n \in 1..k |-> n] \o <<k + 1>> = [n \in 1..(k + 1) |-> n]
<1> DEFINE a == [n \in 1..k |-> n]
           c == [n \in 1..(k + 1) |-> n]
<1>1. a \in Seq(Nat) /\ Len(a) = k /\ <<k + 1>> \in Seq(Nat) /\ Len(<<k + 1>>) = 1
      /\ <<k + 1>>[1] = k + 1 /\ c \in Seq(Nat) /\ Len(c) = k + 1
  OBVIOUS
<1>2. \A i \in 1..(k + 1) : c[i] = i
  OBVIOUS
<1>3. \A i \in 1..k : a[i] = i
  OBVIOUS
<1> HIDE DEF a, c
<1>4. /\ a \o <<k + 1>> \in Seq(Nat) /\ Len(a \o <<k + 1>>) = k + 1
      /\ \A i \in 1..(k + 1) : (a \o <<k + 1>>)[i] = IF i <= k THEN a[i] ELSE <<k + 1>>[i - k]
  BY <1>1, ConcatProperties
<1>5. ASSUME NEW i \in 1..(k + 1)
      PROVE  (a \o <<k + 1>>)[i] = c[i]
  <2>1. CASE i <= k
    BY <1>2, <1>3, <1>4, <2>1
  <2>2. CASE i = k + 1
    <3>1. i - k = 1 /\ ~(i <= k)
      BY <2>2
    <3>2. (a \o <<k + 1>>)[i] = <<k + 1>>[1]
      BY <1>4, <3>1
    <3>3. c[i] = k + 1
      BY <1>2, <2>2
    <3> QED BY <1>1, <3>2, <3>3
  <2>3. i <= k \/ i = k + 1
    OBVIOUS
  <2> QED BY <2>1, <2>2, <2>3
<1>6. a \o <<k + 1>> = c
  BY <1>1, <1>4, <1>5, SeqEqual
<1> QED BY <1>6 DEF a, c

\* A step that moves no event.
LEMMA EventsKept ==
  ASSUME EventsInOrder, UNCHANGED <<handled, looper, rx, reported>>, InHand' = InHand,
         box' # "freed" /\ alive' => box # "freed" /\ alive
  PROVE  EventsInOrder'
BY DEF EventsInOrder

\* The native code's own steps move events as they should.
LEMMA NativeEvents ==
  ASSUME AppInv, alive, UNCHANGED <<handled, looper, alive>>, SendEvent \/ ReportEvent
  PROVE  EventsInOrder'
<1> DEFINE q == handled \o looper
           S == Nat
<1>1. /\ q \in Seq(S) /\ rx \in Seq(S) /\ q \o rx \in Seq(S) /\ reported \in Nat
  <2>1. handled \in Seq(S) /\ looper \in Seq(S) /\ rx \in Seq(S) /\ reported \in Nat
    <3>1. 1..MaxEvents \subseteq S
      BY FfiAssumption
    <3> QED BY <3>1, SeqMonotonic, FfiAssumption DEF AppInv, NativeInv, StateOK, AppStateOK
  <2> QED BY <2>1, ConcatProperties
<1>2. /\ q' = q
      /\ box' # "freed" => q \o rx \o InHand = [n \in 1..reported |-> n]
  BY DEF AppInv, EventsInOrder, SendEvent, ReportEvent
<1> HIDE DEF q
<1>3. CASE SendEvent
  <2>1. /\ task = "sending" /\ task' = "unlocked" /\ rx' = Append(rx, reported)
        /\ reported' = reported
    BY <1>3 DEF SendEvent
  <2>2. InHand = <<reported>> /\ InHand' = <<>>
    BY <2>1 DEF InHand
  <2>3. (q \o rx') \o InHand' = (q \o rx) \o InHand
    BY <1>1, <2>1, <2>2, SendOn
  <2> QED
    BY <1>2, <2>1, <2>3 DEF EventsInOrder, q
<1>4. CASE ReportEvent
  <2>1. /\ task = "locking" /\ task' = "sending" /\ rx' = rx /\ reported' = reported + 1
    BY <1>4 DEF ReportEvent
  <2>2. InHand = <<>> /\ InHand' = <<reported + 1>>
    BY <2>1 DEF InHand
  <2>3. (q \o rx) \o InHand = q \o rx
    BY <1>1, <2>2, ConcatEmptySeq
  <2> QED
    BY <1>1, <1>2, <2>1, <2>2, <2>3, NextNumber DEF EventsInOrder, q
<1> QED BY <1>3, <1>4

LEMMA PostEventInv ==
  ASSUME AppInv, PostEvent, UNCHANGED alive
  PROVE  AppInv'
<1>1. /\ rx # <<>> /\ rx' = Tail(rx) /\ looper' = Append(looper, Head(rx))
      /\ drain' = "testing"
      /\ UNCHANGED <<box, mutex, task, reported, call, passed, activity, handle, draining,
                     handled>>
  BY DEF PostEvent
<1>2. /\ rx \in Seq(1..MaxEvents) /\ looper \in Seq(1..MaxEvents)
      /\ handled \in Seq(1..MaxEvents)
  BY DEF AppInv, NativeInv, StateOK, AppStateOK
<1>3. rx' \in Seq(1..MaxEvents) /\ looper' \in Seq(1..MaxEvents)
  BY <1>1, <1>2, HeadTailProperties, AppendProperties
<1>4. NativeInv'
  BY <1>1, <1>3, NativeKept DEF AppInv
<1>5. AppStateOK' /\ FlagsOK'
  BY <1>1, <1>3 DEF AppInv, AppStateOK, FlagsOK
<1>6. (handled \o looper') \o rx' = (handled \o looper) \o rx
  <2>1. (handled \o looper') \o rx' = handled \o (looper' \o rx')
    BY <1>2, <1>3, ConcatAssociative
  <2>2. (handled \o looper) \o rx = handled \o (looper \o rx)
    BY <1>2, ConcatAssociative
  <2>3. looper' \o rx' = looper \o rx
    BY <1>1, <1>2, HandOn
  <2> QED BY <2>1, <2>2, <2>3
<1>7. InHand' = InHand
  BY <1>1 DEF InHand
<1>8. EventsInOrder'
  BY <1>1, <1>6, <1>7 DEF AppInv, EventsInOrder
<1> QED BY <1>4, <1>5, <1>8 DEF AppInv

LEMMA OnEventInv ==
  ASSUME AppInv, alive, OnEvent
  PROVE  AppInv'
<1>1. /\ looper # <<>> /\ looper' = Tail(looper)
      /\ UNCHANGED <<ffiVars, activity, handle, draining, drain>>
      /\ \/ alive' = FALSE /\ handled' = handled
         \/ alive' = alive /\ handled' = Append(handled, Head(looper))
  BY DEF OnEvent
<1>2. looper \in Seq(1..MaxEvents) /\ handled \in Seq(1..MaxEvents)
      /\ rx \in Seq(1..MaxEvents)
  BY DEF AppInv, NativeInv, StateOK, AppStateOK
<1>3. looper' \in Seq(1..MaxEvents) /\ handled' \in Seq(1..MaxEvents)
  <2>1. Tail(looper) \in Seq(1..MaxEvents) /\ Head(looper) \in 1..MaxEvents
    BY <1>1, <1>2, HeadTailProperties
  <2>2. Append(handled, Head(looper)) \in Seq(1..MaxEvents)
    BY <1>2, <2>1, AppendProperties
  <2> QED BY <1>1, <1>2, <2>1, <2>2
<1>4. NativeInv'
  BY <1>1, <1>2, NativeKept DEF AppInv, ffiVars
<1>5. AppStateOK'
  BY <1>1, <1>3 DEF AppInv, AppStateOK
<1>6. FlagsOK'
  BY <1>1, Zenon DEF AppInv, FlagsOK
<1>7. EventsInOrder'
  <2>1. CASE alive' = FALSE
    BY <2>1 DEF EventsInOrder
  <2>2. CASE handled' = Append(handled, Head(looper))
    <3>1. handled' \o looper' = handled \o looper
      BY <1>1, <1>2, <2>2, HandOn
    <3>2. UNCHANGED <<box, rx, reported, task>>
      BY <1>1 DEF ffiVars
    <3>3. InHand' = InHand
      BY <3>2 DEF InHand
    <3> QED
      BY <3>1, <3>2, <3>3 DEF AppInv, EventsInOrder
  <2> QED BY <1>1, <2>1, <2>2
<1> QED BY <1>4, <1>5, <1>6, <1>7 DEF AppInv

-----------------------------------------------------------------------------
(* The other steps, one by one. *)

\* A thread of the application takes a step of its own.
LEMMA AppStepInv ==
  ASSUME AppInv, UNCHANGED <<ffiVars, alive, looper, handled>>,
         \/ OpenFails \/ DrainEvents \/ Close
         \/ TestDraining \/ ReadHandle \/ Receive \/ ChannelClosed
  PROVE  AppInv'
<1>1. NativeInv'
  BY NativeKept DEF AppInv, NativeInv, StateOK, ffiVars
<1>2. AppStateOK'
  BY DEF AppInv, AppStateOK, OpenFails, DrainEvents, Close, TestDraining, ReadHandle,
         Receive, ChannelClosed
<1>3. FlagsOK'
  BY Zenon DEF AppInv, FlagsOK, OpenFails, DrainEvents, Close, TestDraining, ReadHandle,
         Receive, ChannelClosed
<1>4. EventsInOrder'
  BY EventsKept DEF AppInv, ffiVars, InHand
<1> QED BY <1>1, <1>2, <1>3, <1>4 DEF AppInv

\* A step of the native code that leaves the application where it is.
LEMMA NativeStepInv ==
  ASSUME AppInv, alive, UNCHANGED <<appVars, alive>>, NEW t \in Thread,
         \/ LockPeer \/ SendEvent \/ ReportEvent \/ CallAction(t) \/ CallStep(t)
  PROVE  AppInv'
<1>1. AppStateOK' /\ FlagsOK' /\ UNCHANGED <<handled, looper, alive>>
  BY Zenon DEF AppInv, AppStateOK, FlagsOK, appVars
<1>2. CASE LockPeer
  <2>1. NativeInv'
    BY <1>2, LockPeerInv DEF AppInv
  <2>2. EventsInOrder'
    BY <1>1, <1>2, EventsKept DEF AppInv, LockPeer, InHand
  <2> QED BY <1>1, <2>1, <2>2 DEF AppInv
<1>3. CASE SendEvent
  <2>1. task = "sending" /\ task' = "unlocked" /\ rx' = Append(rx, reported)
        /\ UNCHANGED <<box, mutex, reported, call, passed>>
    BY <1>3 DEF SendEvent
  <2>2. reported \in 1..MaxEvents /\ rx \in Seq(1..MaxEvents)
    BY <2>1, FfiAssumption DEF AppInv, NativeInv, StateOK, TaskHasEvent
  <2>3. rx' \in Seq(1..MaxEvents)
    BY <2>1, <2>2, AppendProperties
  <2>4. NativeInv'
    BY <2>1, <2>3
       DEF AppInv, NativeInv, QueueOK, StateOK, OneEventAtMost, PassedIsAhead, TaskHasEvent
  <2> QED BY <1>1, <1>3, <2>4, NativeEvents DEF AppInv
<1>4. CASE ReportEvent
  BY <1>1, <1>4, ReportEventInv, NativeEvents DEF AppInv
<1>5. CASE CallAction(t)
  <2>1. NativeInv'
    BY <1>5, CallKept DEF CallAction, AppInv
  <2>2. EventsInOrder'
    BY <1>1, <1>5, EventsKept DEF AppInv, CallAction, InHand
  <2> QED BY <1>1, <2>1, <2>2 DEF AppInv
<1>6. CASE CallStep(t)
  <2>1. ASSUME BadArgument(t)
        PROVE  NativeInv'
    BY <2>1, CallKept DEF BadArgument, AppInv
  <2>2. NativeInv'
    BY <1>6, <2>1, WaitInv, ActInv DEF CallStep, AppInv
  <2>3. UNCHANGED <<box, task, reported, rx>>
    BY <1>6 DEF CallStep, BadArgument, Wait, Act
  <2>4. EventsInOrder'
    BY <1>1, <2>3, EventsKept DEF AppInv, InHand
  <2> QED BY <1>1, <2>2, <2>4 DEF AppInv
<1> QED BY <1>2, <1>3, <1>4, <1>5, <1>6

\* onCreate gets a handle; nothing has happened on it yet.
LEMMA OpenInv ==
  ASSUME AppInv, UNCHANGED alive, Open
  PROVE  AppInv'
<1>1. /\ box = "none" /\ box' = "live" /\ task' = "unlocked"
      /\ activity' = "init" /\ handle' = TRUE
      /\ UNCHANGED <<mutex, reported, rx, call, passed, draining, drain, looper, handled>>
  BY DEF Open, PeerInit
<1>2. task = "none"
  BY <1>1 DEF AppInv, NativeInv, TaskHasEvent
<1>3. NativeInv'
  BY <1>1, <1>2 DEF AppInv, NativeInv, QueueOK, StateOK, OneEventAtMost, PassedIsAhead,
                    TaskHasEvent
<1>4. AppStateOK'
  BY <1>1 DEF AppInv, AppStateOK
<1>5. FlagsOK'
  BY <1>1, Zenon DEF AppInv, FlagsOK
<1>6. EventsInOrder'
  BY <1>1, <1>2, EventsKept DEF AppInv, InHand
<1> QED BY <1>3, <1>4, <1>5, <1>6 DEF AppInv

\* init and onCreate make their calls one after the other.
LEMMA StartUpInv ==
  ASSUME AppInv, UNCHANGED alive,
         StartUp("init", "peer_id") \/ StartUp("peer_id", "bootstrap")
  PROVE  AppInv'
<1>1. /\ Main \in Thread /\ call[Main] = "none" /\ call' = [call EXCEPT ![Main] = "called"]
      /\ activity' \in {"peer_id", "bootstrap"}
      /\ UNCHANGED <<box, mutex, task, reported, rx, passed, handle, draining, drain,
                     looper, handled>>
  BY AndroidAssumption DEF StartUp
<1>2. NativeInv'
  BY <1>1, CallKept DEF AppInv
<1>3. AppStateOK' /\ FlagsOK'
  BY <1>1 DEF AppInv, AppStateOK, FlagsOK
<1>4. EventsInOrder'
  BY <1>1, EventsKept DEF AppInv, InHand
<1> QED BY <1>2, <1>3, <1>4 DEF AppInv

\* nFree, with whoever is inside the native code.
LEMMA FreeInv ==
  ASSUME AppInv, UNCHANGED alive, Free
  PROVE  AppInv'
<1>1. /\ activity' \in {activity, "destroyed"}
      /\ UNCHANGED <<handle, draining, drain, looper, handled>>
  BY DEF Free
<1>2. AppStateOK' /\ FlagsOK'
  BY <1>1 DEF AppInv, AppStateOK, FlagsOK
<1>3. CASE DropRuntime
  <2>1. task = "locking" /\ task' = "gone" /\ box = "live" /\ UNCHANGED <<reported, rx>>
    BY <1>3 DEF DropRuntime
  <2>2. EventsInOrder'
    BY <1>1, <2>1, EventsKept DEF AppInv, InHand
  <2> QED BY <1>2, <1>3, <2>2, DropRuntimeInv DEF AppInv
<1>4. CASE DropHandle
  <2>1. /\ box = "closing" /\ box' = "freed" /\ rx' = <<>>
        /\ UNCHANGED <<mutex, task, reported, call, passed>>
    BY <1>4 DEF DropHandle
  <2>2. NativeInv'
    BY <2>1 DEF AppInv, NativeInv, QueueOK, StateOK, OneEventAtMost, PassedIsAhead,
                TaskHasEvent
  <2>3. EventsInOrder'
    BY <2>1 DEF EventsInOrder
  <2> QED BY <1>2, <2>2, <2>3 DEF AppInv
<1> QED BY <1>3, <1>4 DEF Free

\* Once the handle is freed nothing is promised of events.
LEMMA UndefinedInv ==
  ASSUME AppInv, alive, Undefined
  PROVE  AppInv'
<1>1. CASE UndefinedReceive
  <2>1. /\ box = "freed" /\ drain' \in {drain, "stopped"}
        /\ UNCHANGED <<ffiVars, activity, handle, draining, looper, handled>>
    BY <1>1 DEF UndefinedReceive
  <2>2. NativeInv'
    BY <2>1, NativeKept DEF AppInv, NativeInv, StateOK, ffiVars
  <2>3. AppStateOK'
    BY <2>1 DEF AppInv, AppStateOK
  <2>4. FlagsOK'
    BY <1>1, <2>1, Zenon DEF AppInv, FlagsOK, UndefinedReceive
  <2>5. EventsInOrder'
    BY <2>1 DEF EventsInOrder, ffiVars
  <2> QED BY <2>2, <2>3, <2>4, <2>5 DEF AppInv
<1>2. ASSUME NEW t \in Thread, UndefinedCall(t)
      PROVE  AppInv'
  <2>1. /\ box = "freed"
        /\ call' = call \/ call' = [call EXCEPT ![t] = "none"]
        /\ UNCHANGED <<box, mutex, task, reported, rx, passed, activity, handle, draining,
                       drain, looper, handled>>
    BY <1>2 DEF UndefinedCall, appVars
  <2>2. NativeInv'
    <3>1. CASE call' = call
      BY <2>1, <3>1, NativeKept DEF AppInv, NativeInv, StateOK
    <3>2. CASE call' = [call EXCEPT ![t] = "none"]
      BY <2>1, <3>2, CallKept DEF AppInv
    <3> QED BY <2>1, <3>1, <3>2
  <2>3. AppStateOK'
    BY <2>1 DEF AppInv, AppStateOK
  <2>4. FlagsOK'
    BY <1>2, <2>1, Zenon DEF AppInv, FlagsOK, UndefinedCall
  <2>5. EventsInOrder'
    BY <2>1 DEF EventsInOrder
  <2> QED BY <2>2, <2>3, <2>4, <2>5 DEF AppInv
<1> QED BY <1>1, <1>2 DEF Undefined

\* A process that ends at init leaves everything as it was.
LEMMA AbortInv ==
  ASSUME AppInv, OpenAborts
  PROVE  AppInv'
<1>1. alive' = FALSE /\ UNCHANGED <<ffiVars, appVars>>
  BY DEF OpenAborts, PeerPanics
<1>2. NativeInv'
  BY <1>1, NativeKept DEF ffiVars, AppInv, NativeInv, StateOK
<1>3. AppStateOK' /\ FlagsOK'
  BY <1>1 DEF appVars, AppInv, AppStateOK, FlagsOK
<1>4. EventsInOrder'
  BY <1>1 DEF EventsInOrder
<1> QED BY <1>2, <1>3, <1>4 DEF AppInv

LEMMA StepInv == AppInv /\ [Next]_vars => AppInv'
<1> SUFFICES ASSUME AppInv, [Next]_vars PROVE AppInv'
  OBVIOUS
<1>1. CASE UNCHANGED vars
  <2>1. NativeInv'
    BY <1>1, NativeKept DEF vars, ffiVars, AppInv, NativeInv, StateOK
  <2>2. AppStateOK' /\ FlagsOK'
    BY <1>1 DEF vars, appVars, AppInv, AppStateOK, FlagsOK
  <2>3. EventsInOrder'
    BY <1>1, EventsKept DEF vars, appVars, ffiVars, AppInv, InHand
  <2> QED BY <2>1, <2>2, <2>3 DEF AppInv
<1>2. ASSUME alive, UNCHANGED alive,
             \/ OpenFails \/ DrainEvents \/ Close
             \/ TestDraining \/ ReadHandle \/ Receive \/ ChannelClosed
      PROVE  AppInv'
  <2>1. UNCHANGED <<ffiVars, alive, looper, handled>>
    BY <1>2 DEF OpenFails, DrainEvents, Close, TestDraining, ReadHandle, Receive,
                ChannelClosed
  <2> QED BY <1>2, <2>1, AppStepInv
<1>3. ASSUME alive, UNCHANGED alive,
             \/ TaskStep \/ (ReportEvent /\ UNCHANGED appVars)
             \/ \E t \in Thread : CallAction(t) \/ CallStep(t)
      PROVE  AppInv'
  <2>1. \E t : t \in Thread
    BY AndroidAssumption
  <2>2. UNCHANGED <<appVars, alive>>
    BY <1>3 DEF TaskStep, CallAction, CallStep
  <2> QED BY <1>3, <2>1, <2>2, NativeStepInv DEF TaskStep
<1>4. ASSUME Next PROVE AppInv'
  BY <1>2, <1>3, <1>4, OpenInv, StartUpInv, FreeInv, PostEventInv, OnEventInv, UndefinedInv,
     AbortInv
     DEF Next, MainStep, DrainStep
<1> QED BY <1>1, <1>4

LEMMA AppAlways == Spec => []AppInv
BY InitInv, StepInv, PTL DEF Spec

-----------------------------------------------------------------------------
\* The variables hold values of the expected kinds; a thread is in the mutex's
\* queue exactly while it waits, and the event task while it wants the peer.
THEOREM TypeCorrect == Spec => []TypeOK
<1>1. AppInv => TypeOK
  BY TypeParts DEF AppInv, NativeInv
<1> QED BY <1>1, AppAlways, PTL

\* lib.rs, the event task: however many threads wait, and whoever else does, an
\* action gets the peer after one event at most.
THEOREM OneEventPasses == Spec => []OneEventAtMost
<1>1. AppInv => OneEventAtMost
  BY DEF AppInv, NativeInv
<1> QED BY <1>1, AppAlways, PTL

\* lib.rs and MainActivity.kt: as long as the handle is not freed, the events go
\* through the task, the channel and the looper to onEvent in the order in which
\* they were reported, each once.
THEOREM EventsKeepOrder == Spec => []EventsInOrder
<1>1. AppInv => EventsInOrder
  BY DEF AppInv
<1> QED BY <1>1, AppAlways, PTL

=============================================================================
