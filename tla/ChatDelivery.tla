---------------------------- MODULE ChatDelivery ----------------------------
(***************************************************************************)
(* The chat path of rust-core's Peer (network.rs): send_chat, the          *)
(* translation of the chat behaviour's events, and the queue of pending    *)
(* messages per destination, chat_outbound, by which a response is         *)
(* matched with a message.  Peers talk through RequestResponse.            *)
(*                                                                         *)
(* A message's text is abstracted to its length in bytes.  The limit is a  *)
(* constant of each peer's build, so that peers of two releases, whose     *)
(* limits differ, can be put together.                                     *)
(***************************************************************************)
EXTENDS RequestResponse, SequencesExt

CONSTANTS
  Size,           \* Size[m]: the length of m's text
  MaxChatBytes,   \* MaxChatBytes[p]: MAX_CHAT_MESSAGE_BYTES in p's build
  None,           \* the absent option
  MaxRestarts     \* bound on the number of process restarts explored

ASSUME SizeAssumption ==
  /\ Size \in [Msg -> Nat]
  /\ MaxChatBytes \in [Peer -> Nat]
  /\ None \notin Msg
  /\ MaxRestarts \in Nat

VARIABLES
  chat_outbound,  \* chat_outbound[p][q]: p's queue of messages sent to q
  restarts,       \* how many times a process was restarted
  \* What the applications were told by next_event; never read by an action.
  received,       \* ChatMessageReceived, at the destination
  delivered,      \* delivered[m]: number of ChatMessageDelivered naming m
  errored,        \* errored[m]: number of ChatError naming m
  unnamed         \* the messages whose ChatError had an empty message_id

chatVars == <<chat_outbound, restarts, received, delivered, errored, unnamed>>
vars == <<rrVars, chatVars>>

\* is_valid at the receiving peer q.
Valid(m, q) == Size[m] \in 1 .. MaxChatBytes[q]

OkAck(m) == [ok |-> TRUE, message_id |-> m]
NokAck == [ok |-> FALSE, message_id |-> None]
ChatAck == [ok : BOOLEAN, message_id : Msg \union {None}]

Init ==
  /\ RRInit
  /\ chat_outbound = [p \in Peer |-> [q \in Peer |-> <<>>]]
  /\ restarts = 0
  /\ received = {}
  /\ delivered = [m \in Msg |-> 0]
  /\ errored = [m \in Msg |-> 0]
  /\ unnamed = {}

\* send_chat: an empty or too long text is refused before anything is done.
SendChat(m) ==
  /\ Size[m] \in 1 .. MaxChatBytes[From[m]]
  /\ SendRequest(m)
  /\ chat_outbound' = [chat_outbound EXCEPT ![From[m]][To[m]] = Append(@, m)]
  /\ UNCHANGED <<restarts, received, delivered, errored, unnamed>>

\* Mutant: the message is acknowledged, but not handed over.
OnRequest_NotHandedOver(m) == Valid(m, To[m]) /\ TakeRequest(m, OkAck(m)) /\ UNCHANGED chatVars

\* A valid request is acknowledged and handed to the application.
OnRequest(m) ==
  /\ Valid(m, To[m])
  /\ TakeRequest(m, OkAck(m))
  /\ received' = received \union {m}
  /\ UNCHANGED <<chat_outbound, restarts, delivered, errored, unnamed>>

\* An invalid one is refused, and the application hears nothing of it.
OnInvalidRequest(m) ==
  /\ ~Valid(m, To[m])
  /\ TakeRequest(m, NokAck)
  /\ UNCHANGED chatVars

\* Mutant: an acknowledgement takes the whole queue.
TakeOutbound_All(queue) == <<>>

\* take_chat_outbound: the queue without its oldest entry, if it has one.
TakeOutbound(queue) == IF queue = <<>> THEN queue ELSE Tail(queue)

\* An acknowledgement pops the oldest entry, whichever message it is about; the
\* event names the message the acknowledgement names, and nothing is reported
\* when there was no entry.
OnAck(r) ==
  LET p == From[r.id]
      q == To[r.id]
      queue == chat_outbound[p][q]
      mid == IF r.ack.message_id # None THEN r.ack.message_id ELSE Head(queue)
  IN /\ r.ack.ok
     /\ TakeResponse(r, "acked")
     /\ chat_outbound' = [chat_outbound EXCEPT ![p][q] = TakeOutbound(@)]
     /\ delivered' = IF queue = <<>> THEN delivered
                                     ELSE [delivered EXCEPT ![mid] = @ + 1]
     /\ UNCHANGED <<restarts, received, errored, unnamed>>

\* A refusal is dropped: no event, and the queue keeps its entry.
OnNok(r) ==
  /\ ~r.ack.ok
  /\ TakeResponse(r, "refused")
  /\ UNCHANGED chatVars

\* Mutant: the entries older than m's go with it.
RemoveEntry_AndOlder(queue, m) ==
  IF m \in ToSet(queue)
    THEN SubSeq(queue, 1 + CHOOSE i \in DOMAIN queue : queue[i] = m, Len(queue))
    ELSE queue

\* The queue without m's entry; request ids are distinct, so there is one at most.
RemoveEntry(queue, m) ==
  IF m \in ToSet(queue)
    THEN RemoveAt(queue, CHOOSE i \in DOMAIN queue : queue[i] = m)
    ELSE queue

\* Mutant: the entry is looked up, and stays.
OnFailure_KeepsEntry(m) ==
  LET known == m \in ToSet(chat_outbound[From[m]][To[m]])
  IN /\ FailRequest(m)
     /\ errored' = IF known THEN [errored EXCEPT ![m] = @ + 1] ELSE errored
     /\ unnamed' = IF known THEN unnamed ELSE unnamed \union {m}
     /\ UNCHANGED <<chat_outbound, restarts, received, delivered>>

\* Mutant: a failure whose entry is gone is not reported.
OnFailure_KnownOnly(m) ==
  LET p == From[m]
      q == To[m]
  IN /\ FailRequest(m)
     /\ chat_outbound' = [chat_outbound EXCEPT ![p][q] = RemoveEntry(@, m)]
     /\ errored' = IF m \in ToSet(chat_outbound[p][q])
                     THEN [errored EXCEPT ![m] = @ + 1] ELSE errored
     /\ UNCHANGED <<restarts, received, delivered, unnamed>>

\* A failed request is looked up by its own id; when its entry is gone the
\* error is reported with an empty message id.
OnFailure(m) ==
  LET p == From[m]
      q == To[m]
      known == m \in ToSet(chat_outbound[p][q])
  IN /\ FailRequest(m)
     /\ chat_outbound' = [chat_outbound EXCEPT ![p][q] = RemoveEntry(@, m)]
     /\ errored' = IF known THEN [errored EXCEPT ![m] = @ + 1] ELSE errored
     /\ unnamed' = IF known THEN unnamed ELSE unnamed \union {m}
     /\ UNCHANGED <<restarts, received, delivered>>

\* p's process ends and a new one starts: its queues live in memory only.
Restart(p) ==
  /\ restarts < MaxRestarts
  /\ DropPeer(p)
  /\ restarts' = restarts + 1
  /\ chat_outbound' = [chat_outbound EXCEPT ![p] = [q \in Peer |-> <<>>]]
  /\ UNCHANGED <<received, delivered, errored, unnamed>>

Next ==
  \/ \E m \in Msg :
       SendChat(m) \/ OnRequest(m) \/ OnInvalidRequest(m) \/ OnFailure(m)
  \/ \E r \in response : OnAck(r) \/ OnNok(r)
  \/ \E p \in Peer : Restart(p)

Spec == Init /\ [][Next]_vars

\* libp2p's request timeout gives every request an outcome as long as the
\* application keeps calling next_event; nothing makes a request arrive.
Outcome(m) ==
  OnFailure(m) \/ \E r \in response : r.id = m /\ (OnAck(r) \/ OnNok(r))

FairSpec == Spec /\ \A m \in Msg : WF_vars(Outcome(m))

-----------------------------------------------------------------------------
\* A queue of p's messages to q.
QueueOK(p, q, queue) ==
  /\ IsInjective(queue)
  /\ \A m \in ToSet(queue) :
       From[m] = p /\ To[m] = q /\ status[m] \in {"waiting", "acked", "refused"}

\* The variables hold values of the expected kinds, and a queue represents what
\* its peer has sent: it holds messages of its own pair of peers, each once, and
\* none whose request has failed or was made by an earlier process (remove by
\* request id in OutboundFailure, which must find its entry wherever
\* acknowledgements of other messages have left it).
TypeOK ==
  /\ status \in [Msg -> Status]
  /\ request \subseteq Msg
  /\ response \subseteq [id : Msg, ack : ChatAck]
  /\ chat_outbound \in [Peer -> [Peer -> Seq(Msg)]]
  /\ \A p, q \in Peer : QueueOK(p, q, chat_outbound[p][q])
  /\ restarts \in Nat
  /\ received \subseteq Msg
  /\ delivered \in [Msg -> Nat]
  /\ errored \in [Msg -> Nat]
  /\ unnamed \subseteq Msg

\* However outcomes overtake one another, p's queue for q never holds fewer
\* entries than p has requests to q outstanding.  This is what makes it safe to
\* pop an entry that belongs to another message (take_chat_outbound).
QueueCoversWaiting ==
  \A p, q \in Peer : Cardinality(Waiting(p, q)) <= Len(chat_outbound[p][q])

\* A message is reported delivered exactly once when its own acknowledgement
\* came back, never otherwise, and only if its destination's application was
\* given it: neither a queue popped by other messages' acknowledgements nor an
\* overtaken request makes the report wrong or lost.
DeliveryReports ==
  \A m \in Msg :
    /\ delivered[m] = IF status[m] = "acked" THEN 1 ELSE 0
    /\ delivered[m] > 0 => m \in received

\* The number of ChatError events about m, whether or not they name it.
Errors(m) == errored[m] + IF m \in unnamed THEN 1 ELSE 0

\* Every failed request leads to exactly one error, naming its message or, when
\* another message's acknowledgement has taken its entry, with an empty id, and
\* only a message that failed or was refused is ever reported as an error
\* (OutboundFailure).  Whether a refusal is reported is left open: the code does
\* not, where the comment on ChatError would have it.
FailureReports ==
  \A m \in Msg :
    /\ Errors(m) <= 1
    /\ status[m] = "failed" => Errors(m) = 1
    /\ Errors(m) = 1 => status[m] \in {"failed", "refused"}

\* What is on the wire: a request not sent yet or still travelling has not been
\* received and has no response; a positive acknowledgement names its own
\* request, which the destination's application was given.
WireInv ==
  /\ \A m \in Msg : status[m] = "unsent" =>
                      m \notin received /\ \A r \in response : r.id # m
  /\ \A m \in request : /\ status[m] \in {"waiting", "failed"}
                        /\ m \notin received
                        /\ \A r \in response : r.id # m
  /\ \A r \in response : r.ack.ok => r.ack.message_id = r.id /\ r.id \in received

\* What the comment on chat_outbound says: it holds pending messages.
QueueHoldsPending ==
  \A p, q \in Peer : ToSet(chat_outbound[p][q]) \subseteq Waiting(p, q)

\* Every message that was sent and not refused is eventually reported on, by a
\* delivery or by an error, unless its sender's process ends first.
EventuallyReported ==
  \A m \in Msg :
    status[m] = "waiting" ~>
      \/ delivered[m] = 1
      \/ errored[m] = 1 \/ m \in unnamed
      \/ status[m] \in {"refused", "abandoned"}

\* What the application is promised, whatever is inside: see ChatService.
Verdict(m) ==
  IF delivered[m] > 0 THEN "delivered"
  ELSE IF errored[m] > 0 \/ m \in unnamed THEN "failed"
  ELSE IF status[m] = "unsent" THEN "unsent"
  ELSE IF status[m] \in {"refused", "abandoned"} THEN "unknown"
  ELSE "pending"

Service == INSTANCE ChatService WITH
             arrived <- received,
             verdict <- [m \in Msg |-> Verdict(m)]

\* The chat path implements the service.
ServiceSpec == Service!Spec

=============================================================================
