-------------------------------- MODULE Relay --------------------------------
(***************************************************************************)
(* The in-memory reference relay: crates/cofferwire-relay/src/lib.rs.      *)
(*                                                                         *)
(* `queues' is the HashMap of queues (None for a vacant entry); a queue's  *)
(* messages are its VecDeque, front first.  Every command leaves its       *)
(* result in `reply'.  A command that is refused after authorization still *)
(* keeps the expiry cleanup it did: nothing rolls back here.               *)
(***************************************************************************)
EXTENDS QueueProtocol, Sequences

CONSTANT Requests   \* the requests the environment may submit

VARIABLES queues, reply
vars == <<queues, reply>>

Message == [id : MessageIds, payload : Payloads, expires_at : Timestamps,
            delivered : BOOLEAN]

Init == /\ queues = [id \in QueueIds |-> None]
        /\ reply = None

Answer(request, now, result) ==
  reply' = [request |-> request, now |-> now, result |-> result]

\* VecDeque::retain: the messages at the places of those that are kept.
DiscardExpired(messages, now) ==
  LET kept == Ascending({i \in DOMAIN messages : messages[i].expires_at > now})
  IN  [k \in DOMAIN kept |-> messages[kept[k]]]

CreateQueueResult(r) ==
  IF queues[r.queue] = None THEN Status("Created")
  ELSE IF queues[r.queue].config = r.config THEN Status("AlreadyExists")
  ELSE Status("QueueIdConflict")

CreateQueue(r, now) ==
  /\ r \in CreateQueueRequest
  /\ Answer(r, now, CreateQueueResult(r))
  /\ queues' = IF queues[r.queue] = None
               THEN [queues EXCEPT ![r.queue] =
                       [config |-> r.config, messages |-> <<>>]]
               ELSE queues

\* A queue exists and the principal holds the named role in it; otherwise the
\* command ends here with `queues' untouched.
Refusal(id, role, principal) ==
  IF queues[id] = None THEN {Status("QueueNotFound")}
  ELSE IF queues[id].config[role] # principal THEN {Status("Unauthorized")}
  ELSE {}

SendResult(r, now, live) ==
  LET config == queues[r.queue].config
      same == {i \in DOMAIN live : live[i].id = r.message}
  IN  IF same # {} THEN
        IF \A i \in same : live[i].payload = r.payload
        THEN Status("Duplicate") ELSE Status("MessageIdConflict")
      ELSE IF PayloadLen[r.payload] > config.max_message_bytes
        THEN Status("MessageTooLarge")
      ELSE IF Len(live) >= config.max_messages THEN Status("QueueFull")
      ELSE IF now + r.ttl > MaxTimestamp THEN Status("ExpiryOverflow")
      ELSE Status("Accepted")

Send(r, now) ==
  /\ r \in SendRequest /\ r.ttl # 0
  /\ \/ /\ \E refusal \in Refusal(r.queue, "sender", r.sender) :
             Answer(r, now, refusal)
        /\ UNCHANGED queues
     \/ /\ Refusal(r.queue, "sender", r.sender) = {}
        /\ LET live == DiscardExpired(queues[r.queue].messages, now)
               result == SendResult(r, now, live)
               new == [id |-> r.message, payload |-> r.payload,
                       expires_at |-> now + r.ttl, delivered |-> FALSE]
           IN  /\ Answer(r, now, result)
               /\ queues' = [queues EXCEPT ![r.queue].messages =
                    IF result.status = "Accepted" THEN Append(live, new)
                    ELSE live]

Fetch(r, now) ==
  /\ r \in FetchRequest
  /\ \/ /\ \E refusal \in Refusal(r.queue, "recipient", r.recipient) :
             Answer(r, now, refusal)
        /\ UNCHANGED queues
     \/ /\ Refusal(r.queue, "recipient", r.recipient) = {}
        /\ LET live == DiscardExpired(queues[r.queue].messages, now)
           IN  \/ /\ live = <<>>
                  /\ Answer(r, now, Status("Empty"))
                  /\ queues' = [queues EXCEPT ![r.queue].messages = live]
               \/ /\ live # <<>>
                  /\ Answer(r, now, DeliveryOf(Head(live)))
                  /\ queues' = [queues EXCEPT ![r.queue].messages =
                                  [live EXCEPT ![1].delivered = TRUE]]

AcknowledgeResult(r, live) ==
  IF live = <<>> \/ Head(live).id # r.message THEN Status("AckMismatch")
  ELSE IF ~Head(live).delivered THEN Status("NotDelivered")
  ELSE Status("Acknowledged")

Acknowledge(r, now) ==
  /\ r \in AckRequest
  /\ \/ /\ \E refusal \in Refusal(r.queue, "recipient", r.recipient) :
             Answer(r, now, refusal)
        /\ UNCHANGED queues
     \/ /\ Refusal(r.queue, "recipient", r.recipient) = {}
        /\ LET live == DiscardExpired(queues[r.queue].messages, now)
               result == AcknowledgeResult(r, live)
           IN  /\ Answer(r, now, result)
               /\ queues' = [queues EXCEPT ![r.queue].messages =
                    IF result.status = "Acknowledged" THEN Tail(live)
                    ELSE live]

DeleteQueue(r, now) ==
  /\ r \in DeleteQueueRequest
  /\ \/ /\ \E refusal \in Refusal(r.queue, "recipient", r.recipient) :
             Answer(r, now, refusal)
        /\ UNCHANGED queues
     \/ /\ Refusal(r.queue, "recipient", r.recipient) = {}
        /\ Answer(r, now, Status("Deleted"))
        /\ queues' = [queues EXCEPT ![r.queue] = None]

Execute(r, now) ==
  \/ CreateQueue(r, now)
  \/ Send(r, now)
  \/ Fetch(r, now)
  \/ Acknowledge(r, now)
  \/ DeleteQueue(r, now)

\* The caller has its result.
Return == reply' = None /\ UNCHANGED queues

Next == Return \/ \E r \in Requests, now \in Timestamps : Execute(r, now)

Spec == Init /\ [][Next]_vars
=============================================================================
