---------------------------- MODULE QueueProtocol ----------------------------
(***************************************************************************)
(* The values the queue protocol is about: queue configurations, decoded   *)
(* requests, authenticated frames and replies.  They are shared by the     *)
(* in-memory reference relay (Relay), the SQLite relay behind the daemon   *)
(* (DurableRelay) and the clients (EndToEnd).                              *)
(*                                                                         *)
(* Identifiers, principals and payloads are opaque, as they are to the     *)
(* relay: it compares them and measures payloads, nothing else.            *)
(***************************************************************************)
EXTENDS Naturals, FiniteSets

CONSTANTS
  QueueIds, Principals, MessageIds, Payloads, RequestIds,
  PayloadLen,     \* the length in bytes of each payload
  Configs,        \* the queue configurations CREATE_QUEUE may ask for
  MaxTimestamp,   \* the largest u64: expiry arithmetic is checked against it
  None            \* the absent value (Rust's Option::None)

Timestamps == 0 .. MaxTimestamp

QueueConfig ==
  [sender : Principals, recipient : Principals,
   max_messages : Nat \ {0}, max_message_bytes : Nat \ {0}]

Delivery == [id : MessageIds, payload : Payloads, expires_at : Timestamps]

ASSUME ProtocolAssumption ==
  /\ MaxTimestamp \in Nat
  /\ PayloadLen \in [Payloads -> Nat]
  /\ Configs \subseteq QueueConfig
  /\ None \notin Configs
  /\ None \notin Delivery

CreateQueueRequest ==
  [command : {"CREATE_QUEUE"}, queue : QueueIds, config : Configs]
SendRequest ==
  [command : {"SEND"}, queue : QueueIds, sender : Principals,
   message : MessageIds, payload : Payloads, ttl : Timestamps]
FetchRequest ==
  [command : {"FETCH"}, queue : QueueIds, recipient : Principals]
AckRequest ==
  [command : {"ACK"}, queue : QueueIds, recipient : Principals,
   message : MessageIds]
DeleteQueueRequest ==
  [command : {"DELETE_QUEUE"}, queue : QueueIds, recipient : Principals]

Request == CreateQueueRequest \cup SendRequest \cup FetchRequest
             \cup AckRequest \cup DeleteQueueRequest

\* An authenticated request frame: two frames are equal exactly when their
\* bytes are.
Frame == [request_id : RequestIds, request : Request]

\* The principal whose key authenticates a request, and that scopes its
\* request identifier.
RequestPrincipal(request) ==
  IF request.command = "CREATE_QUEUE" THEN request.config.sender
  ELSE IF request.command = "SEND" THEN request.sender
  ELSE request.recipient

\* The verdict of validate_queue_request: a zero TTL is refused before any
\* stored state is consulted.  (The other check, that a u64 limit fits usize,
\* never fails on a 64-bit target.)
OutOfRange(request) == request.command = "SEND" /\ request.ttl = 0

\* The numbers of a finite set from the smallest to the largest.
Ascending(S) ==
  CHOOSE s \in [1 .. Cardinality(S) -> S] :
    \A i, j \in DOMAIN s : i < j => s[i] < s[j]

Successes ==
  {"Created", "AlreadyExists", "Accepted", "Duplicate", "Delivery", "Empty",
   "Acknowledged", "Deleted"}
RelayErrors ==
  {"QueueNotFound", "Unauthorized", "QueueIdConflict", "MessageIdConflict",
   "MessageTooLarge", "QueueFull", "ExpiryOverflow", "AckMismatch",
   "NotDelivered"}

Reply == [status : Successes \cup RelayErrors \cup
                     {"LimitOutOfRange", "AuthReplay"},
          delivery : Delivery \cup {None}]

Status(status) == [status |-> status, delivery |-> None]
Succeeded(reply) == reply.status \in Successes

\* What FETCH answers for a stored message.
DeliveryOf(message) ==
  [status |-> "Delivery",
   delivery |-> [id |-> message.id, payload |-> message.payload,
                 expires_at |-> message.expires_at]]
=============================================================================
