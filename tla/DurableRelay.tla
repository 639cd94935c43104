----------------------------- MODULE DurableRelay -----------------------------
(***************************************************************************)
(* The SQLite relay and the daemon threads that drive it:                  *)
(* crates/cofferwire-relay/src/durable.rs (tables and commands),           *)
(* crates/cofferwire-relay/src/replay.rs (the exact-replay exchange) and   *)
(* RelayService::exchange_at of apps/cofferwired/src/lib.rs.               *)
(*                                                                         *)
(* A thread serves one frame at a time.  It samples the relay time, takes  *)
(* the mutex of its connection, looks the request identifier up in the     *)
(* replay table and, when it finds nothing, runs the exchange.  Threads of *)
(* one daemon share a connection; other connections to the same database   *)
(* file are other processes.                                               *)
(*                                                                         *)
(* A SQLite IMMEDIATE transaction is one action: it holds the only writer  *)
(* lock from BEGIN to COMMIT and is all-or-nothing.  A rejected command    *)
(* takes two transactions (the rolled-back effect, then the insertion of   *)
(* the replay record), so it is two actions that others interleave with.   *)
(***************************************************************************)
EXTENDS QueueProtocol

CONSTANTS
  Frames,             \* the authenticated frames that may reach the relay
  Threads,            \* blocking threads that serve frames
  Connections,        \* SQLite connections, one behind each daemon's mutex
  ConnectionOf,       \* the connection a thread uses
  MaxSequence,        \* bound on messages.sequence (i64 in SQLite)
  ClockMayStepBack    \* whether the system clock may be set back

\* A row of table queue_replays.
ReplayRecord == [request : Frames, response : Reply]

ASSUME DurableAssumption ==
  /\ Frames \subseteq Frame
  /\ ConnectionOf \in [Threads -> Connections]
  /\ MaxSequence \in Nat
  /\ ClockMayStepBack \in BOOLEAN
  /\ None \notin Frames
  /\ None \notin Reply
  /\ None \notin ReplayRecord

VARIABLES
  queues,     \* table queues: identifier -> configuration or None
  messages,   \* table messages: a set of rows
  replays,    \* table queue_replays: (principal, request id) -> record or None
  clock,      \* the system clock behind relay_time
  pc, frame, now, response,   \* what each thread is doing
  applied     \* history: how often each frame's effect was committed

tables == <<queues, messages>>
thread == <<pc, frame, now, response>>
vars == <<queues, messages, replays, clock, pc, frame, now, response,
          applied>>

MessageRow ==
  [sequence : 1 .. MaxSequence, queue : QueueIds, id : MessageIds,
   payload : Payloads, expires_at : Timestamps, delivered : BOOLEAN]

ReplayKeys == Principals \X RequestIds
KeyOf(f) == <<RequestPrincipal(f.request), f.request_id>>

PcValues == {"idle", "admitted", "execute", "rejected", "conflict", "respond"}

TypeOK ==
  /\ queues \in [QueueIds -> Configs \cup {None}]
  /\ messages \subseteq MessageRow
  /\ replays \in [ReplayKeys -> ReplayRecord \cup {None}]
  /\ clock \in Timestamps
  /\ pc \in [Threads -> PcValues]
  /\ frame \in [Threads -> Frames \cup {None}]
  /\ now \in [Threads -> Timestamps]
  /\ response \in [Threads -> Reply \cup {None}]
  /\ applied \in [Frames -> Nat]

Init ==
  /\ queues = [id \in QueueIds |-> None]
  /\ messages = {}
  /\ replays = [key \in ReplayKeys |-> None]
  /\ clock = 0
  /\ pc = [t \in Threads |-> "idle"]
  /\ frame = [t \in Threads |-> None]
  /\ now = [t \in Threads |-> 0]
  /\ response = [t \in Threads |-> None]
  /\ applied = [f \in Frames |-> 0]

-----------------------------------------------------------------------------
(* The commands, as they see the tables inside a transaction.              *)

RowsOf(id) == {m \in messages : m.queue = id}
Expired(id, at) == {m \in RowsOf(id) : m.expires_at <= at}
Live(id, at) == RowsOf(id) \ Expired(id, at)

\* ORDER BY sequence LIMIT 1
Newest(rows) == {m \in rows : \A n \in rows : m.sequence >= n.sequence}   \* variant
First(rows) == {m \in rows : \A n \in rows : m.sequence <= n.sequence}

\* The row identifier SQLite assigns to a new row: one more than the largest
\* in the table, whichever queue that row belongs to.
IsNextSequence(s, rows) ==
  /\ \A m \in rows : m.sequence < s
  /\ s = 1 \/ \E m \in rows : m.sequence = s - 1

\* Capacity is counted after the expired rows are gone.
FullOneLate(id, at) ==         \* variant: off by one
  Cardinality(Live(id, at)) > queues[id].max_messages
FullOfExpired(id, at) ==       \* variant: counts before the cleanup
  Cardinality(RowsOf(id)) >= queues[id].max_messages
Full(id, at) == Cardinality(Live(id, at)) >= queues[id].max_messages

\* checked_add of the relay time and the TTL.
ExpiryWraps(at, ttl) == FALSE  \* variant: unchecked addition
ExpiryOverflows(at, ttl) == at + ttl > MaxTimestamp

\* The protocol error a command ends with, if any, in the order of the code's
\* early returns.
SendRefusal(r, at) ==
  LET config == queues[r.queue]
      same == {m \in Live(r.queue, at) : m.id = r.message}
  IN  IF config = None THEN {"QueueNotFound"}
      ELSE IF config.sender # r.sender THEN {"Unauthorized"}
      ELSE IF same # {} THEN
        IF \E m \in same : m.payload # r.payload
        THEN {"MessageIdConflict"} ELSE {}
      ELSE IF PayloadLen[r.payload] > config.max_message_bytes
        THEN {"MessageTooLarge"}
      ELSE IF Full(r.queue, at) THEN {"QueueFull"}
      ELSE IF ExpiryOverflows(at, r.ttl) THEN {"ExpiryOverflow"}
      ELSE {}

RecipientRefusal(r) ==
  IF queues[r.queue] = None THEN {"QueueNotFound"}
  ELSE IF queues[r.queue].recipient # r.recipient THEN {"Unauthorized"}
  ELSE {}

AckRefusalUnmatched(r, at) ==  \* variant: acknowledges whatever is first
  LET current == First(Live(r.queue, at))
  IN  IF RecipientRefusal(r) # {} THEN RecipientRefusal(r)
      ELSE IF \A m \in current : ~m.delivered THEN {"NotDelivered"}
      ELSE {}
AckRefusalUnseen(r, at) ==     \* variant: acknowledges what was not delivered
  LET current == First(Live(r.queue, at))
  IN  IF RecipientRefusal(r) # {} THEN RecipientRefusal(r)
      ELSE IF \A m \in current : m.id # r.message THEN {"AckMismatch"}
      ELSE {}
AckRefusal(r, at) ==
  LET current == First(Live(r.queue, at))
  IN  IF RecipientRefusal(r) # {} THEN RecipientRefusal(r)
      ELSE IF \A m \in current : m.id # r.message THEN {"AckMismatch"}
      ELSE IF \A m \in current : ~m.delivered THEN {"NotDelivered"}
      ELSE {}

CreateRefusal(r) ==
  IF queues[r.queue] \in {None, r.config} THEN {} ELSE {"QueueIdConflict"}

Refusal(r, at) ==
  IF r.command = "CREATE_QUEUE" THEN CreateRefusal(r)
  ELSE IF r.command = "SEND" THEN SendRefusal(r, at)
  ELSE IF r.command = "ACK" THEN AckRefusal(r, at)
  ELSE RecipientRefusal(r)

-----------------------------------------------------------------------------
(* The exchange: one thread serving one frame.                             *)

\* The thread holds the mutex of its connection.
Holding(t) == pc[t] \in {"execute", "rejected", "conflict"}

Goto(t, label) == pc' = [pc EXCEPT ![t] = label]

\* A frame that decodes, authenticates and is admitted; relay_time() was
\* sampled on the way in, before the mutex is taken.  validate_queue_request
\* answers an out-of-range frame at once and stores nothing.
Accept(t, f) ==
  /\ pc[t] = "idle"
  /\ frame' = [frame EXCEPT ![t] = f]
  /\ now' = [now EXCEPT ![t] = clock]
  /\ \/ /\ OutOfRange(f.request)
        /\ response' = [response EXCEPT ![t] = Status("LimitOutOfRange")]
        /\ Goto(t, "respond")
     \/ /\ ~OutOfRange(f.request)
        /\ Goto(t, "admitted")
        /\ UNCHANGED response
  /\ UNCHANGED <<tables, replays, clock, applied>>

\* The answer the replay record of a frame's key prescribes.
Replayed(f) ==
  LET record == replays[KeyOf(f)]
  IN  IF record.request = f THEN record.response ELSE Status("AuthReplay")

\* Take the mutex and look the request identifier up.
Lookup(t) ==
  /\ pc[t] = "admitted"
  /\ \A u \in Threads : ConnectionOf[u] = ConnectionOf[t] => ~Holding(u)
  /\ \/ /\ replays[KeyOf(frame[t])] # None
        /\ response' = [response EXCEPT ![t] = Replayed(frame[t])]
        /\ Goto(t, "respond")
     \/ /\ replays[KeyOf(frame[t])] = None
        /\ Goto(t, "execute")
        /\ UNCHANGED response
  /\ UNCHANGED <<tables, replays, clock, frame, now, applied>>

RecordReplacing(t, result) ==  \* variant: INSERT OR REPLACE
  /\ replays' = [replays EXCEPT ![KeyOf(frame[t])] =
                   [request |-> frame[t], response |-> result]]
  /\ response' = [response EXCEPT ![t] = result]
  /\ Goto(t, "respond")

\* Insert the replay record and commit the transaction with it.
Record(t, result) ==
  LET f == frame[t]
  IN  /\ replays[KeyOf(f)] = None
      /\ replays' = [replays EXCEPT ![KeyOf(f)] =
                       [request |-> f, response |-> result]]
      /\ response' = [response EXCEPT ![t] = result]
      /\ Goto(t, "respond")

\* The thread's transaction runs a command that is not refused.
Runs(t, command) ==
  /\ pc[t] = "execute"
  /\ frame[t].request.command = command
  /\ Refusal(frame[t].request, now[t]) = {}

CommitUnrecorded(t, result) ==   \* variant: the record is not inserted
  /\ response' = [response EXCEPT ![t] = result]
  /\ Goto(t, "respond")
  /\ applied' = [applied EXCEPT ![frame[t]] = @ + 1]
  /\ UNCHANGED <<replays, clock, frame, now>>

\* The effect of the command and its replay record commit together.
Commit(t, result) ==
  /\ Record(t, result)
  /\ applied' = [applied EXCEPT ![frame[t]] = @ + 1]
  /\ UNCHANGED <<clock, frame, now>>

CreateQueue(t) ==
  LET r == frame[t].request
  IN  /\ Runs(t, "CREATE_QUEUE")
      /\ \/ /\ queues[r.queue] = None
            /\ Commit(t, Status("Created"))
            /\ queues' = [queues EXCEPT ![r.queue] = r.config]
         \/ /\ queues[r.queue] = r.config
            /\ Commit(t, Status("AlreadyExists"))
            /\ UNCHANGED queues
      /\ UNCHANGED messages

Send(t) ==
  LET r == frame[t].request
      kept == messages \ Expired(r.queue, now[t])
      new(s) == [sequence |-> s, queue |-> r.queue, id |-> r.message,
                 payload |-> r.payload, expires_at |-> now[t] + r.ttl,
                 delivered |-> FALSE]
  IN  /\ Runs(t, "SEND")
      /\ \/ /\ \E m \in Live(r.queue, now[t]) : m.id = r.message
            /\ Commit(t, Status("Duplicate"))
            /\ messages' = kept
         \/ /\ \A m \in Live(r.queue, now[t]) : m.id # r.message
            /\ Commit(t, Status("Accepted"))
            /\ \E s \in 1 .. MaxSequence :
                 /\ IsNextSequence(s, kept)
                 /\ messages' = kept \cup {new(s)}
      /\ UNCHANGED queues

FetchSkipping(t) ==   \* variant: passes expired rows over, leaving them there
  LET r == frame[t].request
      first == First(Live(r.queue, now[t]))
  IN  /\ Runs(t, "FETCH")
      /\ \E m \in first :
           /\ Commit(t, DeliveryOf(m))
           /\ messages' = (messages \ {m}) \cup {[m EXCEPT !.delivered = TRUE]}
      /\ UNCHANGED queues

FetchOnce(t) ==       \* variant: never delivers a message again
  LET r == frame[t].request
      kept == messages \ Expired(r.queue, now[t])
      first == First({m \in Live(r.queue, now[t]) : ~m.delivered})
  IN  /\ Runs(t, "FETCH")
      /\ \/ /\ first = {}
            /\ Commit(t, Status("Empty"))
            /\ messages' = kept
         \/ \E m \in first :
              /\ Commit(t, DeliveryOf(m))
              /\ messages' = (kept \ {m}) \cup {[m EXCEPT !.delivered = TRUE]}
      /\ UNCHANGED queues

FetchLeasing(t) ==    \* variant: a delivery sets a new expiry
  LET r == frame[t].request
      kept == messages \ Expired(r.queue, now[t])
      first == First(Live(r.queue, now[t]))
  IN  /\ Runs(t, "FETCH")
      /\ \/ /\ first = {}
            /\ Commit(t, Status("Empty"))
            /\ messages' = kept
         \/ \E m \in first :
              /\ Commit(t, DeliveryOf(m))
              /\ messages' = (kept \ {m}) \cup
                   {[m EXCEPT !.delivered = TRUE, !.expires_at = now[t] + 1]}
      /\ UNCHANGED queues

Fetch(t) ==
  LET r == frame[t].request
      kept == messages \ Expired(r.queue, now[t])
      first == First(Live(r.queue, now[t]))
  IN  /\ Runs(t, "FETCH")
      /\ \/ /\ first = {}
            /\ Commit(t, Status("Empty"))
            /\ messages' = kept
         \/ \E m \in first :
              /\ Commit(t, DeliveryOf(m))
              /\ messages' = (kept \ {m}) \cup {[m EXCEPT !.delivered = TRUE]}
      /\ UNCHANGED queues

Acknowledge(t) ==
  LET r == frame[t].request
      kept == messages \ Expired(r.queue, now[t])
  IN  /\ Runs(t, "ACK")
      /\ Commit(t, Status("Acknowledged"))
      /\ messages' = kept \ First(Live(r.queue, now[t]))
      /\ UNCHANGED queues

DeleteQueueOnly(t) ==   \* variant: foreign keys are off, nothing cascades
  /\ Runs(t, "DELETE_QUEUE")
  /\ Commit(t, Status("Deleted"))
  /\ queues' = [queues EXCEPT ![frame[t].request.queue] = None]
  /\ UNCHANGED messages

\* ON DELETE CASCADE removes the queue's messages; replay records stay.
DeleteQueue(t) ==
  LET r == frame[t].request
  IN  /\ Runs(t, "DELETE_QUEUE")
      /\ Commit(t, Status("Deleted"))
      /\ queues' = [queues EXCEPT ![r.queue] = None]
      /\ messages' = messages \ RowsOf(r.queue)

\* The command is refused: its transaction, expiry cleanup included, rolls
\* back.  The record of the refusal needs a second transaction.
Reject(t) ==
  /\ pc[t] = "execute"
  /\ \E error \in Refusal(frame[t].request, now[t]) :
       response' = [response EXCEPT ![t] = Status(error)]
  /\ Goto(t, "rejected")
  /\ UNCHANGED <<tables, replays, clock, frame, now, applied>>

RecordRejection(t) ==
  /\ pc[t] = "rejected"
  /\ Record(t, response[t])
  /\ UNCHANGED <<tables, clock, frame, now, applied>>

\* Another connection recorded this request identifier first: the insertion
\* violates the primary key and its transaction rolls back.
InsertConflict(t) ==
  /\ \/ pc[t] = "rejected"
     \/ pc[t] = "execute" /\ Refusal(frame[t].request, now[t]) = {}
  /\ replays[KeyOf(frame[t])] # None
  /\ Goto(t, "conflict")
  /\ UNCHANGED <<tables, replays, clock, frame, now, response, applied>>

ReadBackNothing(t) ==   \* variant: keeps its own result
  /\ pc[t] = "conflict"
  /\ Goto(t, "respond")
  /\ UNCHANGED <<tables, replays, clock, frame, now, response, applied>>

\* Read the record that won.
ReadBack(t) ==
  /\ pc[t] = "conflict"
  /\ replays[KeyOf(frame[t])] # None
  /\ response' = [response EXCEPT ![t] = Replayed(frame[t])]
  /\ Goto(t, "respond")
  /\ UNCHANGED <<tables, replays, clock, frame, now, applied>>

\* The threads drop what they were doing.
Release(stopped) ==
  /\ pc' = [t \in Threads |-> IF t \in stopped THEN "idle" ELSE pc[t]]
  /\ frame' = [t \in Threads |-> IF t \in stopped THEN None ELSE frame[t]]
  /\ now' = [t \in Threads |-> IF t \in stopped THEN 0 ELSE now[t]]
  /\ response' = [t \in Threads |-> IF t \in stopped THEN None ELSE response[t]]
  /\ UNCHANGED <<tables, replays, clock, applied>>

\* exchange_at has returned and the mutex is free: the reply response[t] goes
\* to the transport.
Respond(t) == pc[t] = "respond" /\ Release({t})

\* A storage error (busy, full, I/O, failed commit) ends the exchange with no
\* reply, or the transport's deadline drops the reply of a finished exchange.
Fail(t) == pc[t] # "idle" /\ Release({t})

\* A process stops and is started again on the same file.
Crash(c) ==
  /\ \E t \in Threads : ConnectionOf[t] = c /\ pc[t] # "idle"
  /\ Release({t \in Threads : ConnectionOf[t] = c})

Tick ==
  /\ \E at \in Timestamps :
       /\ at = clock + 1 \/ (ClockMayStepBack /\ at < clock)
       /\ clock' = at
  /\ UNCHANGED <<tables, replays, thread, applied>>

\* The transaction that runs a command, up to its commit or its rollback.
Effect(t) ==
  \/ CreateQueue(t)
  \/ Send(t)
  \/ Fetch(t)
  \/ Acknowledge(t)
  \/ DeleteQueue(t)
  \/ Reject(t)

\* The rest of a thread's way through exchange_at.
Passage(t) ==
  \/ Lookup(t)
  \/ RecordRejection(t)
  \/ InsertConflict(t)
  \/ ReadBack(t)
  \/ Respond(t)

Environment ==
  \/ \E t \in Threads, f \in Frames : Accept(t, f)
  \/ \E t \in Threads : Fail(t)
  \/ \E c \in Connections : Crash(c)
  \/ Tick

Next ==
  \/ \E t \in Threads : Effect(t)
  \/ \E t \in Threads : Passage(t)
  \/ Environment

Spec == Init /\ [][Next]_vars

-----------------------------------------------------------------------------
(* What the exchange promises.                                             *)

\* The UNIQUE and FOREIGN KEY constraints of table messages hold although rows
\* leave by expiry, ACK and cascade and row identifiers are reused: no
\* constraint error can surface from a command.  TLC checks this and the next
\* two for one thread and times in order; the theorems ConstraintsHold,
\* DepthIsBounded and DeliveredStaysHead are about any threads and any clock.
Integrity ==
  /\ \A m, n \in messages :
       m.sequence = n.sequence \/ (m.queue = n.queue /\ m.id = n.id) => m = n
  /\ \A m \in messages : queues[m.queue] # None

\* CW-QUEUE-007, CW-STORE-006: a queue never holds more rows than its
\* configuration allows, expired rows included.
DepthBounded ==
  \A id \in QueueIds : queues[id] # None =>
    Cardinality(RowsOf(id)) <= queues[id].max_messages

\* A message marked delivered is the oldest of its queue, so the ACK of what
\* was last fetched is never barred by an older message (CW-QUEUE-004), in
\* whatever order messages expire, are acknowledged and leave with their queue.
DeliveredIsHead ==
  \A m \in messages : m.delivered => m \in First(RowsOf(m.queue))

\* The effect of a frame is committed at most once, and exactly when its
\* replay record holds a success: a frame answered with an error, now or on
\* any retry, never takes effect (CW-CRYPTO-008).
EffectOnce ==
  \A f \in Frames :
    LET record == replays[KeyOf(f)]
    IN  applied[f] = IF /\ record # None
                        /\ record.request = f
                        /\ Succeeded(record.response)
                     THEN 1 ELSE 0

\* A reply about to be handed over is the one on record for its request
\* identifier, or AUTH_REPLAY when the record belongs to other bytes; whichever
\* connection gives it and whatever raced with it.
ReplyIsRecorded ==
  \A t \in Threads : pc[t] = "respond" =>
    IF OutOfRange(frame[t].request)
    THEN response[t] = Status("LimitOutOfRange")
    ELSE replays[KeyOf(frame[t])] # None /\ response[t] = Replayed(frame[t])

Stored(r) ==
  \E m \in messages : /\ m.queue = r.queue /\ m.id = r.message
                      /\ m.payload = r.payload /\ m.expires_at >= r.ttl

\* The frame's effect was committed and it was an ACK of the message of r, or
\* the deletion of its queue.
Released(r) ==
  \E g \in Frames :
    /\ applied[g] > 0
    /\ g.request.queue = r.queue
    /\ \/ g.request.command = "ACK" /\ g.request.message = r.message
       \/ g.request.command = "DELETE_QUEUE"

\* CW-QUEUE-001, CW-STORE-001: an accepted message whose TTL cannot have run
\* out yet is still stored with its payload, unless the recipient has
\* acknowledged it or deleted the queue.  Crashes, failed exchanges, expiry of
\* other messages and duplicate SENDs never lose it.
NoSilentLoss ==
  \A f \in Frames :
    LET record == replays[KeyOf(f)]
    IN  /\ record # None
        /\ record.request = f
        /\ record.response.status = "Accepted"
        /\ clock < f.request.ttl
        => Stored(f.request) \/ Released(f.request)

\* CW-QUEUE-002, CW-STORE-004: while a message is unexpired no step changes
\* its payload, extends its expiry or moves it in the queue, and none takes
\* back that it was delivered.
MessageFixed ==
  [][\A m \in messages, n \in messages' :
       /\ m.queue = n.queue /\ m.id = n.id
       /\ m.expires_at > clock
       => /\ n.payload = m.payload /\ n.expires_at = m.expires_at
          /\ n.sequence = m.sequence
          /\ m.delivered => n.delivered]_vars

\* A replay record, once committed, is never replaced or removed, not even by
\* the deletion of the queue it was about; with ReplyIsRecorded, every reply
\* to one frame is the same reply for ever.
RecordsPermanent ==
  [][\A key \in ReplayKeys :
       replays[key] # None => replays'[key] = replays[key]]_vars
=============================================================================
