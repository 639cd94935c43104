-------------------------- MODULE DurableRelayProofs --------------------------
(***************************************************************************)
(* What DurableRelay guarantees for every set of frames, threads and       *)
(* connections, checked by TLAPS: the replay records and the replies, the  *)
(* constraints of the tables and, while the clock is never set back, that  *)
(* an unexpired message stays unchanged until the recipient acknowledges   *)
(* it or deletes its queue.                                                *)
(***************************************************************************)
EXTENDS DurableRelay, TLAPS

\* What the variables of a busy thread hold at each point of exchange_at.
ThreadInv ==
  \A t \in Threads :
    /\ pc[t] # "idle" => frame[t] \in Frames
    /\ pc[t] \in {"rejected", "respond"} => response[t] \in Reply
    /\ pc[t] = "rejected" => ~Succeeded(response[t])
    /\ pc[t] \notin {"idle", "respond"} => ~OutOfRange(frame[t].request)

Busy == TypeOK /\ ThreadInv

-----------------------------------------------------------------------------
(* The values the actions build.                                           *)

\* The key under which exchange_at files a frame is a key of queue_replays.
LEMMA KeyType ==
  ASSUME NEW f \in Frames
  PROVE  KeyOf(f) \in ReplayKeys
<1>1. f \in Frame /\ f.request \in Request
  BY DurableAssumption, Zenon DEF Frame
<1>2. CASE f.request \in CreateQueueRequest
  <2>1. f.request.command = "CREATE_QUEUE" /\ f.request.config \in QueueConfig
    BY <1>2, ProtocolAssumption, Zenon DEF CreateQueueRequest
  <2> QED BY <1>1, <2>1, Zenon DEF KeyOf, RequestPrincipal, ReplayKeys, QueueConfig, Frame
<1>3. CASE f.request \in SendRequest
  BY <1>1, <1>3, Zenon DEF KeyOf, RequestPrincipal, ReplayKeys, SendRequest, Frame
<1>4. CASE f.request \in FetchRequest \cup AckRequest \cup DeleteQueueRequest
  BY <1>1, <1>4, Zenon DEF KeyOf, RequestPrincipal, ReplayKeys, FetchRequest,
                    AckRequest, DeleteQueueRequest, Frame
<1> QED BY <1>1, <1>2, <1>3, <1>4, Zenon DEF Request

\* Every status the relay answers with is a reply.
LEMMA StatusType ==
  ASSUME NEW st \in Successes \cup RelayErrors \cup
                      {"LimitOutOfRange", "AuthReplay"}
  PROVE  Status(st) \in Reply
BY Zenon DEF Status, Reply

\* A stored row makes a well-formed delivery.
LEMMA DeliveryType ==
  ASSUME NEW m \in MessageRow
  PROVE  DeliveryOf(m) \in Reply
BY Zenon DEF DeliveryOf, Reply, MessageRow, Delivery, Successes

\* A command is refused only with the errors of RelayError.
LEMMA RefusalType ==
  ASSUME NEW r, NEW at
  PROVE  Refusal(r, at) \subseteq RelayErrors
<1>1. RecipientRefusal(r) \subseteq RelayErrors
  BY Zenon DEF RecipientRefusal, RelayErrors
<1>2. SendRefusal(r, at) \subseteq RelayErrors
  BY Zenon DEF SendRefusal, RelayErrors
<1>3. AckRefusal(r, at) \subseteq RelayErrors
  BY <1>1, Zenon DEF AckRefusal, RelayErrors
<1>4. CreateRefusal(r) \subseteq RelayErrors
  BY Zenon DEF CreateRefusal, RelayErrors
<1> QED BY <1>1, <1>2, <1>3, <1>4, Zenon DEF Refusal

\* A refusal is not a success.
LEMMA ErrorsFail ==
  ASSUME NEW error \in RelayErrors
  PROVE  Status(error) \in Reply /\ ~Succeeded(Status(error))
BY Zenon DEF Status, Reply, Succeeded, Successes, RelayErrors

\* A request that is not out of range and not refused as a SEND has an expiry
\* the clock can represent.
LEMMA AcceptedExpiry ==
  ASSUME NEW r \in SendRequest, NEW at \in Timestamps,
         SendRefusal(r, at) = {},
         \A m \in Live(r.queue, at) : m.id # r.message
  PROVE  at + r.ttl \in Timestamps
<1>1. r.ttl \in Nat /\ at \in Nat
  BY ProtocolAssumption DEF SendRequest, Timestamps
<1>2. {m \in Live(r.queue, at) : m.id = r.message} = {}
  BY Zenon
<1>3. ~(at + r.ttl > MaxTimestamp)
  BY <1>2, Zenon DEF SendRefusal, ExpiryOverflows
<1> QED BY <1>1, <1>3, ProtocolAssumption DEF Timestamps

\* A frame whose command is SEND carries the fields of a SEND, and so on.
LEMMA RequestShape ==
  ASSUME NEW f \in Frames
  PROVE  /\ f.request.queue \in QueueIds
         /\ f.request.command = "SEND" => f.request \in SendRequest
         /\ f.request.command = "CREATE_QUEUE" =>
              f.request \in CreateQueueRequest /\ f.request.config \in Configs
<1>1. f.request \in Request
  BY DurableAssumption, Zenon DEF Frame
<1> QED BY <1>1, Zenon DEF Request, CreateQueueRequest, SendRequest, FetchRequest,
                    AckRequest, DeleteQueueRequest

-----------------------------------------------------------------------------
(* Type correctness.                                                       *)

\* Empty tables and idle threads have their types.
LEMMA BusyInit == Init => Busy
BY ProtocolAssumption DEF Init, Busy, TypeOK, ThreadInv, Timestamps, PcValues

\* So do the states of a thread that takes a frame on, out of range or not.
LEMMA BusyAccept ==
  ASSUME Busy, NEW t \in Threads, NEW f \in Frames, Accept(t, f)
  PROVE  Busy'
<1> USE DEF Busy, Accept, Goto, tables
<1>1. Status("LimitOutOfRange") \in Reply
  BY StatusType, Zenon
<1>2. TypeOK'
  BY <1>1, Zenon DEF TypeOK, PcValues
<1>3. ThreadInv'
  BY <1>1, Zenon DEF TypeOK, PcValues, ThreadInv
<1> QED BY <1>2, <1>3, Zenon

\* A recorded reply of thread t, with tables of the right type, keeps Busy.
LEMMA BusyRecord ==
  ASSUME Busy, NEW t \in Threads, NEW result \in Reply, pc[t] # "idle",
         Record(t, result), UNCHANGED <<clock, frame, now>>,
         applied' \in [Frames -> Nat],
         queues' \in [QueueIds -> Configs \cup {None}],
         messages' \subseteq MessageRow
  PROVE  Busy'
<1> USE DEF Busy, Record, Goto
<1>1. frame[t] \in Frames /\ KeyOf(frame[t]) \in ReplayKeys
  BY KeyType, Zenon DEF ThreadInv
<1>2. [request |-> frame[t], response |-> result] \in ReplayRecord
  BY <1>1, Zenon DEF ReplayRecord
<1>3. TypeOK'
  BY <1>1, <1>2, Zenon DEF TypeOK, PcValues
<1>4. ThreadInv'
  BY Zenon DEF TypeOK, PcValues, ThreadInv
<1> QED BY <1>3, <1>4, Zenon

\* The tables a committed command leaves behind have their types, and its
\* reply is a success.
LEMMA CommandStep ==
  ASSUME Busy, NEW t \in Threads,
         \/ CreateQueue(t) \/ Send(t) \/ Fetch(t)
         \/ Acknowledge(t) \/ DeleteQueue(t)
  PROVE  /\ pc[t] = "execute"
         /\ queues' \in [QueueIds -> Configs \cup {None}]
         /\ messages' \subseteq MessageRow
         /\ \E result \in Reply : Succeeded(result) /\ Commit(t, result)
<1> DEFINE r == frame[t].request
<1> USE DEF Busy
<1>1. pc[t] = "execute"
  BY Zenon DEF CreateQueue, Send, Fetch, Acknowledge, DeleteQueue, Runs
<1>2. /\ frame[t] \in Frames
      /\ r.queue \in QueueIds
      /\ r.command = "SEND" => r \in SendRequest
      /\ r.command = "CREATE_QUEUE" => r.config \in Configs
      /\ now[t] \in Timestamps
  BY <1>1, RequestShape, Zenon DEF ThreadInv, TypeOK
<1>3. \A st \in Successes : Status(st) \in Reply /\ Succeeded(Status(st))
  BY StatusType, Zenon DEF Succeeded, Status
<1>4. CASE CreateQueue(t)
  <2>1. r.config \in Configs
    BY <1>2, <1>4, Zenon DEF CreateQueue, Runs
  <2>2. queues' \in [QueueIds -> Configs \cup {None}] /\ messages' = messages
    BY <1>2, <1>4, <2>1, Zenon DEF CreateQueue, TypeOK
  <2>3. Commit(t, Status("Created")) \/ Commit(t, Status("AlreadyExists"))
    BY <1>4, Zenon DEF CreateQueue
  <2> QED BY <1>1, <1>3, <2>2, <2>3, Zenon DEF TypeOK, Successes
<1>5. CASE Send(t)
  <2>1. r \in SendRequest /\ SendRefusal(r, now[t]) = {} /\ queues' = queues
    BY <1>2, <1>5, Zenon DEF Send, Runs, Refusal
  <2>2. CASE /\ messages' = messages \ Expired(r.queue, now[t])
             /\ Commit(t, Status("Duplicate"))
    BY <1>1, <1>3, <2>1, <2>2, Zenon DEF TypeOK, Successes
  <2>3. CASE /\ \A m \in Live(r.queue, now[t]) : m.id # r.message
             /\ Commit(t, Status("Accepted"))
             /\ \E s \in 1 .. MaxSequence :
                  messages' = (messages \ Expired(r.queue, now[t])) \cup
                    {[sequence |-> s, queue |-> r.queue, id |-> r.message,
                      payload |-> r.payload, expires_at |-> now[t] + r.ttl,
                      delivered |-> FALSE]}
    <3>1. now[t] + r.ttl \in Timestamps
      BY <1>2, <2>1, <2>3, AcceptedExpiry, Zenon
    <3>2. PICK s \in 1 .. MaxSequence :
            messages' = (messages \ Expired(r.queue, now[t])) \cup
                    {[sequence |-> s, queue |-> r.queue, id |-> r.message,
                      payload |-> r.payload, expires_at |-> now[t] + r.ttl,
                      delivered |-> FALSE]}
      BY <2>3, Zenon
    <3>3. [sequence |-> s, queue |-> r.queue, id |-> r.message,
           payload |-> r.payload, expires_at |-> now[t] + r.ttl,
           delivered |-> FALSE] \in MessageRow
      BY <1>2, <2>1, <3>1, Zenon DEF MessageRow, SendRequest
    <3>4. messages' \subseteq MessageRow
      BY <3>2, <3>3, Zenon DEF TypeOK
    <3> QED BY <1>1, <1>3, <2>1, <2>3, <3>4, Zenon DEF TypeOK, Successes
  <2> QED BY <1>5, <2>2, <2>3, Zenon DEF Send
<1>6. CASE Fetch(t)
  <2>1. queues' = queues
    BY <1>6, Zenon DEF Fetch
  <2>2. CASE /\ messages' = messages \ Expired(r.queue, now[t])
             /\ Commit(t, Status("Empty"))
    BY <1>1, <1>3, <2>1, <2>2, Zenon DEF TypeOK, Successes
  <2>3. CASE \E m \in First(Live(r.queue, now[t])) :
               /\ Commit(t, DeliveryOf(m))
               /\ messages' = ((messages \ Expired(r.queue, now[t])) \ {m})
                                \cup {[m EXCEPT !.delivered = TRUE]}
    <3>1. PICK m \in First(Live(r.queue, now[t])) :
               /\ Commit(t, DeliveryOf(m))
               /\ messages' = ((messages \ Expired(r.queue, now[t])) \ {m})
                                \cup {[m EXCEPT !.delivered = TRUE]}
      BY <2>3, Zenon
    <3>2. m \in MessageRow
      BY Zenon DEF First, Live, RowsOf, TypeOK
    <3>3. messages' \subseteq MessageRow
      BY <3>1, <3>2, Zenon DEF TypeOK, MessageRow
    <3>4. DeliveryOf(m) \in Reply /\ Succeeded(DeliveryOf(m))
      BY <3>2, DeliveryType, Zenon DEF DeliveryOf, Succeeded, Successes
    <3> QED BY <1>1, <2>1, <3>1, <3>3, <3>4, Zenon DEF TypeOK
  <2> QED BY <1>6, <2>2, <2>3, Zenon DEF Fetch
<1>7. CASE Acknowledge(t)
  BY <1>1, <1>3, <1>7, Zenon DEF Acknowledge, TypeOK, Successes
<1>8. CASE DeleteQueue(t)
  BY <1>1, <1>2, <1>3, <1>8, Zenon DEF DeleteQueue, TypeOK, Successes
<1> QED BY <1>4, <1>5, <1>6, <1>7, <1>8, Zenon

\* The steps that touch neither the tables nor the replay records: lookups,
\* refusals, lost races, ends of exchanges, crashes and the clock.
QuietStep ==
  \/ \E t \in Threads, f \in Frames : Accept(t, f)
  \/ \E t \in Threads : \/ Lookup(t) \/ Reject(t) \/ InsertConflict(t)
                        \/ ReadBack(t)
  \/ \E stopped \in SUBSET Threads : Release(stopped)
  \/ Tick

\* Every step commits a command, records a rejection, or is quiet.
LEMMA StepKinds ==
  ASSUME Next
  PROVE  \/ \E t \in Threads : \/ CreateQueue(t) \/ Send(t) \/ Fetch(t)
                               \/ Acknowledge(t) \/ DeleteQueue(t)
         \/ \E t \in Threads : RecordRejection(t)
         \/ QuietStep
<1>1. \A t \in Threads : Respond(t) \/ Fail(t) => QuietStep
  BY Zenon DEF Respond, Fail, QuietStep
<1>2. \A c \in Connections : Crash(c) => QuietStep
  BY Zenon DEF Crash, QuietStep
<1> QED BY <1>1, <1>2, Zenon DEF Next, Effect, Passage, Environment, QuietStep

\* Only transactions that commit change the database.
LEMMA QuietFrame ==
  ASSUME QuietStep
  PROVE  UNCHANGED <<queues, messages, replays, applied>>
BY Zenon DEF QuietStep, Accept, Lookup, Reject, InsertConflict, ReadBack, Release,
       Tick, tables

\* What the replay table prescribes for a recorded key is a reply.
LEMMA ReplayedType ==
  ASSUME Busy, NEW f \in Frames, replays[KeyOf(f)] # None
  PROVE  Replayed(f) \in Reply
<1>1. replays[KeyOf(f)] \in ReplayRecord
  BY KeyType, Zenon DEF Busy, TypeOK
<1> QED BY <1>1, StatusType, Zenon DEF Replayed, ReplayRecord

\* The steps around the transactions keep the types, and a refusal on its way
\* to the replay table is an error.
LEMMA BusyQuiet ==
  ASSUME Busy, QuietStep
  PROVE  Busy'
<1> USE DEF Busy
<1>1. CASE \E t \in Threads, f \in Frames : Accept(t, f)
  BY <1>1, BusyAccept, Zenon
<1>2. ASSUME NEW t \in Threads, Lookup(t) \/ ReadBack(t)
      PROVE  Busy'
  <2>1. frame[t] \in Frames /\ ~OutOfRange(frame[t].request)
    BY <1>2, Zenon DEF ThreadInv, Lookup, ReadBack
  <2>2. replays[KeyOf(frame[t])] # None => Replayed(frame[t]) \in Reply
    BY <2>1, ReplayedType, Zenon
  <2>3. TypeOK'
    BY <1>2, <2>2, Zenon DEF Lookup, ReadBack, Goto, TypeOK, PcValues, tables
  <2>4. ThreadInv'
    BY <1>2, <2>1, <2>2, Zenon DEF Lookup, ReadBack, Goto, TypeOK, PcValues, ThreadInv
  <2> QED BY <2>3, <2>4, Zenon
<1>3. ASSUME NEW t \in Threads, Reject(t)
      PROVE  Busy'
  <2>1. PICK error \in RelayErrors :
          response' = [response EXCEPT ![t] = Status(error)]
    BY <1>3, RefusalType, Zenon DEF Reject
  <2>2. Status(error) \in Reply /\ ~Succeeded(Status(error))
    BY ErrorsFail, Zenon
  <2>3. TypeOK'
    BY <1>3, <2>1, <2>2, Zenon DEF Reject, Goto, TypeOK, PcValues, tables
  <2>4. ThreadInv'
    BY <1>3, <2>1, <2>2, Zenon DEF Reject, Goto, TypeOK, PcValues, ThreadInv
  <2> QED BY <2>3, <2>4, Zenon
<1>4. ASSUME NEW t \in Threads, InsertConflict(t)
      PROVE  Busy'
  <2>1. TypeOK'
    BY <1>4, Zenon DEF InsertConflict, Goto, TypeOK, PcValues, tables
  <2>2. ThreadInv'
    BY <1>4, Zenon DEF InsertConflict, Goto, TypeOK, PcValues, ThreadInv
  <2> QED BY <2>1, <2>2, Zenon
<1>5. ASSUME NEW stopped \in SUBSET Threads, Release(stopped)
      PROVE  Busy'
  <2>1. TypeOK'
    BY <1>5, ProtocolAssumption
       DEF Release, TypeOK, PcValues, tables, Timestamps
  <2>2. ThreadInv'
    BY <1>5, Zenon DEF Release, TypeOK, PcValues, ThreadInv
  <2> QED BY <2>1, <2>2, Zenon
<1>6. CASE Tick
  BY <1>6, Zenon DEF Tick, TypeOK, ThreadInv, tables, thread
<1> QED BY <1>1, <1>2, <1>3, <1>4, <1>5, <1>6, Zenon DEF QuietStep

\* Every step keeps the types.
LEMMA BusyStep == Busy /\ [Next]_vars => Busy'
<1> SUFFICES ASSUME Busy, [Next]_vars PROVE Busy'
  BY Zenon
<1>1. ASSUME NEW t \in Threads,
             \/ CreateQueue(t) \/ Send(t) \/ Fetch(t)
             \/ Acknowledge(t) \/ DeleteQueue(t)
      PROVE  Busy'
  <2>1. PICK result \in Reply : pc[t] = "execute" /\ Commit(t, result)
    BY <1>1, CommandStep, Zenon
  <2>2. frame[t] \in Frames
    BY <2>1, Zenon DEF Busy, ThreadInv
  <2>3. applied' \in [Frames -> Nat]
    BY <2>1, <2>2 DEF Commit, Busy, TypeOK
  <2> QED BY <1>1, <2>1, <2>3, CommandStep, BusyRecord, Zenon DEF Commit
<1>2. ASSUME NEW t \in Threads, RecordRejection(t)
      PROVE  Busy'
  <2>1. response[t] \in Reply
    BY <1>2, Zenon DEF RecordRejection, Busy, ThreadInv
  <2> QED BY <1>2, <2>1, BusyRecord, Zenon DEF RecordRejection, Busy, TypeOK, tables
<1>3. CASE QuietStep
  BY <1>3, BusyQuiet, Zenon
<1>4. CASE UNCHANGED vars
  BY <1>4, Zenon DEF vars, Busy, TypeOK, ThreadInv, Succeeded
<1> QED BY <1>1, <1>2, <1>3, <1>4, StepKinds, Zenon

\* So the types hold for ever, and with them what a busy thread relies on.
LEMMA BusyAlways == Spec => []Busy
BY BusyInit, BusyStep, PTL DEF Spec

\* The tables, replay records and thread states of the relay always have the
\* shape the code gives them, for any frames, threads and connections.
THEOREM TypeCorrect == Spec => []TypeOK
<1>1. Busy => TypeOK
  BY Zenon DEF Busy
<1> QED BY <1>1, BusyAlways, PTL

-----------------------------------------------------------------------------
(* The replay table.                                                       *)

\* Only Record changes the replay table, and only where nothing is recorded.
LEMMA RecordsGrow ==
  ASSUME Busy, [Next]_vars
  PROVE  \A key \in ReplayKeys :
           replays[key] # None => replays'[key] = replays[key]
<1>1. ASSUME NEW t \in Threads, NEW result, Record(t, result)
      PROVE  \A key \in ReplayKeys :
               replays[key] # None => replays'[key] = replays[key]
  BY <1>1, Zenon DEF Record, Busy, TypeOK
<1>2. CASE \E t \in Threads : \/ CreateQueue(t) \/ Send(t) \/ Fetch(t)
                              \/ Acknowledge(t) \/ DeleteQueue(t)
  BY <1>1, <1>2, CommandStep, Zenon DEF Commit
<1>3. CASE \E t \in Threads : RecordRejection(t)
  BY <1>1, <1>3, Zenon DEF RecordRejection
<1>4. CASE QuietStep
  BY <1>4, QuietFrame, Zenon
<1>5. CASE UNCHANGED vars
  BY <1>5, Zenon DEF vars
<1> QED BY <1>2, <1>3, <1>4, <1>5, StepKinds, Zenon

\* replay.rs inserts records and never updates or deletes one.
THEOREM RecordsArePermanent == Spec => RecordsPermanent
<1>1. Busy /\ [Next]_vars =>
        [\A key \in ReplayKeys :
           replays[key] # None => replays'[key] = replays[key]]_vars
  BY RecordsGrow, Zenon
<1> QED BY <1>1, BusyAlways, PTL DEF Spec, RecordsPermanent

ExchangeInv == EffectOnce /\ ReplyIsRecorded

\* Before the first frame nothing is recorded or applied.
LEMMA ExchangeInit == Init => ExchangeInv
BY KeyType, Zenon DEF Init, ExchangeInv, EffectOnce, ReplyIsRecorded

\* Once thread t has recorded its reply, what the table prescribes for its
\* frame is that reply.
LEMMA AfterRecord ==
  ASSUME Busy, NEW t \in Threads, NEW result \in Reply, pc[t] # "idle",
         Record(t, result)
  PROVE  /\ frame[t] \in Frames
         /\ replays'[KeyOf(frame[t])] =
              [request |-> frame[t], response |-> result]
         /\ replays'[KeyOf(frame[t])] # None
         /\ \A key \in ReplayKeys :
              key # KeyOf(frame[t]) => replays'[key] = replays[key]
<1>1. frame[t] \in Frames /\ KeyOf(frame[t]) \in ReplayKeys
  BY KeyType, Zenon DEF Busy, ThreadInv
<1>2. [request |-> frame[t], response |-> result] # None
  BY <1>1, DurableAssumption DEF ReplayRecord
<1> QED BY <1>1, <1>2, Zenon DEF Record, Busy, TypeOK

\* Recording keeps every pending reply what the table prescribes.
LEMMA ReplyRecord ==
  ASSUME Busy, ReplyIsRecorded, NEW t \in Threads, NEW result \in Reply,
         pc[t] \in {"execute", "rejected"}, Record(t, result), UNCHANGED frame
  PROVE  ReplyIsRecorded'
<1>0. /\ frame[t] \in Frames
      /\ replays'[KeyOf(frame[t])] =
           [request |-> frame[t], response |-> result]
      /\ replays'[KeyOf(frame[t])] # None
      /\ \A key \in ReplayKeys :
           key # KeyOf(frame[t]) => replays'[key] = replays[key]
  BY AfterRecord, Zenon
<1>1. SUFFICES ASSUME NEW u \in Threads, pc'[u] = "respond"
               PROVE  IF OutOfRange(frame[u].request)
                      THEN response'[u] = Status("LimitOutOfRange")
                      ELSE /\ replays'[KeyOf(frame[u])] # None
                           /\ response'[u] = Replayed(frame[u])'
  BY Zenon DEF ReplyIsRecorded
<1>2. CASE u = t
  <2>1. ~OutOfRange(frame[t].request)
    BY Zenon DEF Busy, ThreadInv
  <2>2. response'[t] = result
    BY Zenon DEF Record, Busy, TypeOK
  <2> QED BY <1>2, <2>1, <2>2, <1>0 DEF Replayed
<1>3. CASE u # t
  <2>1. pc[u] = "respond" /\ response'[u] = response[u]
    BY <1>1, <1>3, Zenon DEF Record, Goto, Busy, TypeOK
  <2>2. CASE OutOfRange(frame[u].request)
    BY <2>1, <2>2, Zenon DEF ReplyIsRecorded
  <2>3. CASE ~OutOfRange(frame[u].request)
    <3>1. /\ replays[KeyOf(frame[u])] # None
          /\ response[u] = Replayed(frame[u])
      BY <2>1, <2>3, Zenon DEF ReplyIsRecorded
    <3>2. frame[u] \in Frames /\ KeyOf(frame[u]) \in ReplayKeys
      BY <2>1, KeyType, Zenon DEF Busy, ThreadInv
    <3>3. KeyOf(frame[u]) # KeyOf(frame[t])
      BY <3>1, Zenon DEF Record
    <3>4. replays'[KeyOf(frame[u])] = replays[KeyOf(frame[u])]
      BY <3>2, <3>3, <1>0, Zenon
    <3> QED BY <2>1, <2>3, <3>1, <3>4, Zenon DEF Replayed
  <2> QED BY <2>2, <2>3, Zenon
<1> QED BY <1>2, <1>3, Zenon

\* Recording a success counts the frame's effect once; recording a refusal
\* counts none.
LEMMA EffectRecord ==
  ASSUME Busy, EffectOnce, NEW t \in Threads, NEW result \in Reply,
         pc[t] # "idle", Record(t, result),
         applied' = IF Succeeded(result)
                    THEN [applied EXCEPT ![frame[t]] = @ + 1] ELSE applied
  PROVE  EffectOnce'
<1>0. /\ frame[t] \in Frames
      /\ replays'[KeyOf(frame[t])] =
           [request |-> frame[t], response |-> result]
      /\ replays'[KeyOf(frame[t])] # None
      /\ \A key \in ReplayKeys :
           key # KeyOf(frame[t]) => replays'[key] = replays[key]
  BY AfterRecord, Zenon
<1>1. SUFFICES ASSUME NEW f \in Frames
               PROVE  applied'[f] = IF /\ replays'[KeyOf(f)] # None
                                       /\ replays'[KeyOf(f)].request = f
                                       /\ Succeeded(replays'[KeyOf(f)].response)
                                    THEN 1 ELSE 0
  BY Zenon DEF EffectOnce, Succeeded
<1>2. applied \in [Frames -> Nat] /\ KeyOf(f) \in ReplayKeys
  BY KeyType, Zenon DEF Busy, TypeOK
<1>3. CASE f = frame[t]
  <2>1. applied[f] = 0
    BY <1>3, Zenon DEF EffectOnce, Record
  <2> QED BY <1>2, <1>3, <2>1, <1>0
<1>4. CASE f # frame[t] /\ KeyOf(f) = KeyOf(frame[t])
  <2>1. applied[f] = 0
    BY <1>4, Zenon DEF EffectOnce, Record
  <2> QED BY <1>2, <1>4, <2>1, <1>0
<1>5. CASE f # frame[t] /\ KeyOf(f) # KeyOf(frame[t])
  <2>1. replays'[KeyOf(f)] = replays[KeyOf(f)] /\ applied'[f] = applied[f]
    BY <1>2, <1>5, <1>0, Zenon
  <2> QED BY <2>1, Zenon DEF EffectOnce
<1> QED BY <1>3, <1>4, <1>5, Zenon

\* A quiet step hands over only what the table prescribes.
LEMMA ReplyQuiet ==
  ASSUME Busy, ReplyIsRecorded, QuietStep
  PROVE  ReplyIsRecorded'
<1>1. replays' = replays
  BY QuietFrame, Zenon
<1>2. SUFFICES ASSUME NEW u \in Threads, pc'[u] = "respond"
               PROVE  IF OutOfRange(frame'[u].request)
                      THEN response'[u] = Status("LimitOutOfRange")
                      ELSE /\ replays[KeyOf(frame'[u])] # None
                           /\ response'[u] = Replayed(frame'[u])
  BY <1>1, Zenon DEF ReplyIsRecorded, Replayed
<1>3. CASE /\ pc[u] = "respond" /\ frame'[u] = frame[u]
           /\ response'[u] = response[u]
  BY <1>3, Zenon DEF ReplyIsRecorded
<1>4. ASSUME NEW t \in Threads, NEW f \in Frames, Accept(t, f)
      PROVE  \/ /\ pc[u] = "respond" /\ frame'[u] = frame[u]
                /\ response'[u] = response[u]
             \/ /\ OutOfRange(frame'[u].request)
                /\ response'[u] = Status("LimitOutOfRange")
  BY <1>2, <1>4, Zenon DEF Accept, Goto, Busy, TypeOK
<1>5. ASSUME NEW t \in Threads, Lookup(t) \/ ReadBack(t)
      PROVE  \/ /\ pc[u] = "respond" /\ frame'[u] = frame[u]
                /\ response'[u] = response[u]
             \/ /\ frame'[u] = frame[u] /\ ~OutOfRange(frame[u].request)
                /\ replays[KeyOf(frame[u])] # None
                /\ response'[u] = Replayed(frame[u])
  BY <1>2, <1>5 DEF Lookup, ReadBack, Goto, Busy, TypeOK, ThreadInv
<1>6. ASSUME NEW t \in Threads, Reject(t) \/ InsertConflict(t)
      PROVE  /\ pc[u] = "respond" /\ frame'[u] = frame[u]
             /\ response'[u] = response[u]
  BY <1>2, <1>6, Zenon DEF Reject, InsertConflict, Goto, Busy, TypeOK
<1>7. ASSUME NEW stopped \in SUBSET Threads, Release(stopped)
      PROVE  /\ pc[u] = "respond" /\ frame'[u] = frame[u]
             /\ response'[u] = response[u]
  BY <1>2, <1>7, Zenon DEF Release, Busy, TypeOK
<1>8. CASE Tick
  BY <1>2, <1>3, <1>8, Zenon DEF Tick, thread
<1> QED BY <1>3, <1>4, <1>5, <1>6, <1>7, <1>8, Zenon DEF QuietStep

\* Effects stay in step with records, and replies with records.
LEMMA ExchangeStep == Busy /\ ExchangeInv /\ [Next]_vars => ExchangeInv'
<1> SUFFICES ASSUME Busy, ExchangeInv, [Next]_vars PROVE ExchangeInv'
  BY Zenon
<1> USE DEF ExchangeInv
<1>1. ASSUME NEW t \in Threads,
             \/ CreateQueue(t) \/ Send(t) \/ Fetch(t)
             \/ Acknowledge(t) \/ DeleteQueue(t)
      PROVE  ExchangeInv'
  <2>1. PICK result \in Reply : /\ pc[t] = "execute" /\ Succeeded(result)
                                /\ Commit(t, result)
    BY <1>1, CommandStep, Zenon
  <2>2. EffectOnce'
    BY <2>1, EffectRecord, Zenon DEF Commit
  <2>3. ReplyIsRecorded'
    BY <2>1, ReplyRecord, Zenon DEF Commit
  <2> QED BY <2>2, <2>3, Zenon
<1>2. ASSUME NEW t \in Threads, RecordRejection(t)
      PROVE  ExchangeInv'
  <2>1. /\ pc[t] = "rejected" /\ response[t] \in Reply
        /\ ~Succeeded(response[t])
    BY <1>2, Zenon DEF RecordRejection, Busy, ThreadInv
  <2>2. EffectOnce'
    BY <1>2, <2>1, EffectRecord, Zenon DEF RecordRejection
  <2>3. ReplyIsRecorded'
    BY <1>2, <2>1, ReplyRecord, Zenon DEF RecordRejection
  <2> QED BY <2>2, <2>3, Zenon
<1>3. CASE QuietStep
  <2>1. EffectOnce'
    BY <1>3, QuietFrame, Zenon DEF EffectOnce, Succeeded
  <2> QED BY <1>3, <2>1, ReplyQuiet, Zenon
<1>4. CASE UNCHANGED vars
  BY <1>4, Zenon DEF vars, EffectOnce, ReplyIsRecorded, Replayed, Succeeded
<1> QED BY <1>1, <1>2, <1>3, <1>4, StepKinds, Zenon

\* Both hold for ever.
LEMMA ExchangeAlways == Spec => []ExchangeInv
BY BusyAlways, ExchangeInit, ExchangeStep, PTL DEF Spec

\* Whatever connections race, crash and retry, the effect of a frame commits
\* at most once, and exactly when its record holds a success.
THEOREM ExactlyOnce == Spec => []EffectOnce
<1>1. ExchangeInv => EffectOnce
  BY Zenon DEF ExchangeInv
<1> QED BY <1>1, ExchangeAlways, PTL

\* Every reply that exchange_at hands over is the one on record, whichever
\* connection recorded it first.
THEOREM RepliesAreRecorded == Spec => []ReplyIsRecorded
<1>1. ExchangeInv => ReplyIsRecorded
  BY Zenon DEF ExchangeInv
<1> QED BY <1>1, ExchangeAlways, PTL

-----------------------------------------------------------------------------
(* The invariants of tables queues and messages.                           *)

TablesInv == Integrity /\ DeliveredIsHead

\* Empty tables satisfy every constraint.
LEMMA TablesInit == Init => TablesInv
BY Zenon DEF Init, TablesInv, Integrity, DeliveredIsHead

\* Removing rows breaks nothing, as long as the queues of the others stay.
LEMMA TablesShrink ==
  ASSUME Busy, TablesInv, messages' \subseteq messages,
         \A m \in messages' : queues'[m.queue] # None
  PROVE  TablesInv'
<1>1. Integrity'
  BY Zenon DEF TablesInv, Integrity
<1>2. DeliveredIsHead'
  BY Zenon DEF TablesInv, DeliveredIsHead, First, RowsOf
<1> QED BY <1>1, <1>2, Zenon DEF TablesInv

\* A created queue takes no row from another.
LEMMA TablesCreate ==
  ASSUME Busy, TablesInv, NEW t \in Threads, CreateQueue(t)
  PROVE  TablesInv'
<1> DEFINE r == frame[t].request
<1>1. /\ r.queue \in QueueIds /\ r.config \in Configs
      /\ queues \in [QueueIds -> Configs \cup {None}]
  BY RequestShape, Zenon DEF CreateQueue, Runs, Busy, ThreadInv, TypeOK
<1>2. CASE queues' = queues /\ messages' = messages
  BY <1>2, TablesShrink, Zenon DEF TablesInv, Integrity
<1>3. CASE /\ queues[r.queue] = None
           /\ queues' = [queues EXCEPT ![r.queue] = r.config]
           /\ messages' = messages
  <2>1. r.config # None
    BY <1>1, ProtocolAssumption, Zenon
  <2>2. Integrity'
    BY <1>1, <1>3, <2>1, Zenon DEF TablesInv, Integrity, Busy, TypeOK, MessageRow
  <2>3. DeliveredIsHead'
    BY <1>3, Zenon DEF TablesInv, DeliveredIsHead, First, RowsOf
  <2> QED BY <2>2, <2>3, Zenon DEF TablesInv
<1> QED BY <1>2, <1>3, Zenon DEF CreateQueue, tables

\* An accepted message: a new row behind every other.
LEMMA TablesAccept ==
  ASSUME Busy, TablesInv, NEW id \in QueueIds, NEW at \in Timestamps,
         NEW new \in MessageRow, new.queue = id, ~new.delivered,
         queues[id] # None, queues' = queues,
         \A m \in Live(id, at) : m.id # new.id,
         \A m \in messages \ Expired(id, at) : m.sequence < new.sequence,
         messages' = (messages \ Expired(id, at)) \cup {new}
  PROVE  TablesInv'
<1> DEFINE kept == messages \ Expired(id, at)
<1>1. /\ kept \subseteq messages
      /\ \A m \in kept : m.queue = id => m \in Live(id, at)
  BY Zenon DEF Live, RowsOf
<1>2. /\ \A m \in kept : m.sequence # new.sequence
      /\ \A m \in kept : m.sequence \in Nat
      /\ new.sequence \in Nat
  BY <1>1, DurableAssumption DEF Busy, TypeOK, MessageRow
<1>3. Integrity'
  BY <1>1, <1>2 DEF TablesInv, Integrity
<1>4. DeliveredIsHead'
  <2>1. SUFFICES ASSUME NEW m \in messages', m.delivered,
                        NEW n \in messages', n.queue = m.queue
                 PROVE  m.sequence <= n.sequence
    BY Zenon DEF DeliveredIsHead, First, RowsOf
  <2>2. m \in kept
    BY <2>1, Zenon
  <2>3. CASE n \in kept
    BY <1>1, <2>1, <2>2, <2>3, Zenon DEF TablesInv, DeliveredIsHead, First, RowsOf
  <2>4. CASE n = new
    BY <1>2, <2>2, <2>4
  <2> QED BY <2>3, <2>4, Zenon
<1> QED BY <1>3, <1>4, Zenon DEF TablesInv

\* A fetched message: the first live row, marked, once its expired
\* predecessors are gone.
LEMMA TablesDeliver ==
  ASSUME Busy, TablesInv, NEW id \in QueueIds, NEW at \in Timestamps,
         NEW m \in First(Live(id, at)), queues' = queues,
         messages' = ((messages \ Expired(id, at)) \ {m}) \cup
                       {[m EXCEPT !.delivered = TRUE]}
  PROVE  TablesInv'
<1> DEFINE kept == messages \ Expired(id, at)
           marked == [m EXCEPT !.delivered = TRUE]
<1>1. /\ m \in kept /\ m.queue = id /\ kept \subseteq messages
      /\ \A n \in kept : n.queue = id => m.sequence <= n.sequence
  BY Zenon DEF First, Live, RowsOf
<1>2. /\ m \in MessageRow
      /\ marked.sequence = m.sequence /\ marked.queue = m.queue
      /\ marked.id = m.id
      /\ \A n \in kept : n.sequence \in Nat
  BY <1>1, DurableAssumption DEF Busy, TypeOK, MessageRow
<1> HIDE DEF marked
<1>3. /\ \A n \in messages' : n = marked \/ (n \in kept /\ n # m)
      /\ \A n \in messages' :
           \E k \in kept : n.sequence = k.sequence /\ n.queue = k.queue
  <2>1. messages' = (kept \ {m}) \cup {marked}
    BY Zenon DEF marked
  <2> QED BY <1>1, <1>2, <2>1, Zenon
<1>4. Integrity'
  <2>1. SUFFICES ASSUME NEW n \in messages', NEW o \in messages',
                        \/ n.sequence = o.sequence
                        \/ n.queue = o.queue /\ n.id = o.id
                 PROVE  n = o
    BY <1>1, <1>2, <1>3 DEF TablesInv, Integrity
  <2>2. \A k, l \in kept : k.sequence = l.sequence
                             \/ (k.queue = l.queue /\ k.id = l.id) => k = l
    BY <1>1, Zenon DEF TablesInv, Integrity
  <2>3. CASE n \in kept /\ n # m /\ o = marked
    BY <1>1, <1>2, <2>1, <2>2, <2>3, Zenon
  <2>4. CASE n = marked /\ o \in kept /\ o # m
    BY <1>1, <1>2, <2>1, <2>2, <2>4, Zenon
  <2> QED BY <1>3, <2>1, <2>2, <2>3, <2>4
<1>5. DeliveredIsHead'
  <2>1. SUFFICES ASSUME NEW n \in messages', n.delivered,
                        NEW o \in messages', o.queue = n.queue
                 PROVE  n.sequence <= o.sequence
    BY Zenon DEF DeliveredIsHead, First, RowsOf
  <2>2. PICK k \in kept : k.sequence = o.sequence /\ k.queue = o.queue
    BY <1>3, Zenon
  <2>3. CASE n = marked
    BY <1>1, <1>2, <2>1, <2>2, <2>3, Zenon
  <2>4. CASE n \in kept
    BY <1>1, <2>1, <2>2, <2>4, Zenon DEF TablesInv, DeliveredIsHead, First, RowsOf
  <2> QED BY <1>3, <2>3, <2>4, Zenon
<1> QED BY <1>4, <1>5, Zenon DEF TablesInv

\* Both outcomes of a SEND, the duplicate and the new message, keep the
\* constraints.
LEMMA TablesSend ==
  ASSUME Busy, TablesInv, NEW t \in Threads, Send(t)
  PROVE  TablesInv'
<1> DEFINE r == frame[t].request
<1>1. /\ r \in SendRequest /\ r.queue \in QueueIds /\ now[t] \in Timestamps
      /\ SendRefusal(r, now[t]) = {}
  BY RequestShape, Zenon DEF Send, Runs, Refusal, Busy, ThreadInv, TypeOK
<1>2. queues' = queues
  BY Zenon DEF Send
<1>3. CASE messages' = messages \ Expired(r.queue, now[t])
  BY <1>2, <1>3, TablesShrink, Zenon DEF TablesInv, Integrity
<1>4. CASE /\ \A m \in Live(r.queue, now[t]) : m.id # r.message
           /\ \E s \in 1 .. MaxSequence :
                /\ IsNextSequence(s, messages \ Expired(r.queue, now[t]))
                /\ messages' = (messages \ Expired(r.queue, now[t])) \cup
                    {[sequence |-> s, queue |-> r.queue, id |-> r.message,
                      payload |-> r.payload, expires_at |-> now[t] + r.ttl,
                      delivered |-> FALSE]}
  <2>1. PICK s \in 1 .. MaxSequence :
                /\ IsNextSequence(s, messages \ Expired(r.queue, now[t]))
                /\ messages' = (messages \ Expired(r.queue, now[t])) \cup
                    {[sequence |-> s, queue |-> r.queue, id |-> r.message,
                      payload |-> r.payload, expires_at |-> now[t] + r.ttl,
                      delivered |-> FALSE]}
    BY <1>4, Zenon
  <2> DEFINE new == [sequence |-> s, queue |-> r.queue, id |-> r.message,
                     payload |-> r.payload, expires_at |-> now[t] + r.ttl,
                     delivered |-> FALSE]
  <2>2. now[t] + r.ttl \in Timestamps
    BY <1>1, <1>4, AcceptedExpiry, Zenon
  <2>3. new \in MessageRow
    BY <1>1, <2>2, Zenon DEF MessageRow, SendRequest
  <2>4. {m \in Live(r.queue, now[t]) : m.id = r.message} = {}
    BY <1>4, Zenon
  <2>5. queues[r.queue] # None
    BY <1>1, <2>4, Zenon DEF SendRefusal
  <2>7. \A m \in messages \ Expired(r.queue, now[t]) : m.sequence < s
    BY <2>1, Zenon DEF IsNextSequence
  <2>8. messages' = (messages \ Expired(r.queue, now[t])) \cup {new}
    BY <2>1, Zenon
  <2>9. new.queue = r.queue /\ new.id = r.message /\ new.sequence = s
        /\ ~new.delivered
    BY Zenon
  <2> HIDE DEF new
  <2>10. \A m \in Live(r.queue, now[t]) : m.id # new.id
    BY <1>4, <2>9, Zenon
  <2>11. \A m \in messages \ Expired(r.queue, now[t]) : m.sequence < new.sequence
    BY <2>7, <2>9, Zenon
  <2>12. r.queue \in QueueIds /\ now[t] \in Timestamps
    BY <1>1, Zenon DEF SendRequest
  <2> HIDE DEF r
  <2> QED BY <1>2, <2>3, <2>5, <2>8, <2>9, <2>10, <2>11, <2>12, TablesAccept, Zenon
<1> QED BY <1>3, <1>4, Zenon DEF Send

\* Every step keeps the constraints of the tables.
LEMMA TablesStep == Busy /\ TablesInv /\ [Next]_vars => TablesInv'
<1> SUFFICES ASSUME Busy, TablesInv, [Next]_vars PROVE TablesInv'
  BY Zenon
<1>1. ASSUME NEW t \in Threads, CreateQueue(t) PROVE TablesInv'
  BY <1>1, TablesCreate, Zenon
<1>2. ASSUME NEW t \in Threads, Send(t) PROVE TablesInv'
  BY <1>2, TablesSend, Zenon
<1>3. ASSUME NEW t \in Threads, Fetch(t) PROVE TablesInv'
  <2>1. frame[t].request.queue \in QueueIds /\ now[t] \in Timestamps
    BY <1>3, RequestShape, Zenon DEF Fetch, Runs, Busy, ThreadInv, TypeOK
  <2>2. queues' = queues
    BY <1>3, Zenon DEF Fetch
  <2>3. CASE messages' = messages \ Expired(frame[t].request.queue, now[t])
    BY <2>2, <2>3, TablesShrink, Zenon DEF TablesInv, Integrity
  <2> QED BY <1>3, <2>1, <2>2, <2>3, TablesDeliver, Zenon DEF Fetch
<1>4. ASSUME NEW t \in Threads, Acknowledge(t) PROVE TablesInv'
  <2>1. queues' = queues /\ messages' \subseteq messages
    BY <1>4, Zenon DEF Acknowledge
  <2> QED BY <2>1, TablesShrink, Zenon DEF TablesInv, Integrity
<1>5. ASSUME NEW t \in Threads, DeleteQueue(t) PROVE TablesInv'
  <2> DEFINE id == frame[t].request.queue
  <2>1. /\ messages' \subseteq messages
        /\ \A m \in messages' : m.queue # id
        /\ queues' = [queues EXCEPT ![id] = None]
    BY <1>5, Zenon DEF DeleteQueue, RowsOf
  <2>2. queues \in [QueueIds -> Configs \cup {None}]
    BY Zenon DEF Busy, TypeOK
  <2>3. \A m \in messages' : queues'[m.queue] # None
    BY <2>1, <2>2, Zenon DEF TablesInv, Integrity, Busy, TypeOK, MessageRow
  <2> QED BY <2>1, <2>2, <2>3, TablesShrink, Zenon
<1>6. CASE UNCHANGED <<queues, messages>>
  BY <1>6, TablesShrink, Zenon DEF TablesInv, Integrity
<1>7. CASE \E t \in Threads : RecordRejection(t)
  BY <1>6, <1>7, Zenon DEF RecordRejection, tables
<1>8. CASE QuietStep
  BY <1>6, <1>8, QuietFrame, Zenon
<1>9. CASE UNCHANGED vars
  BY <1>6, <1>9, Zenon DEF vars
<1> QED BY <1>1, <1>2, <1>3, <1>4, <1>5, <1>7, <1>8, <1>9, StepKinds, Zenon

\* They hold for ever, for a clock that may be set back.
LEMMA TablesAlways == Spec => []TablesInv
BY BusyAlways, TablesInit, TablesStep, PTL DEF Spec

\* The UNIQUE and FOREIGN KEY constraints of table messages hold for ever, in
\* spite of races, crashes, expiry and reused row identifiers.
THEOREM ConstraintsHold == Spec => []Integrity
<1>1. TablesInv => Integrity
  BY Zenon DEF TablesInv
<1> QED BY <1>1, TablesAlways, PTL

\* The message marked delivered is always the head of its queue, also when the
\* clock is set back.
THEOREM DeliveredStaysHead == Spec => []DeliveredIsHead
<1>1. TablesInv => DeliveredIsHead
  BY Zenon DEF TablesInv
<1> QED BY <1>1, TablesAlways, PTL

-----------------------------------------------------------------------------
(* Messages while the clock is never set back.                             *)

\* Threads work with times sampled in the past.
SampledBefore == \A t \in Threads : now[t] <= clock

\* The record of the frame answers that its message was accepted.
RecordedAccepted(f) ==
  /\ replays[KeyOf(f)] # None
  /\ replays[KeyOf(f)].request = f
  /\ replays[KeyOf(f)].response.status = "Accepted"

\* Only SENDs are answered so.
AcceptedAreSends ==
  \A f \in Frames : RecordedAccepted(f) => f.request.command = "SEND"

LossInv == SampledBefore /\ AcceptedAreSends /\ NoSilentLoss

Same(m, n) == /\ n.queue = m.queue /\ n.id = m.id
              /\ n.payload = m.payload /\ n.expires_at = m.expires_at
              /\ n.sequence = m.sequence
              /\ m.delivered => n.delivered

\* Nothing has been accepted, or sampled late, at the start.
LEMMA LossInit == Init => LossInv
BY KeyType, ProtocolAssumption
   DEF Init, LossInv, SampledBefore, NoSilentLoss, Timestamps,
       AcceptedAreSends, RecordedAccepted

\* A thread samples the clock and the clock only moves on: Tick is the only
\* step that changes it.
LEMMA SampledStep ==
  ASSUME ClockMayStepBack = FALSE, Busy, SampledBefore, [Next]_vars
  PROVE  SampledBefore' /\ clock <= clock'
<1> USE ProtocolAssumption
<1>0. clock \in Nat /\ \A t \in Threads : now[t] \in Nat
  BY DEF Busy, TypeOK, Timestamps
<1>1. ASSUME NEW t \in Threads, NEW f \in Frames, Accept(t, f)
      PROVE  SampledBefore' /\ clock <= clock'
  BY <1>0, <1>1 DEF Accept, SampledBefore, Busy, TypeOK
<1>2. ASSUME NEW stopped \in SUBSET Threads, Release(stopped)
      PROVE  SampledBefore' /\ clock <= clock'
  BY <1>0, <1>2 DEF Release, SampledBefore
<1>3. CASE Tick
  BY <1>0, <1>3 DEF Tick, SampledBefore, thread
<1>4. CASE UNCHANGED <<clock, now>>
  BY <1>0, <1>4 DEF SampledBefore
<1>5. ASSUME NEW t \in Threads,
             Lookup(t) \/ Reject(t) \/ InsertConflict(t) \/ ReadBack(t)
      PROVE  UNCHANGED <<clock, now>>
  BY <1>5, Zenon DEF Lookup, Reject, InsertConflict, ReadBack
<1>6. ASSUME NEW t \in Threads,
             \/ CreateQueue(t) \/ Send(t) \/ Fetch(t)
             \/ Acknowledge(t) \/ DeleteQueue(t)
      PROVE  UNCHANGED <<clock, now>>
  BY <1>6, CommandStep, Zenon DEF Commit
<1>7. ASSUME NEW t \in Threads, RecordRejection(t)
      PROVE  UNCHANGED <<clock, now>>
  BY <1>7, Zenon DEF RecordRejection
<1>8. CASE QuietStep
  BY <1>1, <1>2, <1>3, <1>4, <1>5, <1>8, Zenon DEF QuietStep
<1>9. CASE UNCHANGED vars
  BY <1>4, <1>9, Zenon DEF vars
<1> QED BY <1>4, <1>6, <1>7, <1>8, <1>9, StepKinds, Zenon

\* Expiry cleanup spares what has not expired on the clock.
LEMMA CleanupSpares ==
  ASSUME Busy, SampledBefore, NEW t \in Threads, NEW id,
         NEW m \in messages, m.expires_at > clock
  PROVE  /\ m \in messages \ Expired(id, now[t])
         /\ m.queue = id => m \in Live(id, now[t])
<1>1. /\ m.expires_at \in Nat /\ clock \in Nat /\ now[t] \in Nat
      /\ now[t] <= clock
  BY ProtocolAssumption DEF Busy, TypeOK, MessageRow, Timestamps, SampledBefore
<1>2. ~(m.expires_at <= now[t])
  BY <1>1
<1> QED BY <1>2, Zenon DEF Expired, Live, RowsOf

\* A committed command keeps every unexpired message, except the one it
\* acknowledges and those of the queue it deletes, and puts no other message
\* in its place.
LEMMA Survival ==
  ASSUME Busy, TablesInv, SampledBefore, NEW t \in Threads,
         \/ CreateQueue(t) \/ Send(t) \/ Fetch(t)
         \/ Acknowledge(t) \/ DeleteQueue(t),
         NEW m \in messages, m.expires_at > clock
  PROVE  /\ \/ \E n \in messages' : Same(m, n)
            \/ /\ frame[t].request.queue = m.queue
               /\ \/ frame[t].request.command = "DELETE_QUEUE"
                  \/ /\ frame[t].request.command = "ACK"
                     /\ frame[t].request.message = m.id
         /\ \A n \in messages' : n.queue = m.queue /\ n.id = m.id => Same(m, n)
<1> DEFINE r == frame[t].request
           kept == messages \ Expired(r.queue, now[t])
<1>1. m \in kept /\ (m.queue = r.queue => m \in Live(r.queue, now[t]))
  BY CleanupSpares, Zenon
<1>2. Same(m, m)
  BY Zenon DEF Same
<1>3. \A n \in messages : n.queue = m.queue /\ n.id = m.id => n = m
  BY Zenon DEF TablesInv, Integrity
<1>4. CASE messages' \subseteq messages /\ m \in messages'
  BY <1>2, <1>3, <1>4, Zenon
<1>5. CASE CreateQueue(t)
  BY <1>4, <1>5, Zenon DEF CreateQueue
<1>6. CASE Send(t)
  <2>1. CASE messages' = kept
    BY <1>1, <1>4, <2>1, Zenon
  <2>2. CASE /\ \A n \in Live(r.queue, now[t]) : n.id # r.message
             /\ \E s \in 1 .. MaxSequence :
                  messages' = kept \cup
                    {[sequence |-> s, queue |-> r.queue, id |-> r.message,
                      payload |-> r.payload, expires_at |-> now[t] + r.ttl,
                      delivered |-> FALSE]}
    <3>1. \A n \in messages' :
            n \in messages \/ (n.queue = r.queue /\ n.id = r.message)
      BY <2>2
    <3>2. m \in messages'
      BY <1>1, <2>2, Zenon
    <3>3. ~(m.queue = r.queue /\ m.id = r.message)
      BY <1>1, <2>2, Zenon
    <3> QED BY <1>2, <1>3, <3>1, <3>2, <3>3, Zenon
  <2> QED BY <1>6, <2>1, <2>2, Zenon DEF Send
<1>7. CASE Fetch(t)
  <2>1. CASE messages' = kept
    BY <1>1, <1>4, <2>1, Zenon
  <2>2. ASSUME NEW k \in First(Live(r.queue, now[t])),
               messages' = (kept \ {k}) \cup {[k EXCEPT !.delivered = TRUE]}
        PROVE  /\ \E n \in messages' : Same(m, n)
               /\ \A n \in messages' :
                    n.queue = m.queue /\ n.id = m.id => Same(m, n)
    <3> DEFINE marked == [k EXCEPT !.delivered = TRUE]
    <3>1. k \in messages /\ k \in MessageRow
      BY Zenon DEF First, Live, RowsOf, Busy, TypeOK
    <3>2. Same(k, marked) /\ marked.queue = k.queue /\ marked.id = k.id
      BY <3>1, Zenon DEF Same, MessageRow
    <3>3. \A n \in messages' : n = marked \/ (n \in messages /\ n # k)
      BY <2>2, Zenon
    <3>4. marked \in messages'
      BY <2>2, Zenon
    <3> HIDE DEF marked
    <3>5. CASE m = k
      BY <1>3, <3>2, <3>3, <3>4, <3>5, Zenon
    <3>6. CASE m # k
      <4>1. m \in messages'
        BY <1>1, <2>2, <3>6, Zenon
      <4> QED BY <1>2, <1>3, <3>1, <3>2, <3>3, <3>6, <4>1, Zenon
    <3> QED BY <3>5, <3>6, Zenon
  <2> QED BY <1>7, <2>1, <2>2, Zenon DEF Fetch
<1>8. CASE Acknowledge(t)
  <2>1. /\ r.command = "ACK" /\ AckRefusal(r, now[t]) = {}
        /\ messages' = kept \ First(Live(r.queue, now[t]))
    BY <1>8, Zenon DEF Acknowledge, Runs, Refusal
  <2>2. CASE m \in First(Live(r.queue, now[t]))
    <3>1. PICK n \in First(Live(r.queue, now[t])) : n.id = r.message
      BY <2>1, Zenon DEF AckRefusal
    <3>2. n.sequence = m.sequence
      <4>1. /\ n.sequence \in Nat /\ m.sequence \in Nat
            /\ n.sequence <= m.sequence /\ m.sequence <= n.sequence
        BY <2>2, DurableAssumption
           DEF First, Live, RowsOf, Busy, TypeOK, MessageRow
      <4> QED BY <4>1
    <3>3. n = m
      BY <3>2, Zenon DEF First, Live, RowsOf, TablesInv, Integrity
    <3>4. m.queue = r.queue
      BY <2>2, Zenon DEF First, Live, RowsOf
    <3> QED BY <1>2, <1>3, <2>1, <3>1, <3>3, <3>4, Zenon
  <2>3. CASE m \notin First(Live(r.queue, now[t]))
    BY <1>1, <1>4, <2>1, <2>3, Zenon
  <2> QED BY <2>2, <2>3, Zenon
<1>9. CASE DeleteQueue(t)
  <2>1. r.command = "DELETE_QUEUE" /\ messages' = messages \ RowsOf(r.queue)
    BY <1>9, Zenon DEF DeleteQueue, Runs
  <2>2. CASE m.queue = r.queue
    BY <1>2, <1>3, <2>1, <2>2, Zenon
  <2>3. CASE m.queue # r.queue
    BY <1>4, <2>1, <2>3, Zenon DEF RowsOf
  <2> QED BY <2>2, <2>3, Zenon
<1> QED BY <1>5, <1>6, <1>7, <1>8, <1>9, Zenon

-----------------------------------------------------------------------------
(* No message is lost.                                                     *)

\* A command that answers Accepted is a SEND that stored its message, with an
\* expiry no earlier than its TTL.
LEMMA AcceptedStores ==
  ASSUME Busy, NEW t \in Threads, NEW result \in Reply,
         \/ CreateQueue(t) \/ Send(t) \/ Fetch(t)
         \/ Acknowledge(t) \/ DeleteQueue(t),
         Commit(t, result), result.status = "Accepted"
  PROVE  frame[t].request.command = "SEND" /\ Stored(frame[t].request)'
<1> DEFINE r == frame[t].request
<1>1. pc[t] = "execute" /\ frame[t] \in Frames /\ now[t] \in Timestamps
  BY CommandStep, Zenon DEF Busy, TypeOK, ThreadInv
<1>2. response'[t] = result
  BY Zenon DEF Commit, Record, Busy, TypeOK
<1>3. ASSUME NEW other, Commit(t, other)
      PROVE  other.status = "Accepted"
  BY <1>2, <1>3, Zenon DEF Commit, Record, Busy, TypeOK
<1>4. \A st : Status(st).status = st
  BY Zenon DEF Status
<1>5. \A m : DeliveryOf(m).status = "Delivery"
  BY Zenon DEF DeliveryOf
<1>6. Send(t)
  <2>1. ~CreateQueue(t)
    BY <1>3, <1>4 DEF CreateQueue
  <2>2. ~Fetch(t)
    BY <1>3, <1>4, <1>5, Zenon DEF Fetch
  <2>3. ~Acknowledge(t) /\ ~DeleteQueue(t)
    BY <1>3, <1>4 DEF Acknowledge, DeleteQueue
  <2> QED BY <2>1, <2>2, <2>3, Zenon
<1>7. PICK s \in 1 .. MaxSequence :
        messages' = (messages \ Expired(r.queue, now[t])) \cup
                    {[sequence |-> s, queue |-> r.queue, id |-> r.message,
                      payload |-> r.payload, expires_at |-> now[t] + r.ttl,
                      delivered |-> FALSE]}
  BY <1>3, <1>4, <1>6, Zenon DEF Send
<1>8. r \in SendRequest
  BY <1>1, <1>6, RequestShape, Zenon DEF Send, Runs
<1>9. now[t] + r.ttl >= r.ttl
  BY <1>1, <1>8, ProtocolAssumption DEF SendRequest, Timestamps
<1>10. frame'[t] = frame[t]
  BY Zenon DEF Commit
<1>11. r.command = "SEND"
  BY <1>6, Zenon DEF Send, Runs
<1>12. Stored(frame[t].request)'
  <2> DEFINE new == [sequence |-> s, queue |-> r.queue, id |-> r.message,
                     payload |-> r.payload, expires_at |-> now[t] + r.ttl,
                     delivered |-> FALSE]
  <2>1. /\ new \in messages' /\ new.queue = r.queue /\ new.id = r.message
        /\ new.payload = r.payload /\ new.expires_at >= r.ttl
    BY <1>7, <1>9, Zenon
  <2> HIDE DEF new
  <2>2. \E m \in messages' : /\ m.queue = r.queue /\ m.id = r.message
                             /\ m.payload = r.payload /\ m.expires_at >= r.ttl
    BY <2>1, Zenon
  <2> QED BY <1>10, <2>2, Zenon DEF Stored
<1> QED BY <1>11, <1>12, Zenon

\* A step never uncounts an effect.
LEMMA AppliedGrows ==
  ASSUME Busy, [Next]_vars, NEW g \in Frames, applied[g] > 0
  PROVE  applied'[g] > 0
<1>1. applied \in [Frames -> Nat]
  BY Zenon DEF Busy, TypeOK
<1>2. ASSUME NEW t \in Threads,
             \/ CreateQueue(t) \/ Send(t) \/ Fetch(t)
             \/ Acknowledge(t) \/ DeleteQueue(t)
      PROVE  applied'[g] > 0
  <2>1. PICK result \in Reply : Commit(t, result)
    BY <1>2, CommandStep, Zenon
  <2> QED BY <1>1, <2>1 DEF Commit
<1>3. CASE \E t \in Threads : RecordRejection(t)
  BY <1>3, Zenon DEF RecordRejection
<1>4. CASE QuietStep
  BY <1>4, QuietFrame, Zenon
<1>5. CASE UNCHANGED vars
  BY <1>5, Zenon DEF vars
<1> QED BY <1>2, <1>3, <1>4, <1>5, StepKinds, Zenon

\* A message stored before a step is stored after it, unless the step
\* acknowledges it or deletes its queue.
LEMMA StaysStored ==
  ASSUME Busy, TablesInv, SampledBefore, [Next]_vars, NEW f \in Frames,
         f.request.command = "SEND", clock < f.request.ttl,
         Stored(f.request)
  PROVE  Stored(f.request)' \/ Released(f.request)'
<1> DEFINE r == f.request
<1>1. PICK m \in messages : /\ m.queue = r.queue /\ m.id = r.message
                            /\ m.payload = r.payload /\ m.expires_at >= r.ttl
  BY Zenon DEF Stored
<1>2. m.expires_at > clock
  <2>1. m.expires_at \in Nat /\ clock \in Nat
    BY ProtocolAssumption DEF Busy, TypeOK, MessageRow, Timestamps
  <2>2. r.ttl \in Nat
    BY RequestShape, ProtocolAssumption DEF SendRequest, Timestamps
  <2> QED BY <1>1, <2>1, <2>2
<1>3. ASSUME NEW t \in Threads,
             \/ CreateQueue(t) \/ Send(t) \/ Fetch(t)
             \/ Acknowledge(t) \/ DeleteQueue(t)
      PROVE  Stored(r)' \/ Released(r)'
  <2>1. CASE \E n \in messages' : Same(m, n)
    BY <1>1, <2>1, Zenon DEF Same, Stored
  <2>2. CASE /\ frame[t].request.queue = m.queue
             /\ \/ frame[t].request.command = "DELETE_QUEUE"
                \/ /\ frame[t].request.command = "ACK"
                   /\ frame[t].request.message = m.id
    <3>1. PICK result \in Reply : pc[t] = "execute" /\ Commit(t, result)
      BY <1>3, CommandStep, Zenon
    <3>2. frame[t] \in Frames
      BY <3>1, Zenon DEF Busy, ThreadInv
    <3>3. applied'[frame[t]] > 0
      BY <3>1, <3>2 DEF Commit, Busy, TypeOK
    <3> QED BY <1>1, <2>2, <3>2, <3>3, Zenon DEF Released
  <2> QED BY <1>2, <1>3, <2>1, <2>2, Survival, Zenon
<1>4. CASE messages' = messages
  BY <1>4, Zenon DEF Stored
<1>5. CASE \E t \in Threads : RecordRejection(t)
  BY <1>4, <1>5, Zenon DEF RecordRejection, tables
<1>6. CASE QuietStep
  BY <1>4, <1>6, QuietFrame, Zenon
<1>7. CASE UNCHANGED vars
  BY <1>4, <1>7, Zenon DEF vars
<1> QED BY <1>3, <1>5, <1>6, <1>7, StepKinds, Zenon

\* An answer Accepted on record after a step was there before it, or the step
\* stored the message.
LEMMA NewlyAccepted ==
  ASSUME Busy, [Next]_vars, NEW f \in Frames, RecordedAccepted(f)'
  PROVE  \/ RecordedAccepted(f)
         \/ f.request.command = "SEND" /\ Stored(f.request)'
<1>1. ASSUME NEW t \in Threads,
             \/ CreateQueue(t) \/ Send(t) \/ Fetch(t)
             \/ Acknowledge(t) \/ DeleteQueue(t)
      PROVE  \/ RecordedAccepted(f)
             \/ f.request.command = "SEND" /\ Stored(f.request)'
  <2>1. PICK result \in Reply : pc[t] = "execute" /\ Commit(t, result)
    BY <1>1, CommandStep, Zenon
  <2>2. /\ frame[t] \in Frames /\ frame'[t] = frame[t]
        /\ replays'[KeyOf(frame[t])] =
             [request |-> frame[t], response |-> result]
        /\ \A key \in ReplayKeys :
             key # KeyOf(frame[t]) => replays'[key] = replays[key]
    BY <2>1, AfterRecord, Zenon DEF Commit
  <2>3. CASE KeyOf(f) = KeyOf(frame[t])
    <3>1. f = frame[t] /\ result.status = "Accepted"
      BY <2>2, <2>3 DEF RecordedAccepted
    <3>2. /\ frame[t].request.command = "SEND"
          /\ Stored(frame[t].request)'
      BY <1>1, <2>1, <3>1, AcceptedStores, Zenon
    <3> QED BY <2>2, <3>1, <3>2, Zenon DEF Stored
  <2>4. CASE KeyOf(f) # KeyOf(frame[t])
    BY <2>2, <2>4, KeyType, Zenon DEF RecordedAccepted
  <2> QED BY <2>3, <2>4, Zenon
<1>2. ASSUME NEW t \in Threads, RecordRejection(t)
      PROVE  RecordedAccepted(f)
  <2>1. /\ pc[t] = "rejected" /\ response[t] \in Reply
        /\ response[t].status # "Accepted"
    BY <1>2, Zenon DEF RecordRejection, Busy, ThreadInv, Succeeded, Successes
  <2>2. /\ replays'[KeyOf(frame[t])] =
             [request |-> frame[t], response |-> response[t]]
        /\ \A key \in ReplayKeys :
             key # KeyOf(frame[t]) => replays'[key] = replays[key]
    BY <1>2, <2>1, AfterRecord, Zenon DEF RecordRejection
  <2> QED BY <2>1, <2>2, KeyType DEF RecordedAccepted
<1>3. CASE replays' = replays
  BY <1>3, Zenon DEF RecordedAccepted
<1>4. CASE QuietStep
  BY <1>3, <1>4, QuietFrame, Zenon
<1>5. CASE UNCHANGED vars
  BY <1>3, <1>5, Zenon DEF vars
<1> QED BY <1>1, <1>2, <1>4, <1>5, StepKinds, Zenon

\* The step of the induction: what was accepted stays until it is released.
LEMMA LossStep ==
  ASSUME ClockMayStepBack = FALSE, Busy, TablesInv, LossInv, [Next]_vars
  PROVE  LossInv'
<1> USE DEF LossInv
<1>1. SampledBefore' /\ clock <= clock'
  BY SampledStep, Zenon
<1>2. AcceptedAreSends'
  BY NewlyAccepted, Zenon DEF AcceptedAreSends
<1>3. ASSUME NEW f \in Frames, RecordedAccepted(f)', clock' < f.request.ttl
      PROVE  Stored(f.request)' \/ Released(f.request)'
  <2>1. CASE RecordedAccepted(f)
    <3>1. f.request.command = "SEND"
      BY <2>1, Zenon DEF AcceptedAreSends
    <3>2. clock < f.request.ttl
      <4>1. f.request.ttl \in Nat
        BY <3>1, RequestShape, ProtocolAssumption DEF SendRequest, Timestamps
      <4>2. clock \in Nat /\ clock' \in Nat
        BY BusyStep, ProtocolAssumption DEF Busy, TypeOK, Timestamps
      <4> QED BY <1>1, <1>3, <4>1, <4>2
    <3>3. Stored(f.request) \/ Released(f.request)
      BY <2>1, <3>2, Zenon DEF NoSilentLoss, RecordedAccepted
    <3>4. Released(f.request) => Released(f.request)'
      BY AppliedGrows, Zenon DEF Released
    <3> QED BY <3>1, <3>2, <3>3, <3>4, StaysStored, Zenon
  <2>2. CASE ~RecordedAccepted(f)
    BY <1>3, <2>2, NewlyAccepted, Zenon
  <2> QED BY <2>1, <2>2, Zenon
<1>4. NoSilentLoss'
  BY <1>3, Zenon DEF NoSilentLoss, RecordedAccepted
<1> QED BY <1>1, <1>2, <1>4, Zenon

\* CW-STORE-001: as long as the system clock is not set back, an accepted
\* message is kept until its TTL has run out, it is acknowledged or its queue
\* is deleted, for every number of connections, threads and frames.
THEOREM AcceptedIsKept == ClockMayStepBack = FALSE => (Spec => []NoSilentLoss)
<1> SUFFICES ASSUME ClockMayStepBack = FALSE PROVE Spec => []NoSilentLoss
  BY Zenon
<1>1. Busy /\ TablesInv /\ LossInv /\ [Next]_vars => LossInv'
  BY LossStep, Zenon
<1>2. LossInv => NoSilentLoss
  BY Zenon DEF LossInv
<1> QED BY <1>1, <1>2, BusyAlways, TablesAlways, LossInit, PTL DEF Spec

\* No step alters an unexpired message: the UPDATE of fetch_tx sets only the
\* delivered mark, and a SEND finds no room beside a message of the same
\* identifier.
LEMMA FixedStep ==
  ASSUME Busy, TablesInv, SampledBefore, [Next]_vars,
         NEW m \in messages, NEW n \in messages',
         m.queue = n.queue, m.id = n.id, m.expires_at > clock
  PROVE  Same(m, n)
<1>1. CASE messages' = messages
  <2>1. m = n
    BY <1>1, Zenon DEF TablesInv, Integrity
  <2> QED BY <2>1, Zenon DEF Same
<1>2. CASE \E t \in Threads : \/ CreateQueue(t) \/ Send(t) \/ Fetch(t)
                              \/ Acknowledge(t) \/ DeleteQueue(t)
  BY <1>2, Survival, Zenon
<1>3. CASE \E t \in Threads : RecordRejection(t)
  BY <1>1, <1>3, Zenon DEF RecordRejection, tables
<1>4. CASE QuietStep
  BY <1>1, <1>4, QuietFrame, Zenon
<1>5. CASE UNCHANGED vars
  BY <1>1, <1>5, Zenon DEF vars
<1> QED BY <1>2, <1>3, <1>4, <1>5, StepKinds, Zenon

\* CW-QUEUE-002: payload, expiry and place of an unexpired message never
\* change, and it never becomes undelivered, while the clock is not set back.
THEOREM MessagesAreFixed == ClockMayStepBack = FALSE => (Spec => MessageFixed)
<1> SUFFICES ASSUME ClockMayStepBack = FALSE PROVE Spec => MessageFixed
  BY Zenon
<1>1. Busy /\ SampledBefore /\ [Next]_vars => SampledBefore'
  BY SampledStep, Zenon
<1>2. Init => SampledBefore
  BY LossInit, Zenon DEF LossInv
<1>3. Spec => []SampledBefore
  BY <1>1, <1>2, BusyAlways, PTL DEF Spec
<1>4. Busy /\ TablesInv /\ SampledBefore /\ [Next]_vars =>
        [\A m \in messages, n \in messages' :
           /\ m.queue = n.queue /\ m.id = n.id
           /\ m.expires_at > clock
           => /\ n.payload = m.payload /\ n.expires_at = m.expires_at
              /\ n.sequence = m.sequence
              /\ m.delivered => n.delivered]_vars
  BY FixedStep, Zenon DEF Same
<1> QED BY <1>3, <1>4, BusyAlways, TablesAlways, PTL DEF Spec, MessageFixed

-----------------------------------------------------------------------------
(* What a transaction does to rows and records, for those who wait for the *)
(* answer.                                                                 *)

\* The replay record of a frame's key is about the frame.
Recorded(f) ==
  replays[KeyOf(f)] # None /\ replays[KeyOf(f)].request = f
RecordedStatus(f) == replays[KeyOf(f)].response.status

\* A command that stores no new message: rows go, or are marked.  A delivery is
\* of a row, and leaves none of its queue before it.
Thins(t) ==
  \E result \in Reply :
    /\ Commit(t, result) /\ result.status # "Accepted"
    /\ \A n \in messages' :
         \E m \in messages : /\ n.sequence = m.sequence /\ n.id = m.id
                             /\ n.queue = m.queue
    /\ result.status = "Duplicate" =>
         /\ frame[t].request.command = "SEND"
         /\ \E m \in messages : m.id = frame[t].request.message
    /\ result.status = "Delivery" =>
         \E m \in messages :
           /\ result.delivery.id = m.id
           /\ m.queue = frame[t].request.queue
           /\ \A n \in messages' :
                n.queue = m.queue => m.sequence <= n.sequence

\* A SEND that stores a row behind all others.
Stores(t) ==
  /\ Commit(t, Status("Accepted"))
  /\ frame[t].request.command = "SEND"
  /\ \E new \in MessageRow :
       /\ new.queue = frame[t].request.queue
       /\ new.id = frame[t].request.message
       /\ \A n \in messages' :
            n = new \/ (n \in messages /\ n.sequence < new.sequence)

\* A SEND stores a row or finds one of its identifier.
LEMMA SendOutcome ==
  ASSUME Busy, NEW t \in Threads, Send(t)
  PROVE  Thins(t) \/ Stores(t)
<1> DEFINE r == frame[t].request
           kept == messages \ Expired(r.queue, now[t])
<1>1. /\ r.command = "SEND" /\ r \in SendRequest /\ now[t] \in Timestamps
      /\ SendRefusal(r, now[t]) = {}
  BY RequestShape, Zenon DEF Send, Runs, Refusal, Busy, ThreadInv, TypeOK
<1>2. CASE /\ \E m \in Live(r.queue, now[t]) : m.id = r.message
           /\ Commit(t, Status("Duplicate"))
           /\ messages' = kept
  <2>1. Status("Duplicate") \in Reply /\ Status("Duplicate").status = "Duplicate"
    BY StatusType, Zenon DEF Status, Successes
  <2>2. \E m \in messages : m.id = r.message
    BY <1>2, Zenon DEF Live, RowsOf
  <2>3. \A n \in messages' : n \in messages
    BY <1>2, Zenon
  <2> HIDE DEF r, kept
  <2> QED BY <1>1, <1>2, <2>1, <2>2, <2>3, Zenon DEF Thins, r
<1>3. CASE /\ \A m \in Live(r.queue, now[t]) : m.id # r.message
           /\ Commit(t, Status("Accepted"))
           /\ \E s \in 1 .. MaxSequence :
                /\ IsNextSequence(s, kept)
                /\ messages' = kept \cup
                    {[sequence |-> s, queue |-> r.queue, id |-> r.message,
                      payload |-> r.payload, expires_at |-> now[t] + r.ttl,
                      delivered |-> FALSE]}
  <2>1. PICK s \in 1 .. MaxSequence :
                /\ IsNextSequence(s, kept)
                /\ messages' = kept \cup
                    {[sequence |-> s, queue |-> r.queue, id |-> r.message,
                      payload |-> r.payload, expires_at |-> now[t] + r.ttl,
                      delivered |-> FALSE]}
    BY <1>3, Zenon
  <2> DEFINE new == [sequence |-> s, queue |-> r.queue, id |-> r.message,
                     payload |-> r.payload, expires_at |-> now[t] + r.ttl,
                     delivered |-> FALSE]
  <2>2. now[t] + r.ttl \in Timestamps
    BY <1>1, <1>3, AcceptedExpiry, Zenon
  <2>3. new \in MessageRow
    BY <1>1, <2>2, Zenon DEF MessageRow, SendRequest
  <2>4. new.queue = r.queue /\ new.id = r.message /\ new.sequence = s
    BY Zenon
  <2>5. \A n \in messages' : n = new \/ (n \in messages /\ n.sequence < s)
    BY <2>1, Zenon DEF IsNextSequence
  <2> HIDE DEF new
  <2> QED BY <1>1, <1>3, <2>3, <2>4, <2>5, Zenon DEF Stores
<1> QED BY <1>2, <1>3, Zenon DEF Send

\* A FETCH finds nothing, or delivers and marks the first live row.
LEMMA FetchOutcome ==
  ASSUME Busy, NEW t \in Threads, Fetch(t)
  PROVE  Thins(t)
<1> DEFINE r == frame[t].request
           kept == messages \ Expired(r.queue, now[t])
<1>1. CASE Commit(t, Status("Empty")) /\ messages' = kept
  <2>1. Status("Empty") \in Reply /\ Status("Empty").status = "Empty"
    BY StatusType, Zenon DEF Status, Successes
  <2>2. \A n \in messages' : n \in messages
    BY <1>1, Zenon
  <2> QED BY <1>1, <2>1, <2>2, Zenon DEF Thins
<1>2. ASSUME NEW m \in First(Live(r.queue, now[t])),
             Commit(t, DeliveryOf(m)),
             messages' = (kept \ {m}) \cup {[m EXCEPT !.delivered = TRUE]}
      PROVE  Thins(t)
  <2> DEFINE marked == [m EXCEPT !.delivered = TRUE]
  <2>1. /\ m \in messages /\ m \in MessageRow /\ m.queue = r.queue
        /\ \A n \in kept : n.queue = r.queue => m.sequence <= n.sequence
    BY Zenon DEF First, Live, RowsOf, Busy, TypeOK
  <2>2. /\ marked.sequence = m.sequence /\ marked.queue = m.queue
        /\ marked.id = m.id /\ m.sequence \in Nat
    BY <2>1, DurableAssumption DEF MessageRow
  <2>3. /\ DeliveryOf(m) \in Reply /\ DeliveryOf(m).status = "Delivery"
        /\ DeliveryOf(m).delivery.id = m.id
    BY <2>1, DeliveryType, Zenon DEF DeliveryOf
  <2>4. \A n \in messages' : n = marked \/ n \in kept
    BY <1>2, Zenon
  <2> HIDE DEF marked
  <2>5. \A n \in messages' : n.queue = m.queue => m.sequence <= n.sequence
    BY <2>1, <2>2, <2>4
  <2>6. \A n \in messages' :
          \E k \in messages : /\ n.sequence = k.sequence /\ n.id = k.id
                              /\ n.queue = k.queue
    BY <2>1, <2>2, <2>4, Zenon
  <2> QED BY <1>2, <2>1, <2>3, <2>5, <2>6, Zenon DEF Thins
<1> QED BY <1>1, <1>2, Zenon DEF Fetch

\* A transaction is rolled back, stores a message or stores none.
LEMMA EffectOutcome ==
  ASSUME Busy, NEW t \in Threads, Effect(t)
  PROVE  Reject(t) \/ Thins(t) \/ Stores(t)
<1> DEFINE done == {"Created", "AlreadyExists", "Acknowledged", "Deleted"}
<1>1. ASSUME NEW st \in done, Commit(t, Status(st)), messages' \subseteq messages
      PROVE  Thins(t)
  <2>1. Status(st) \in Reply /\ Status(st).status = st
    BY StatusType, Zenon DEF Status, Successes
  <2> QED BY <1>1, <2>1, Zenon DEF Thins
<1>2. CASE CreateQueue(t)
  BY <1>1, <1>2, Zenon DEF CreateQueue
<1>3. CASE Acknowledge(t)
  BY <1>1, <1>3, Zenon DEF Acknowledge
<1>4. CASE DeleteQueue(t)
  BY <1>1, <1>4, Zenon DEF DeleteQueue
<1> QED BY <1>2, <1>3, <1>4, SendOutcome, FetchOutcome, Zenon DEF Effect

\* A record that was not there before is about the frame of a busy thread.
LEMMA RecordOrigin ==
  ASSUME Busy, [Next]_vars, NEW f \in Frames, Recorded(f)'
  PROVE  Recorded(f) \/ \E t \in Threads : pc[t] # "idle" /\ frame[t] = f
<1>1. KeyOf(f) \in ReplayKeys
  BY KeyType, Zenon
<1>2. ASSUME NEW t \in Threads, NEW result \in Reply, pc[t] # "idle",
             Record(t, result)
      PROVE  Recorded(f) \/ frame[t] = f
  <2>1. /\ replays'[KeyOf(frame[t])] =
             [request |-> frame[t], response |-> result]
        /\ \A key \in ReplayKeys :
             key # KeyOf(frame[t]) => replays'[key] = replays[key]
    BY <1>2, AfterRecord, Zenon
  <2>2. CASE KeyOf(f) = KeyOf(frame[t])
    BY <2>1, <2>2 DEF Recorded
  <2>3. CASE KeyOf(f) # KeyOf(frame[t])
    BY <1>1, <2>1, <2>3, Zenon DEF Recorded
  <2> QED BY <2>2, <2>3, Zenon
<1>3. CASE \E t \in Threads : \/ CreateQueue(t) \/ Send(t) \/ Fetch(t)
                              \/ Acknowledge(t) \/ DeleteQueue(t)
  BY <1>2, <1>3, CommandStep, Zenon DEF Commit
<1>4. CASE \E t \in Threads : RecordRejection(t)
  <2>1. PICK t \in Threads : RecordRejection(t)
    BY <1>4, Zenon
  <2>2. pc[t] # "idle" /\ response[t] \in Reply /\ Record(t, response[t])
    BY <2>1, Zenon DEF RecordRejection, Busy, ThreadInv
  <2> QED BY <1>2, <2>2, Zenon
<1>5. CASE UNCHANGED replays
  BY <1>5, Zenon DEF Recorded
<1>6. CASE QuietStep
  BY <1>5, <1>6, QuietFrame, Zenon
<1>7. CASE UNCHANGED vars
  BY <1>5, <1>7, Zenon DEF vars
<1> QED BY <1>3, <1>4, <1>6, <1>7, StepKinds, Zenon

\* A record stays.
LEMMA RecordStays ==
  ASSUME Busy, [Next]_vars, NEW f \in Frames, replays[KeyOf(f)] # None
  PROVE  replays'[KeyOf(f)] = replays[KeyOf(f)]
BY KeyType, RecordsGrow, Zenon

\* A thread that serves no new frame serves the one it had.
LEMMA FramesKept ==
  ASSUME Busy,
         \/ \E t \in Threads : Effect(t) \/ Passage(t) \/ Fail(t)
         \/ \E c \in Connections : Crash(c)
         \/ Tick \/ UNCHANGED vars
  PROVE  \A u \in Threads :
           pc'[u] # "idle" => pc[u] # "idle" /\ frame'[u] = frame[u]
<1> USE DEF Busy, TypeOK
<1>1. ASSUME NEW t \in Threads, pc[t] # "idle", UNCHANGED frame,
             NEW label, Goto(t, label)
      PROVE  \A u \in Threads :
               pc'[u] # "idle" => pc[u] # "idle" /\ frame'[u] = frame[u]
  BY <1>1, Zenon DEF Goto
<1>2. ASSUME NEW t \in Threads,
             \/ CreateQueue(t) \/ Send(t) \/ Fetch(t)
             \/ Acknowledge(t) \/ DeleteQueue(t)
      PROVE  \A u \in Threads :
               pc'[u] # "idle" => pc[u] # "idle" /\ frame'[u] = frame[u]
  <2>1. PICK result \in Reply : pc[t] = "execute" /\ Commit(t, result)
    BY <1>2, CommandStep, Zenon
  <2> QED BY <1>1, <2>1, Zenon DEF Commit, Record
<1>3. ASSUME NEW t \in Threads,
             \/ Reject(t) \/ Lookup(t) \/ RecordRejection(t)
             \/ InsertConflict(t) \/ ReadBack(t)
      PROVE  \A u \in Threads :
               pc'[u] # "idle" => pc[u] # "idle" /\ frame'[u] = frame[u]
  <2>1. /\ pc[t] # "idle" /\ UNCHANGED frame
        /\ Goto(t, "rejected") \/ Goto(t, "respond") \/ Goto(t, "execute")
             \/ Goto(t, "conflict")
    BY <1>3, Zenon DEF Reject, Lookup, RecordRejection, Record, InsertConflict, ReadBack
  <2> QED BY <1>1, <2>1, Zenon
<1>4. ASSUME NEW stopped \in SUBSET Threads, Release(stopped)
      PROVE  \A u \in Threads :
               pc'[u] # "idle" => pc[u] # "idle" /\ frame'[u] = frame[u]
  BY <1>4, Zenon DEF Release
<1>5. ASSUME NEW t \in Threads, Respond(t) \/ Fail(t)
      PROVE  \A u \in Threads :
               pc'[u] # "idle" => pc[u] # "idle" /\ frame'[u] = frame[u]
  BY <1>4, <1>5, Zenon DEF Respond, Fail
<1>6. ASSUME NEW c \in Connections, Crash(c)
      PROVE  \A u \in Threads :
               pc'[u] # "idle" => pc[u] # "idle" /\ frame'[u] = frame[u]
  BY <1>4, <1>6, Zenon DEF Crash
<1>7. CASE Tick \/ UNCHANGED vars
  BY <1>7, Zenon DEF Tick, thread, vars
<1> QED BY <1>2, <1>3, <1>5, <1>6, <1>7, Zenon DEF Effect, Passage

\* A record after a thread's insertion is the thread's, or was there before.
LEMMA NewRecord ==
  ASSUME Busy, NEW t \in Threads, NEW result \in Reply, pc[t] # "idle",
         Record(t, result), NEW f \in Frames, Recorded(f)'
  PROVE  \/ f = frame[t] /\ replays'[KeyOf(f)].response = result
         \/ Recorded(f) /\ replays'[KeyOf(f)] = replays[KeyOf(f)]
<1>1. /\ replays'[KeyOf(frame[t])] =
           [request |-> frame[t], response |-> result]
      /\ \A key \in ReplayKeys :
           key # KeyOf(frame[t]) => replays'[key] = replays[key]
  BY AfterRecord, Zenon
<1>2. CASE KeyOf(f) = KeyOf(frame[t])
  BY <1>1, <1>2 DEF Recorded
<1>3. CASE KeyOf(f) # KeyOf(frame[t])
  BY <1>1, <1>3, KeyType, Zenon DEF Recorded
<1> QED BY <1>2, <1>3, Zenon

\* The record of a refusal is not of a success.
LEMMA RefusalRecord ==
  ASSUME Busy, NEW t \in Threads, RecordRejection(t), NEW f \in Frames,
         Recorded(f)', RecordedStatus(f)' \in {"Accepted", "Duplicate", "Delivery"}
  PROVE  Recorded(f) /\ replays'[KeyOf(f)] = replays[KeyOf(f)]
<1>1. /\ pc[t] # "idle" /\ response[t] \in Reply /\ Record(t, response[t])
      /\ ~Succeeded(response[t])
  BY Zenon DEF RecordRejection, Busy, ThreadInv
<1>2. response[t].status \notin {"Accepted", "Duplicate", "Delivery"}
  BY <1>1, Zenon DEF Succeeded, Successes
<1> QED BY <1>1, <1>2, NewRecord, Zenon DEF RecordedStatus
=============================================================================
