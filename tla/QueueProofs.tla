------------------------------ MODULE QueueProofs ------------------------------
(***************************************************************************)
(* A queue keeps its bound and its order: it never holds more rows than it *)
(* was configured for, and what is read from it by poll() arrives in the   *)
(* order of acceptance.  Checked by TLAPS for every set of messages,       *)
(* threads and connections and every number of faults.                     *)
(***************************************************************************)
EXTENDS EndToEndProofs, FiniteSetTheorems

\* DepthBounded counts rows, so the inductive invariant also says that there
\* are finitely many.
DepthInv == IsFiniteSet(messages) /\ DepthBounded

\* Depths are numbers.
LEMMA DepthType ==
  ASSUME Busy, DepthInv, NEW id \in QueueIds, queues[id] # None
  PROVE  /\ IsFiniteSet(RowsOf(id)) /\ Cardinality(RowsOf(id)) \in Nat
         /\ queues[id].max_messages \in Nat
         /\ Cardinality(RowsOf(id)) <= queues[id].max_messages
<1>1. queues[id].max_messages \in Nat
  BY ProtocolAssumption, Zenon DEF Busy, TypeOK, QueueConfig
<1>2. IsFiniteSet(RowsOf(id)) /\ Cardinality(RowsOf(id)) \in Nat
  BY FS_Subset, FS_CardinalityType, Zenon DEF DepthInv, RowsOf
<1> QED BY <1>1, <1>2, Zenon DEF DepthInv, DepthBounded

\* Rows leave, and queues too.
LEMMA DepthShrink ==
  ASSUME Busy, DepthInv, messages' \subseteq messages,
         \A id \in QueueIds :
           queues'[id] # None => queues'[id] = queues[id]
  PROVE  DepthInv'
<1>1. IsFiniteSet(messages')
  BY FS_Subset, Zenon DEF DepthInv
<1>2. ASSUME NEW id \in QueueIds, queues'[id] # None
      PROVE  Cardinality(RowsOf(id)') <= queues'[id].max_messages
  <2>1. queues[id] # None /\ queues'[id] = queues[id]
    BY <1>2, Zenon
  <2>2. RowsOf(id)' \subseteq RowsOf(id)
    BY Zenon DEF RowsOf
  <2>3. /\ Cardinality(RowsOf(id)') <= Cardinality(RowsOf(id))
        /\ Cardinality(RowsOf(id)') \in Nat
    BY <2>1, <2>2, DepthType, FS_Subset, FS_CardinalityType, Zenon
  <2> QED BY <2>1, <2>3, DepthType
<1> QED BY <1>1, <1>2, Zenon DEF DepthInv, DepthBounded, RowsOf

\* A created queue is empty.
LEMMA DepthCreate ==
  ASSUME Busy, TablesInv, DepthInv, NEW t \in Threads, CreateQueue(t)
  PROVE  DepthInv'
<1> DEFINE r == frame[t].request
<1>0. queues \in [QueueIds -> Configs \cup {None}] /\ messages' = messages
  BY Zenon DEF CreateQueue, Busy, TypeOK
<1>1. r.queue \in QueueIds /\ r.config \in Configs
  BY RequestShape, Zenon DEF CreateQueue, Runs, Busy, ThreadInv
<1>2. CASE UNCHANGED queues
  BY <1>0, <1>2, DepthShrink, Zenon
<1>3. CASE queues[r.queue] = None /\ queues' = [queues EXCEPT ![r.queue] = r.config]
  <2>1. r.config.max_messages \in Nat
    BY <1>1, ProtocolAssumption, Zenon DEF QueueConfig
  <2>2. RowsOf(r.queue) = {}
    BY <1>3, Zenon DEF TablesInv, Integrity, RowsOf
  <2>3. ASSUME NEW id \in QueueIds, queues'[id] # None
        PROVE  Cardinality(RowsOf(id)) <= queues'[id].max_messages
    <3>1. CASE id = r.queue
      <4>1. Cardinality(RowsOf(id)) = 0
        BY <2>2, <3>1, FS_EmptySet, Zenon
      <4>2. queues'[id] = r.config
        BY <1>0, <1>1, <1>3, <3>1, Zenon
      <4> HIDE DEF r
      <4> QED BY <2>1, <4>1, <4>2
    <3>2. CASE id # r.queue
      BY <1>0, <1>3, <2>3, <3>2, Zenon DEF DepthInv, DepthBounded
    <3> QED BY <3>1, <3>2, Zenon
  <2> QED BY <1>0, <2>3, Zenon DEF DepthInv, DepthBounded, RowsOf
<1> QED BY <1>2, <1>3, Zenon DEF CreateQueue

\* A row joins the live rows of a queue, which are fewer than it may hold.
LEMMA DepthAdd ==
  ASSUME Busy, DepthInv, NEW id \in QueueIds, queues[id] # None, queues' = queues,
         NEW at, NEW rest, rest \subseteq Live(id, at),
         Cardinality(rest) < queues[id].max_messages,
         NEW new, new.queue = id,
         messages' = ((messages \ RowsOf(id)) \cup rest) \cup {new}
  PROVE  DepthInv'
<1>1. rest \subseteq messages /\ \A m \in rest : m.queue = id
  BY Zenon DEF Live, RowsOf
<1>2. IsFiniteSet(messages')
  <2>1. IsFiniteSet((messages \ RowsOf(id)) \cup rest)
    BY <1>1, FS_Subset, Zenon DEF DepthInv
  <2> QED BY <2>1, FS_AddElement, Zenon
<1>3. ASSUME NEW other \in QueueIds, queues[other] # None
      PROVE  Cardinality(RowsOf(other)') <= queues[other].max_messages
  <2>1. CASE other = id
    <3>1. RowsOf(id)' = rest \cup {new}
      BY <1>1, Zenon DEF RowsOf
    <3>2. IsFiniteSet(rest) /\ Cardinality(rest) \in Nat
      BY <1>1, FS_Subset, FS_CardinalityType, Zenon DEF DepthInv
    <3>3. \/ Cardinality(RowsOf(id)') = Cardinality(rest)
          \/ Cardinality(RowsOf(id)') = Cardinality(rest) + 1
      BY <3>1, <3>2, FS_AddElement, Zenon
    <3> QED BY <2>1, <3>2, <3>3, DepthType
  <2>2. CASE other # id
    <3>1. RowsOf(other)' = RowsOf(other)
      BY <1>1, <2>2, Zenon DEF RowsOf
    <3> QED BY <1>3, <3>1, DepthType, Zenon
  <2> QED BY <2>1, <2>2, Zenon
<1> QED BY <1>2, <1>3, Zenon DEF DepthInv, DepthBounded

\* A SEND is refused when the live rows already fill the queue.
LEMMA DepthSend ==
  ASSUME Busy, DepthInv, NEW t \in Threads, Send(t)
  PROVE  DepthInv'
<1> DEFINE r == frame[t].request
           live == Live(r.queue, now[t])
<1>1. /\ r \in SendRequest /\ r.queue \in QueueIds /\ queues' = queues
      /\ SendRefusal(r, now[t]) = {}
  BY RequestShape, Zenon DEF Send, Runs, Refusal, Busy, ThreadInv, TypeOK
<1>2. CASE messages' = messages \ Expired(r.queue, now[t])
  BY <1>1, <1>2, DepthShrink, Zenon
<1>3. ASSUME \A m \in live : m.id # r.message, NEW s \in 1 .. MaxSequence,
             messages' = (messages \ Expired(r.queue, now[t])) \cup
                    {[sequence |-> s, queue |-> r.queue, id |-> r.message,
                      payload |-> r.payload, expires_at |-> now[t] + r.ttl,
                      delivered |-> FALSE]}
      PROVE  DepthInv'
  <2> DEFINE new == [sequence |-> s, queue |-> r.queue, id |-> r.message,
                     payload |-> r.payload, expires_at |-> now[t] + r.ttl,
                     delivered |-> FALSE]
  <2>1. {m \in live : m.id = r.message} = {}
    BY <1>3, Zenon
  <2>2. queues[r.queue] # None /\ ~(Cardinality(live) >= queues[r.queue].max_messages)
    BY <1>1, <2>1, Zenon DEF SendRefusal, Full
  <2>3. Cardinality(live) < queues[r.queue].max_messages
    <3>1. IsFiniteSet(live)
      BY FS_Subset, Zenon DEF DepthInv, Live, RowsOf
    <3>2. queues[r.queue].max_messages \in Nat
      BY <1>1, <2>2, DepthType, Zenon
    <3> QED BY <2>2, <3>1, <3>2, FS_CardinalityType
  <2>4. new.queue = r.queue
    BY Zenon
  <2>5. messages \ Expired(r.queue, now[t]) = (messages \ RowsOf(r.queue)) \cup live
    BY Zenon DEF Expired, Live, RowsOf
  <2>6. messages' = ((messages \ RowsOf(r.queue)) \cup live) \cup {new}
    BY <1>3, <2>5, Zenon
  <2> HIDE DEF new, r
  <2> QED BY <1>1, <2>2, <2>3, <2>4, <2>6, DepthAdd, Zenon DEF live
<1> QED BY <1>2, <1>3, Zenon DEF Send

\* A FETCH puts the marked row in place of the one it read.
LEMMA DepthFetch ==
  ASSUME Busy, DepthInv, NEW t \in Threads, Fetch(t)
  PROVE  DepthInv'
<1> DEFINE r == frame[t].request
           live == Live(r.queue, now[t])
<1>0. Refusal(r, now[t]) = {} /\ r.command = "FETCH"
  BY Zenon DEF Fetch, Runs
<1>1. r.queue \in QueueIds /\ queues' = queues /\ queues[r.queue] # None
  <2>1. r.queue \in QueueIds
    BY RequestShape, Zenon DEF Fetch, Runs, Busy, ThreadInv
  <2>2. queues[r.queue] # None
    BY <1>0, Zenon DEF Refusal, RecipientRefusal
  <2> QED BY <2>1, <2>2, Zenon DEF Fetch
<1>2. CASE messages' = messages \ Expired(r.queue, now[t])
  BY <1>1, <1>2, DepthShrink, Zenon
<1>3. ASSUME NEW m \in First(live),
             messages' = ((messages \ Expired(r.queue, now[t])) \ {m}) \cup
                           {[m EXCEPT !.delivered = TRUE]}
      PROVE  DepthInv'
  <2> DEFINE marked == [m EXCEPT !.delivered = TRUE]
             rest == live \ {m}
  <2>1. m \in live /\ m \in messages /\ m \in MessageRow /\ m.queue = r.queue
    BY Zenon DEF First, Live, RowsOf, Busy, TypeOK
  <2>2. marked.queue = r.queue
    BY <2>1, Zenon DEF MessageRow
  <2>3. /\ IsFiniteSet(live) /\ Cardinality(live) \in Nat
        /\ Cardinality(live) <= Cardinality(RowsOf(r.queue))
    BY <1>1, DepthType, FS_Subset, FS_CardinalityType, Zenon DEF Live
  <2>4. Cardinality(rest) = Cardinality(live) - 1
    BY <2>1, <2>3, FS_RemoveElement, Zenon
  <2>5. Cardinality(rest) < queues[r.queue].max_messages
    <3> HIDE DEF rest, live
    <3> QED BY <1>1, <2>3, <2>4, DepthType
  <2>6. (messages \ Expired(r.queue, now[t])) \ {m}
          = (messages \ RowsOf(r.queue)) \cup rest
    BY <2>1, Zenon DEF Expired, Live, RowsOf
  <2>7. messages' = ((messages \ RowsOf(r.queue)) \cup rest) \cup {marked}
    BY <1>3, <2>6, Zenon
  <2>8. rest \subseteq Live(r.queue, now[t])
    BY Zenon
  <2> HIDE DEF marked, rest, r
  <2> QED BY <1>1, <2>2, <2>5, <2>7, <2>8, DepthAdd, Zenon
<1> QED BY <1>2, <1>3, Zenon DEF Fetch

\* No queue ever holds more rows than it was configured for, whatever
\* connections race, requests crash or clocks are set back.
THEOREM DepthIsBounded == Spec => []DepthBounded
<1>1. Init => DepthInv
  BY FS_EmptySet DEF Init, DepthInv, DepthBounded
<1>2. ASSUME Busy, TablesInv, DepthInv, [Next]_vars PROVE DepthInv'
  <2>1. ASSUME NEW t \in Threads, Acknowledge(t) PROVE DepthInv'
    BY <1>2, <2>1, DepthShrink, Zenon DEF Acknowledge
  <2>2. ASSUME NEW t \in Threads, DeleteQueue(t) PROVE DepthInv'
    <3>1. /\ messages' \subseteq messages
          /\ queues' = [queues EXCEPT ![frame[t].request.queue] = None]
          /\ queues \in [QueueIds -> Configs \cup {None}]
      BY <1>2, <2>2 DEF DeleteQueue, Busy, TypeOK
    <3> QED BY <1>2, <3>1, DepthShrink, Zenon
  <2>3. CASE UNCHANGED <<queues, messages>>
    BY <1>2, <2>3, DepthShrink, Zenon
  <2>4. CASE \E t \in Threads : RecordRejection(t)
    BY <2>3, <2>4, Zenon DEF RecordRejection, tables
  <2>5. CASE QuietStep
    BY <2>3, <2>5, QuietFrame, Zenon
  <2>6. CASE UNCHANGED vars
    BY <2>3, <2>6, Zenon DEF vars
  <2> QED BY <1>2, <2>1, <2>2, <2>4, <2>5, <2>6,
             DepthCreate, DepthSend, DepthFetch, StepKinds, Zenon
<1>3. Spec => []DepthInv
  BY <1>1, <1>2, BusyAlways, TablesAlways, PTL DEF Spec
<1>4. DepthInv => DepthBounded
  BY Zenon DEF DepthInv
<1> QED BY <1>3, <1>4, PTL

-----------------------------------------------------------------------------
(* The order of the inbox.                                                 *)

\* The message identifier poll() has fetched, once the relay has answered.
InHand(id) ==
  \/ polling = "opened" /\ delivery.id = id
  \/ /\ polling = "fetching"
     /\ Recorded(awaited)
     /\ RecordedStatus(awaited) = "Delivery"
     /\ replays[KeyOf(awaited)].response.delivery.id = id

\* The rows of the table and the entries of the inbox have places in the log.
\* The rows stand in it in the order of their row identifiers, the inbox in its
\* own order; no row stands before the message last fetched, and none of the inbox
\* behind it.
Ordered(row, entry, fetched) ==
  /\ row \in [1 .. MaxSequence -> 0 .. Len(log)]
  /\ entry \in [DOMAIN inbox -> DOMAIN log]
  /\ fetched \in 0 .. Len(log)
  /\ \A m \in messages : /\ row[m.sequence] \in DOMAIN log
                         /\ log[row[m.sequence]] = m.id
                         /\ fetched <= row[m.sequence]
  /\ \A m, n \in messages :
       m.sequence < n.sequence => row[m.sequence] < row[n.sequence]
  /\ \A i \in DOMAIN inbox : log[entry[i]] = inbox[i] /\ entry[i] <= fetched
  /\ \A i, j \in DOMAIN inbox : i < j => entry[i] < entry[j]
  /\ \A id \in MessageIds : InHand(id) => fetched > 0 /\ log[fetched] = id

OrderInv ==
  \E row \in [1 .. MaxSequence -> 0 .. Len(log)],
     entry \in [DOMAIN inbox -> DOMAIN log], fetched \in 0 .. Len(log) :
    Ordered(row, entry, fetched)

\* Rows and places stay ordered while rows only leave or are marked and nothing
\* new is fetched.
LEMMA KeepOrder ==
  ASSUME NEW row, NEW entry, NEW fetched, Ordered(row, entry, fetched),
         log' = log, inbox' = inbox,
         \A n \in messages' :
           \E m \in messages : n.sequence = m.sequence /\ n.id = m.id,
         \A id \in MessageIds : InHand(id)' => InHand(id)
  PROVE  OrderInv'
<1>1. Ordered(row, entry, fetched)'
  BY DEF Ordered
<1>2. /\ row \in [1 .. MaxSequence -> 0 .. Len(log')]
      /\ entry \in [DOMAIN inbox' -> DOMAIN log']
      /\ fetched \in 0 .. Len(log')
  BY Zenon DEF Ordered
<1> QED BY <1>1, <1>2, Zenon DEF OrderInv

\* The relay's answer to the FETCH that poll() waits for moves the place of what is
\* fetched on to the row delivered.
LEMMA OrderFetched ==
  ASSUME Busy, ClientTypes, Logged, NEW t \in Threads, frame[t] \in Frames,
         NEW row, NEW entry, NEW fetched, Ordered(row, entry, fetched),
         log' = log, UNCHANGED recipientVars,
         NEW result \in Reply, NEW head \in messages,
         \A n \in messages' :
           \E m \in messages : /\ n.sequence = m.sequence /\ n.id = m.id
                               /\ n.queue = m.queue,
         \A n \in messages' : n.queue = head.queue => head.sequence <= n.sequence,
         polling = "fetching", replays'[KeyOf(awaited)].response = result,
         result.delivery.id = head.id
  PROVE  OrderInv'
<1> USE DEF recipientVars
<1> DEFINE place == row[head.sequence]
<1>0. /\ head.queue = Queue /\ head.sequence \in Nat
      /\ \A m \in messages : m.queue = Queue /\ m.sequence \in Nat
  BY DurableAssumption DEF Logged, Busy, TypeOK, MessageRow
<1>1. /\ place \in DOMAIN log /\ log[place] = head.id /\ fetched <= place
      /\ row \in [1 .. MaxSequence -> 0 .. Len(log)]
      /\ entry \in [DOMAIN inbox -> DOMAIN log]
      /\ fetched \in 0 .. Len(log)
  BY Zenon DEF Ordered
<1>2. place \in 1 .. Len(log) /\ Len(log) \in Nat
  BY <1>1 DEF ClientTypes
<1>3. ASSUME NEW n \in messages'
      PROVE  /\ row[n.sequence] \in DOMAIN log /\ log[row[n.sequence]] = n.id
             /\ place <= row[n.sequence]
  <2>1. PICK m \in messages : /\ n.sequence = m.sequence /\ n.id = m.id
                              /\ n.queue = m.queue
    BY Zenon
  <2>2. head.sequence <= m.sequence
    BY <1>0, <2>1, Zenon
  <2>3. CASE head.sequence = m.sequence
    BY <1>1, <1>2, <2>1, <2>3 DEF Ordered
  <2>4. CASE head.sequence < m.sequence
    <3>1. row[head.sequence] < row[m.sequence] /\ row[m.sequence] \in DOMAIN log
          /\ log[row[m.sequence]] = m.id
      BY <2>4, Zenon DEF Ordered
    <3>2. row[m.sequence] \in Nat
      BY <3>1 DEF ClientTypes
    <3> QED BY <1>2, <2>1, <3>1, <3>2
  <2> QED BY <1>0, <2>2, <2>3, <2>4
<1>4. \A m, n \in messages' :
        m.sequence < n.sequence => row[m.sequence] < row[n.sequence]
  BY DEF Ordered
<1>5. /\ \A i \in DOMAIN inbox : log[entry[i]] = inbox[i]
      /\ \A i, j \in DOMAIN inbox : i < j => entry[i] < entry[j]
  BY Zenon DEF Ordered
<1>6. ASSUME NEW i \in DOMAIN inbox
      PROVE  entry[i] <= place
  <2>1. entry[i] <= fetched /\ entry[i] \in DOMAIN log
    BY Zenon DEF Ordered
  <2>2. entry[i] \in Nat
    BY <2>1 DEF ClientTypes
  <2> QED BY <1>1, <1>2, <2>1, <2>2
<1>7. \A id \in MessageIds : InHand(id)' => id = head.id
  BY Zenon DEF InHand
<1> HIDE DEF place
<1>8. Ordered(row, entry, place)'
  <2>1. \A id \in MessageIds : InHand(id)' => place > 0 /\ log'[place] = id
    BY <1>1, <1>2, <1>7
  <2>2. place \in 0 .. Len(log)
    BY <1>2, SMTT(20)
  <2> QED BY <1>1, <1>3, <1>4, <1>5, <1>6, <2>1, <2>2, Zenon DEF Ordered
<1> QED BY <1>1, <1>2, <1>8 DEF OrderInv

\* A row stored anew stands at the end of the log.
LEMMA OrderStored ==
  ASSUME Busy, ClientTypes, NEW id \in MessageIds,
         NEW row, NEW entry, NEW fetched, Ordered(row, entry, fetched),
         log' = Append(log, id), UNCHANGED recipientVars,
         NEW new \in MessageRow, new.id = id,
         \A n \in messages' :
           n = new \/ (n \in messages /\ n.sequence < new.sequence),
         \A other \in MessageIds : InHand(other)' => InHand(other)
  PROVE  OrderInv'
<1> USE DEF recipientVars
<1> DEFINE end == Len(log) + 1
           placed == [row EXCEPT ![new.sequence] = end]
<1>0. /\ row \in [1 .. MaxSequence -> 0 .. Len(log)]
      /\ entry \in [DOMAIN inbox -> DOMAIN log]
      /\ fetched \in 0 .. Len(log)
  BY Zenon DEF Ordered
<1>1. /\ Len(log) \in Nat /\ DOMAIN log = 1 .. Len(log)
      /\ DOMAIN log' = 1 .. end /\ Len(log') = end
      /\ log'[end] = id /\ \A i \in DOMAIN log : log'[i] = log[i]
  BY DEF ClientTypes
<1>2. /\ new.sequence \in 1 .. MaxSequence /\ new.sequence \in Nat
      /\ \A m \in messages : m.sequence \in 1 .. MaxSequence /\ m.sequence \in Nat
  BY DurableAssumption DEF Busy, TypeOK, MessageRow
<1>3. placed \in [1 .. MaxSequence -> 0 .. end]
  BY <1>0, <1>1, <1>2
<1>4. placed[new.sequence] = end
  BY <1>0, <1>2, Zenon
<1>5. \A m \in messages : m.sequence < new.sequence =>
        placed[m.sequence] = row[m.sequence]
  BY <1>0, <1>2
<1>6. \A m \in messages : /\ row[m.sequence] \in 1 .. Len(log)
                          /\ log[row[m.sequence]] = m.id
                          /\ fetched <= row[m.sequence]
  BY <1>1, Zenon DEF Ordered
<1> HIDE DEF placed, end
<1>7. \A n \in messages' : /\ placed[n.sequence] \in 1 .. end
                           /\ log'[placed[n.sequence]] = n.id
                           /\ fetched <= placed[n.sequence]
  BY <1>0, <1>1, <1>4, <1>5, <1>6 DEF end
<1>8. ASSUME NEW m \in messages', NEW n \in messages', m.sequence < n.sequence
      PROVE  placed[m.sequence] < placed[n.sequence]
  <2>1. CASE m = new
    BY <1>2, <1>8, <2>1
  <2>2. CASE m # new /\ n = new
    BY <1>1, <1>4, <1>5, <1>6, <1>8, <2>2 DEF end
  <2>3. CASE m # new /\ n # new
    BY <1>5, <1>8, <2>3, Zenon DEF Ordered
  <2> QED BY <2>1, <2>2, <2>3, Zenon
<1>9. entry \in [DOMAIN inbox -> 1 .. end] /\ fetched \in 0 .. end
  BY <1>0, <1>1 DEF end
<1>10. /\ \A i \in DOMAIN inbox : log'[entry[i]] = inbox[i] /\ entry[i] <= fetched
       /\ \A i, j \in DOMAIN inbox : i < j => entry[i] < entry[j]
  BY <1>0, <1>1, Zenon DEF Ordered
<1>11. \A other \in MessageIds :
         InHand(other)' => fetched > 0 /\ log'[fetched] = other
  BY <1>0, <1>1 DEF Ordered
<1>12. PICK witness : witness = placed
  BY Zenon
<1>13. Ordered(witness, entry, fetched)'
  BY <1>1, <1>3, <1>7, <1>8, <1>9, <1>10, <1>11, <1>12, Zenon DEF Ordered
<1> QED BY <1>1, <1>3, <1>9, <1>12, <1>13, Zenon DEF OrderInv

\* A commit puts the message fetched at the end of the inbox.
LEMMA OrderCommitted ==
  ASSUME ClientTypes, NEW id \in MessageIds,
         NEW row, NEW entry, NEW fetched, Ordered(row, entry, fetched),
         InHand(id), InboxCommit(id), UNCHANGED <<log, messages>>,
         \A other \in MessageIds : ~InHand(other)'
  PROVE  OrderInv'
<1>1. CASE inbox' = inbox
  BY <1>1, KeepOrder, Zenon
<1>2. CASE inbox' = Append(inbox, id) /\ \A i \in DOMAIN inbox : inbox[i] # id
  <2> DEFINE end == Len(inbox) + 1
             longer == [i \in 1 .. end |-> IF i = end THEN fetched ELSE entry[i]]
  <2>0. /\ row \in [1 .. MaxSequence -> 0 .. Len(log)]
        /\ entry \in [DOMAIN inbox -> DOMAIN log]
        /\ fetched \in 0 .. Len(log)
        /\ fetched > 0 /\ log[fetched] = id
    BY Zenon DEF Ordered
  <2>1. /\ Len(inbox) \in Nat /\ DOMAIN inbox = 1 .. Len(inbox)
        /\ DOMAIN inbox' = 1 .. end
        /\ inbox'[end] = id /\ \A i \in DOMAIN inbox : inbox'[i] = inbox[i]
        /\ DOMAIN log = 1 .. Len(log) /\ Len(log) \in Nat
    <3>1. inbox \in Seq(MessageIds) /\ log \in Seq(MessageIds)
      BY Zenon DEF ClientTypes
    <3> QED BY <1>2, <3>1
  <2>2. longer \in [1 .. end -> 1 .. Len(log)]
    BY <2>0, <2>1
  <2>3. /\ longer[end] = fetched
        /\ \A i \in DOMAIN inbox : longer[i] = entry[i] /\ i < end /\ i # end
    BY <2>1
  <2>4. \A i \in DOMAIN inbox : /\ entry[i] \in 1 .. Len(log) /\ entry[i] < fetched
                                /\ log[entry[i]] = inbox[i]
    <3>1. ASSUME NEW i \in DOMAIN inbox
          PROVE  /\ entry[i] \in 1 .. Len(log) /\ entry[i] <= fetched
                 /\ log[entry[i]] = inbox[i]
      BY <2>0, <2>1, Zenon DEF Ordered
    <3> QED BY <1>2, <2>0, <2>1, <3>1
  <2>5. \A i \in DOMAIN inbox' : i = end \/ i \in DOMAIN inbox
    BY <2>1
  <2> HIDE DEF longer, end
  <2>6. \A i \in DOMAIN inbox' : log[longer[i]] = inbox'[i] /\ longer[i] <= fetched
    BY <2>0, <2>1, <2>3, <2>4, <2>5
  <2>7. ASSUME NEW i \in DOMAIN inbox', NEW j \in DOMAIN inbox', i < j
        PROVE  longer[i] < longer[j]
    <3>1. i \in DOMAIN inbox
      <4>1. i \in 1 .. Len(inbox) + 1 /\ j \in 1 .. Len(inbox) + 1
        BY <2>1, Zenon DEF end
      <4> QED BY <2>1, <2>7, <4>1
    <3>2. CASE j = end
      BY <2>3, <2>4, <3>1, <3>2, Zenon
    <3>3. CASE j \in DOMAIN inbox
      BY <2>3, <2>7, <3>1, <3>3, Zenon DEF Ordered
    <3> QED BY <2>5, <3>2, <3>3, Zenon
  <2>8. PICK witness : witness = longer
    BY Zenon
  <2>9. Ordered(row, witness, fetched)'
    BY <2>0, <2>1, <2>2, <2>6, <2>7, <2>8 DEF Ordered
  <2> QED BY <2>0, <2>1, <2>2, <2>8, <2>9, Zenon DEF OrderInv
<1> QED BY <1>1, <1>2, Zenon DEF InboxCommit

\* Unless a thread answers the FETCH poll() waits for, nothing new is in hand.
LEMMA HandKept ==
  ASSUME Busy, ClientTypes, NEW t \in Threads, NEW result \in Reply,
         pc[t] # "idle", Record(t, result), UNCHANGED recipientVars,
         \/ result.status # "Delivery"
         \/ ~(polling = "fetching" /\ awaited = frame[t])
  PROVE  \A id \in MessageIds : InHand(id)' => InHand(id)
<1> SUFFICES ASSUME NEW id \in MessageIds, InHand(id)'
             PROVE  InHand(id)
  BY Zenon
<1> USE DEF recipientVars
<1>1. CASE polling = "opened"
  BY <1>1, Zenon DEF InHand
<1>2. CASE polling = "fetching"
  <2>1. /\ awaited \in Frames /\ Recorded(awaited)'
        /\ replays'[KeyOf(awaited)].response.status = "Delivery"
        /\ replays'[KeyOf(awaited)].response.delivery.id = id
    BY <1>2, Zenon DEF InHand, ClientTypes, Recorded, RecordedStatus
  <2>2. \/ awaited = frame[t] /\ replays'[KeyOf(awaited)].response = result
        \/ Recorded(awaited) /\ replays'[KeyOf(awaited)] = replays[KeyOf(awaited)]
    <3>1. ASSUME NEW f \in Frames, f = awaited
          PROVE  \/ f = frame[t] /\ replays'[KeyOf(f)].response = result
                 \/ Recorded(f) /\ replays'[KeyOf(f)] = replays[KeyOf(f)]
      <4>1. Recorded(f)'
        BY <2>1, <3>1, Zenon DEF Recorded
      <4> QED BY <4>1, NewRecord, Zenon
    <3> QED BY <2>1, <3>1, Zenon
  <2> QED BY <1>2, <2>1, <2>2, Zenon DEF InHand, RecordedStatus
<1> QED BY <1>1, <1>2, Zenon DEF InHand

\* A transaction keeps the order.
LEMMA OrderRun ==
  ASSUME Busy, ClientTypes, Logged, OrderInv, NEW t \in Threads, Run(t)
  PROVE  OrderInv'
<1>0. PICK row, entry, fetched : Ordered(row, entry, fetched)
  BY Zenon DEF OrderInv
<1>1. UNCHANGED recipientVars /\ inbox' = inbox
  BY Zenon DEF Run, recipientVars
<1>2. pc[t] = "execute" /\ frame[t] \in Frames
  <2>1. pc[t] = "execute"
    BY CommandStep, Zenon DEF Run, Effect, Reject
  <2> QED BY <2>1, Zenon DEF Busy, ThreadInv
<1>3. CASE Reject(t) /\ log' = log
  <2>1. UNCHANGED <<messages, replays>>
    BY <1>3, Zenon DEF Reject, tables
  <2>2. \A id \in MessageIds : InHand(id)' => InHand(id)
    BY <1>1, <2>1, Zenon DEF InHand, Recorded, RecordedStatus, recipientVars
  <2> QED BY <1>0, <1>1, <1>3, <2>1, <2>2, KeepOrder
<1>4. CASE Thins(t) /\ log' = log
  <2>1. PICK result \in Reply :
          /\ Commit(t, result)
          /\ \A n \in messages' :
               \E m \in messages : /\ n.sequence = m.sequence /\ n.id = m.id
                                   /\ n.queue = m.queue
          /\ result.status = "Delivery" =>
               \E m \in messages :
                 /\ result.delivery.id = m.id
                 /\ \A n \in messages' :
                      n.queue = m.queue => m.sequence <= n.sequence
    BY <1>4, Zenon DEF Thins
  <2>2. Record(t, result)
    BY <2>1, Zenon DEF Commit
  <2>3. CASE /\ result.status = "Delivery"
             /\ polling = "fetching" /\ awaited = frame[t]
    <3>1. PICK head \in messages :
            /\ result.delivery.id = head.id
            /\ \A n \in messages' :
                 n.queue = head.queue => head.sequence <= n.sequence
      BY <2>1, <2>3, Zenon
    <3>2. replays'[KeyOf(awaited)].response = result
      <4>1. pc[t] # "idle"
        BY <1>2, Zenon
      <4>2. replays'[KeyOf(frame[t])] = [request |-> frame[t], response |-> result]
        BY <2>2, <4>1, AfterRecord, Zenon
      <4> QED BY <2>3, <4>2
    <3> QED BY <1>0, <1>1, <1>2, <1>4, <2>1, <2>3, <3>1, <3>2, OrderFetched
  <2>4. CASE \/ result.status # "Delivery"
             \/ ~(polling = "fetching" /\ awaited = frame[t])
    <3>1. \A id \in MessageIds : InHand(id)' => InHand(id)
      BY <1>1, <1>2, <2>2, <2>4, HandKept, Zenon
    <3> QED BY <1>0, <1>1, <1>4, <2>1, <3>1, KeepOrder
  <2> QED BY <2>3, <2>4, Zenon
<1>5. CASE /\ Stores(t) /\ log' = Append(log, frame[t].request.message)
           /\ frame[t].request.message \in MessageIds
  <2>1. PICK new \in MessageRow :
          /\ new.id = frame[t].request.message
          /\ \A n \in messages' :
               n = new \/ (n \in messages /\ n.sequence < new.sequence)
    BY <1>5, Zenon DEF Stores
  <2>2. /\ Record(t, Status("Accepted")) /\ Status("Accepted") \in Reply
        /\ Status("Accepted").status # "Delivery"
    BY <1>5, StatusType, Zenon DEF Stores, Commit, Successes, Status
  <2>3. \A id \in MessageIds : InHand(id)' => InHand(id)
    BY <1>1, <1>2, <2>2, HandKept, Zenon
  <2> QED BY <1>0, <1>1, <1>5, <2>1, <2>3, OrderStored
<1> QED BY <1>3, <1>4, <1>5, LogStep, Zenon

\* A step of poll() keeps the order: a FETCH it has just signed has no record, the
\* delivery it opens is on record, and it commits what it has opened.
LEMMA OrderPoll ==
  ASSUME RelayInv, ClientInv, OrderInv, RecipientStep
  PROVE  OrderInv'
<1>0. PICK row, entry, fetched : Ordered(row, entry, fetched)
  BY Zenon DEF OrderInv
<1>1. UNCHANGED <<messages, replays, log>>
  BY Zenon DEF RecipientStep, StartPoll, ReceiveFetch, CommitAndAck, ReceiveAck,
         AbandonPoll, vars
<1>2. ASSUME \A id \in MessageIds : InHand(id)' => InHand(id), inbox' = inbox
      PROVE  OrderInv'
  BY <1>0, <1>1, <1>2, KeepOrder, Zenon
<1>3. ASSUME polling' \notin {"fetching", "opened"}
      PROVE  \A id : ~InHand(id)'
  BY <1>3, Zenon DEF InHand
<1>4. CASE StartPoll
  <2>1. /\ polling' = "fetching" /\ inbox' = inbox
        /\ FetchFrame(nextId) \in Frames /\ awaited' = FetchFrame(nextId)
    BY <1>4, Zenon DEF StartPoll
  <2>2. ~Recorded(FetchFrame(nextId))
    <3>1. ASSUME NEW f \in Frames, f = FetchFrame(nextId), ClientFrame(f)
          PROVE  FALSE
      <4>1. f.request_id = nextId /\ f.request.command = "FETCH"
        BY <3>1, PollFrames, Zenon
      <4>2. nextId < nextId
        BY <3>1, <4>1, ClientFrameKinds, Zenon
      <4> QED BY <4>2 DEF ClientInv, ClientTypes
    <3> QED BY <2>1, <3>1, Zenon DEF ClientInv, Provenance
  <2>3. ~Recorded(awaited)'
    BY <1>1, <2>1, <2>2, Zenon DEF Recorded
  <2>4. \A id \in MessageIds : ~InHand(id)'
    BY <2>1, <2>3, Zenon DEF InHand
  <2> QED BY <1>2, <2>1, <2>4, Zenon
<1>5. CASE ReceiveFetch
  <2>0. polling = "fetching" /\ inbox' = inbox
    BY <1>5, Zenon DEF ReceiveFetch
  <2>1. PICK rep \in Incoming(awaited) :
          /\ Matches(rep.frame, awaited)
          /\ \/ EndInVain
             \/ /\ rep.reply.status = "Delivery"
                /\ polling' = "opened" /\ delivery' = rep.reply.delivery
    BY <1>5, Zenon DEF ReceiveFetch
  <2>2. CASE EndInVain
    BY <1>2, <1>3, <2>0, <2>2, Zenon DEF EndInVain, EndPoll
  <2>3. CASE /\ rep.reply.status = "Delivery"
             /\ polling' = "opened" /\ delivery' = rep.reply.delivery
    <3>1. awaited \in Frames /\ awaited = FetchFrame(awaited.request_id)
      BY <2>0, Zenon DEF ClientInv, ClientTypes
    <3>2. rep \in replies /\ rep.frame = awaited
      BY <2>1, <3>1, AnswerIsOwn, Zenon DEF Incoming
    <3>3. Recorded(awaited) /\ replays[KeyOf(awaited)].response = rep.reply
      BY <2>3, <3>1, <3>2, AnswerIsRecorded, Zenon
    <3>4. \A id \in MessageIds : InHand(id)' => InHand(id)
      BY <2>0, <2>3, <3>3, Zenon DEF InHand, RecordedStatus
    <3> QED BY <1>2, <2>0, <3>4, Zenon
  <2> QED BY <2>1, <2>2, <2>3, Zenon
<1>6. CASE CommitAndAck
  <2>1. /\ polling = "opened" /\ polling' = "acking"
        /\ InboxCommit(delivery.id) /\ delivery.id \in MessageIds
    BY <1>6, PollFrames, Zenon DEF CommitAndAck
  <2>2. InHand(delivery.id)
    BY <2>1, Zenon DEF InHand
  <2>3. \A id \in MessageIds : ~InHand(id)'
    BY <1>3, <2>1, Zenon
  <2> QED BY <1>0, <1>1, <2>1, <2>2, <2>3, OrderCommitted DEF ClientInv
<1>7. CASE ReceiveAck \/ AbandonPoll
  BY <1>2, <1>3, <1>7, Zenon DEF ReceiveAck, AbandonPoll, EndPoll
<1> QED BY <1>4, <1>5, <1>6, <1>7, Zenon DEF RecipientStep

\* So does every other step.
LEMMA OrderStep ==
  ASSUME RelayInv, ClientInv, Logged, OrderInv, [EndToEndNext]_allVars
  PROVE  OrderInv'
<1>0. PICK row, entry, fetched : Ordered(row, entry, fetched)
  BY Zenon DEF OrderInv
<1>1. CASE \E t \in Threads : Run(t)
  BY <1>1, OrderRun, Zenon DEF RelayInv, ClientInv
<1>2. ASSUME NEW t \in Threads, RecordRejection(t),
             UNCHANGED <<messages, log, recipientVars>>
      PROVE  OrderInv'
  <2>1. /\ pc[t] # "idle" /\ response[t] \in Reply /\ Record(t, response[t])
        /\ ~Succeeded(response[t])
    BY <1>2, Zenon DEF RecordRejection, RelayInv, Busy, ThreadInv
  <2>2. response[t].status # "Delivery"
    BY <2>1, Zenon DEF Succeeded, Successes
  <2>3. \A id \in MessageIds : InHand(id)' => InHand(id)
    BY <1>2, <2>1, <2>2, HandKept, Zenon DEF RelayInv, ClientInv
  <2> QED BY <1>0, <1>2, <2>3, KeepOrder, Zenon DEF recipientVars
<1>3. CASE RecipientStep
  BY <1>3, OrderPoll, Zenon
<1>4. CASE UNCHANGED <<messages, replays, log, recipientVars>>
  <2>1. \A id \in MessageIds : InHand(id)' => InHand(id)
    BY <1>4, Zenon DEF InHand, Recorded, RecordedStatus, recipientVars
  <2> QED BY <1>0, <1>4, <2>1, KeepOrder, Zenon DEF recipientVars
<1>5. RecipientStep \/ UNCHANGED recipientVars
  BY Zenon DEF EndToEndNext, SenderStep, StartSend, FinishSend, AbandonSend, Receive,
         RelayStep, Run, Serve, RelayFault, Duplicate, Time, allVars
<1> QED BY <1>1, <1>2, <1>3, <1>4, <1>5, StepEffects

\* For any messages and any number of losses, repetitions, redeliveries, expiries
\* and crashes, the recipient applies messages in the order of their acceptance.
THEOREM InboxIsOrdered == EndToEndSpec => []AppliedInOrder
<1>1. RelayInv /\ ClientInv /\ Logged /\ OrderInv /\ [EndToEndNext]_allVars
        => OrderInv'
  BY OrderStep, Zenon
<1>2. EndToEndInit => OrderInv
  <2> SUFFICES ASSUME EndToEndInit PROVE OrderInv
    BY Zenon
  <2>1. PICK row, entry : row = [s \in 1 .. MaxSequence |-> 0] /\ entry = <<>>
    BY Zenon
  <2>2. /\ row \in [1 .. MaxSequence -> 0 .. Len(log)]
        /\ entry \in [DOMAIN inbox -> DOMAIN log]
        /\ DOMAIN inbox = {} /\ messages = {} /\ 0 \in 0 .. Len(log)
        /\ polling = "idle"
    BY <2>1 DEF EndToEndInit
  <2>3. Ordered(row, entry, 0)
    BY <2>2, Zenon DEF Ordered, InHand
  <2> QED BY <2>2, <2>3, Zenon DEF OrderInv
<1>3. OrderInv => AppliedInOrder
  BY Zenon DEF OrderInv, Ordered, AppliedInOrder
<1> QED BY <1>1, <1>2, <1>3, RelayAlways, ClientAlways, CompletionAlways, PTL
        DEF EndToEndSpec
=============================================================================
