----------------------------- MODULE EndToEndProofs -----------------------------
(***************************************************************************)
(* What sender and recipient may rely on, checked by TLAPS for every set   *)
(* of messages, threads and connections and every number of faults.        *)
(***************************************************************************)
EXTENDS EndToEnd, DurableRelayProofs

InLog(id) == \E i \in DOMAIN log : log[i] = id

ClientTypes ==
  /\ wire \in [Frames -> Nat]
  /\ replies \subseteq [frame : Frames, reply : Reply]
  /\ sending \in PreparedSends \cup {None}
  /\ completed \in [PreparedSends -> {None, "Accepted", "Duplicate", "Refused"}]
  /\ nextId \in Nat
  /\ inbox \in Seq(MessageIds)
  /\ log \in Seq(MessageIds)
  /\ polling \in {"idle", "fetching", "opened", "acking"}
  /\ polling = "fetching" => /\ awaited \in Frames
                             /\ awaited = FetchFrame(awaited.request_id)

\* The frames the clients have sent so far: SENDs of the outbox, FETCHes and
\* ACKs under identifiers already drawn, and ACKs only of what is committed.
ClientFrame(f) ==
  \/ f \in PreparedSends
  \/ f = FetchFrame(f.request_id) /\ f.request_id < nextId
  \/ /\ f = AckFrame(f.request_id, f.request.message)
     /\ f.request_id < nextId
     /\ InInbox(f.request.message)

\* Whatever is under way, being served, recorded or answered is such a frame.
Provenance ==
  /\ \A f \in Frames : wire[f] > 0 => ClientFrame(f)
  /\ \A t \in Threads : pc[t] # "idle" => ClientFrame(frame[t])
  /\ \A f \in Frames : Recorded(f) => ClientFrame(f)
  /\ \A rep \in replies : ClientFrame(rep.frame)

\* A reply in the network is what the replay table prescribes, for ever.
RepliesTrue ==
  \A rep \in replies :
    IF OutOfRange(rep.frame.request)
    THEN rep.reply = Status("LimitOutOfRange")
    ELSE replays[KeyOf(rep.frame)] # None /\ rep.reply = Replayed(rep.frame)

\* What is stored or reported as accepted or as a duplicate is in the log.
Logged ==
  /\ \A m \in messages : m.queue = Queue /\ InLog(m.id)
  /\ \A f \in Frames : Recorded(f) /\ RecordedStatus(f) \in {"Accepted", "Duplicate"}
                         => InLog(f.request.message)

\* What send() returned is on record for the frame it was called with.
CompletionRecorded ==
  \A f \in PreparedSends :
    completed[f] \in {"Accepted", "Duplicate"} =>
      Recorded(f) /\ RecordedStatus(f) = completed[f]

-----------------------------------------------------------------------------
(* The relay in its environment of clients.                                *)

RelayInv == Busy /\ ExchangeInv /\ TablesInv

\* With the queue created and nothing sent, the relay's invariants hold.
LEMMA RelayInit == EndToEndInit => RelayInv /\ LossInv
<1> SUFFICES ASSUME EndToEndInit PROVE RelayInv /\ LossInv
  BY Zenon
<1> USE DEF EndToEndInit
<1>1. Busy
  BY ProtocolAssumption, EndToEndAssumption
     DEF Busy, TypeOK, ThreadInv, Timestamps, PcValues
<1>2. ExchangeInv
  BY KeyType, Zenon DEF ExchangeInv, EffectOnce, ReplyIsRecorded
<1>3. TablesInv
  BY Zenon DEF TablesInv, Integrity, DeliveredIsHead
<1>4. LossInv
  BY KeyType, ProtocolAssumption
     DEF LossInv, SampledBefore, NoSilentLoss, Timestamps, AcceptedAreSends,
         RecordedAccepted
<1> QED BY <1>1, <1>2, <1>3, <1>4, Zenon DEF RelayInv

\* A step of the composition is one of the relay, or leaves the relay alone.
LEMMA RelayMoves == [EndToEndNext]_allVars => [Next]_vars
<1> SUFFICES ASSUME [EndToEndNext]_allVars PROVE [Next]_vars
  BY Zenon
<1>1. CASE SenderStep
  BY <1>1, Zenon DEF SenderStep, StartSend, FinishSend, AbandonSend
<1>2. CASE RecipientStep
  BY <1>2, Zenon DEF RecipientStep, StartPoll, ReceiveFetch, CommitAndAck, ReceiveAck,
              AbandonPoll
<1>3. CASE \E t \in Threads, f \in Frames : Receive(t, f)
  BY <1>3, Zenon DEF Receive, Next, Environment
<1>4. CASE \E t \in Threads : RelayStep(t)
  BY <1>4, Zenon DEF RelayStep, Run, Serve, Next
<1>5. CASE RelayFault
  BY <1>5, Zenon DEF RelayFault, Next, Environment
<1>6. CASE \E f \in Frames : Duplicate(f)
  BY <1>6, Zenon DEF Duplicate
<1>7. CASE Time
  BY <1>7, Zenon DEF Time, Next, Environment
<1>8. CASE UNCHANGED allVars
  BY <1>8, Zenon DEF allVars
<1> QED BY <1>1, <1>2, <1>3, <1>4, <1>5, <1>6, <1>7, <1>8, Zenon DEF EndToEndNext

\* So the relay's invariants hold in the composition.
LEMMA RelayAlways == EndToEndSpec => []RelayInv
<1>1. RelayInv /\ [EndToEndNext]_allVars => RelayInv'
  BY RelayMoves, BusyStep, ExchangeStep, TablesStep, Zenon DEF RelayInv
<1> QED BY <1>1, RelayInit, PTL DEF EndToEndSpec

-----------------------------------------------------------------------------
(* Where frames, records and replies come from.                            *)

\* Once a frame was sent, it stays one that was sent: identifiers are drawn in
\* order and nothing leaves the inbox.
LEMMA ClientFrameStays ==
  ASSUME nextId \in Nat, nextId' \in Nat, nextId <= nextId',
         \A id \in MessageIds : InInbox(id) => InInbox(id)',
         NEW f \in Frames, ClientFrame(f)
  PROVE  ClientFrame(f)'
<1>1. f.request_id \in Nat
  BY DurableAssumption, EndToEndAssumption, Zenon DEF Frame
<1>2. ASSUME f = AckFrame(f.request_id, f.request.message)
      PROVE  f.request.message \in MessageIds
  <2>1. f.request \in Request /\ f.request.command = "ACK"
    BY <1>2, DurableAssumption DEF Frame, AckFrame
  <2> QED BY <2>1, Zenon DEF Request, CreateQueueRequest, SendRequest, FetchRequest,
                      AckRequest, DeleteQueueRequest
<1> QED BY <1>1, <1>2 DEF ClientFrame

-----------------------------------------------------------------------------
(* The clients.                                                            *)

\* The fields of the frames poll() signs.
LEMMA PollFrames ==
  ASSUME NEW id, NEW message
  PROVE  /\ FetchFrame(id).request_id = id
         /\ FetchFrame(id).request.command = "FETCH"
         /\ AckFrame(id, message).request_id = id
         /\ AckFrame(id, message).request.command = "ACK"
         /\ AckFrame(id, message).request.message = message
         /\ AckFrame(id, message) \in Frames => message \in MessageIds
<1>1. ASSUME AckFrame(id, message) \in Frames
      PROVE  message \in MessageIds
  <2>1. AckFrame(id, message).request \in Request
    BY <1>1, DurableAssumption, Zenon DEF Frame
  <2>2. AckFrame(id, message).request \in AckRequest
    BY <2>1, Zenon DEF AckFrame, Request, CreateQueueRequest, SendRequest, FetchRequest,
                AckRequest, DeleteQueueRequest
  <2> QED BY <2>2, Zenon DEF AckFrame, AckRequest
<1> QED BY <1>1, Zenon DEF FetchFrame, AckFrame

\* The frames of an outbox are SENDs of the relay's frames.
LEMMA PreparedAreFrames ==
  ASSUME NEW f \in PreparedSends
  PROVE  /\ f \in Frames /\ f.request.command = "SEND" /\ f.request \in SendRequest
         /\ f.request.message \in MessageIds /\ f.request.queue = Queue
<1>1. f \in Frames /\ f.request.command = "SEND" /\ f.request.queue = Queue
  BY Zenon DEF PreparedSends
<1>2. f.request \in SendRequest
  BY <1>1, RequestShape, Zenon
<1> QED BY <1>1, <1>2, Zenon DEF SendRequest

\* A commit to the inbox keeps what is there and adds the identifier.
LEMMA InboxGrows ==
  ASSUME inbox \in Seq(MessageIds), NEW id \in MessageIds, InboxCommit(id)
  PROVE  /\ inbox' \in Seq(MessageIds)
         /\ InInbox(id)'
         /\ \A other : InInbox(other) => InInbox(other)'
<1>1. CASE \E i \in DOMAIN inbox : inbox[i] = id
  BY <1>1, Zenon DEF InboxCommit, InInbox
<1>2. CASE inbox' = Append(inbox, id)
  BY <1>2 DEF InInbox
<1> QED BY <1>1, <1>2, Zenon DEF InboxCommit

\* The inbox only grows and identifiers are drawn in order.
LEMMA ClientGrows ==
  ASSUME ClientTypes, [EndToEndNext]_allVars
  PROVE  /\ nextId' \in Nat /\ nextId <= nextId'
         /\ inbox' \in Seq(MessageIds)
         /\ \A id \in MessageIds : InInbox(id) => InInbox(id)'
<1> USE DEF ClientTypes
<1>1. CASE UNCHANGED <<nextId, inbox>>
  BY <1>1 DEF InInbox
<1>2. CASE StartPoll
  BY <1>2 DEF StartPoll, InInbox
<1>3. CASE CommitAndAck
  BY <1>3, PollFrames, InboxGrows DEF CommitAndAck
<1>4. CASE SenderStep
  BY <1>1, <1>4, Zenon
     DEF SenderStep, StartSend, FinishSend, AbandonSend, recipientVars
<1>5. CASE ReceiveFetch \/ ReceiveAck \/ AbandonPoll
  BY <1>1, <1>5, Zenon DEF ReceiveFetch, ReceiveAck, AbandonPoll
<1>6. CASE \/ \E t \in Threads, f \in Frames : Receive(t, f)
           \/ \E t \in Threads : RelayStep(t)
           \/ RelayFault
           \/ \E f \in Frames : Duplicate(f)
           \/ Time
           \/ UNCHANGED allVars
  BY <1>1, <1>6, Zenon DEF Receive, RelayStep, Run, Serve, RelayFault, Duplicate, Time,
                    allVars, recipientVars
<1> QED BY <1>2, <1>3, <1>4, <1>5, <1>6, Zenon DEF EndToEndNext, RecipientStep

\* The log grows by what a SEND stored.
LEMMA LogStep ==
  ASSUME Busy, NEW t \in Threads, Run(t)
  PROVE  \/ Reject(t) /\ log' = log
         \/ Thins(t) /\ log' = log
         \/ /\ Stores(t) /\ log' = Append(log, frame[t].request.message)
            /\ frame[t].request.message \in MessageIds
<1>1. Reject(t) \/ Thins(t) \/ Stores(t)
  BY EffectOutcome, Zenon DEF Run
<1>2. CASE Reject(t)
  <2>1. PICK error \in RelayErrors :
          response' = [response EXCEPT ![t] = Status(error)]
    BY <1>2, RefusalType, Zenon DEF Reject
  <2>2. response'[t].status # "Accepted"
    BY <2>1, Zenon DEF Busy, TypeOK, Status, RelayErrors
  <2> QED BY <1>2, <2>2, Zenon DEF Run
<1>3. CASE Thins(t)
  <2>1. PICK result \in Reply : Commit(t, result) /\ result.status # "Accepted"
    BY <1>3, Zenon DEF Thins
  <2>2. response'[t] = result
    BY <2>1, Zenon DEF Commit, Record, Busy, TypeOK
  <2> QED BY <1>3, <2>1, <2>2, Zenon DEF Run
<1>4. CASE Stores(t)
  <2>1. response'[t] = Status("Accepted")
    BY <1>4, Zenon DEF Stores, Commit, Record, Busy, TypeOK
  <2>2. PICK new \in MessageRow : new.id = frame[t].request.message
    BY <1>4, Zenon DEF Stores
  <2>3. frame[t].request.message \in MessageIds
    BY <2>2, Zenon DEF MessageRow
  <2> QED BY <1>4, <2>1, <2>3 DEF Run, Status
<1> QED BY <1>1, <1>2, <1>3, <1>4, Zenon

\* The clients' variables keep their types.
LEMMA ClientTypesStep ==
  ASSUME Busy, ClientTypes, [EndToEndNext]_allVars
  PROVE  ClientTypes'
<1>0. nextId' \in Nat /\ inbox' \in Seq(MessageIds)
  BY ClientGrows, Zenon
<1>1. ASSUME NEW f \in Frames, Emit(f)
      PROVE  wire' \in [Frames -> Nat]
  BY <1>1, Zenon DEF Emit, ClientTypes
<1>2. ASSUME NEW f \in PreparedSends, StartSend(f)
      PROVE  ClientTypes'
  <2>1. wire' \in [Frames -> Nat]
    BY <1>1, <1>2, PreparedAreFrames, Zenon DEF StartSend
  <2> QED BY <1>0, <1>2, <2>1, Zenon DEF StartSend, ClientTypes, recipientVars
<1>3. CASE FinishSend
  BY <1>0, <1>3, Zenon DEF FinishSend, ClientTypes, recipientVars, network
<1>4. CASE AbandonSend
  BY <1>0, <1>4, Zenon DEF AbandonSend, ClientTypes, recipientVars, network
<1>5. CASE StartPoll
  <2>1. wire' \in [Frames -> Nat]
    BY <1>1, <1>5, Zenon DEF StartPoll
  <2> QED BY <1>0, <1>5, <2>1, PollFrames, Zenon DEF StartPoll, ClientTypes, senderVars
<1>6. CASE ReceiveFetch
  BY <1>0, <1>6, Zenon
     DEF ReceiveFetch, EndInVain, EndPoll, ClientTypes, senderVars, network
<1>7. CASE CommitAndAck
  <2>1. wire' \in [Frames -> Nat]
    BY <1>1, <1>7, Zenon DEF CommitAndAck
  <2> QED BY <1>0, <1>7, <2>1, Zenon DEF CommitAndAck, ClientTypes, senderVars
<1>8. CASE ReceiveAck \/ AbandonPoll
  BY <1>0, <1>8, Zenon
     DEF ReceiveAck, AbandonPoll, EndPoll, ClientTypes, senderVars, network
<1>9. ASSUME NEW t \in Threads, NEW f \in Frames, Receive(t, f)
      PROVE  ClientTypes'
  BY <1>0, <1>9 DEF Receive, ClientTypes, senderVars, recipientVars
<1>10. ASSUME NEW t \in Threads, Run(t)
       PROVE  ClientTypes'
  <2>0. log \in Seq(MessageIds)
    BY Zenon DEF ClientTypes
  <2>1. log' \in Seq(MessageIds)
    BY <1>10, <2>0, LogStep
  <2> QED BY <1>0, <1>10, <2>1, Zenon
          DEF Run, ClientTypes, senderVars, recipientVars, network
<1>11. ASSUME NEW t \in Threads, Serve(t)
       PROVE  ClientTypes'
  <2>1. pc[t] = "respond" => frame[t] \in Frames /\ response[t] \in Reply
    BY Zenon DEF Busy, ThreadInv
  <2>2. replies' \subseteq [frame : Frames, reply : Reply]
    BY <1>11, <2>1 DEF Serve, ClientTypes
  <2> QED BY <1>0, <1>11, <2>2, Zenon DEF Serve, ClientTypes, senderVars, recipientVars
<1>12. CASE RelayFault \/ Time \/ UNCHANGED allVars
  BY <1>0, <1>12, Zenon DEF RelayFault, Time, allVars, ClientTypes, senderVars,
                     recipientVars, network
<1>13. ASSUME NEW f \in Frames, Duplicate(f)
       PROVE  ClientTypes'
  BY <1>0, <1>13, Zenon DEF Duplicate, ClientTypes, senderVars, recipientVars
<1> QED BY <1>2, <1>3, <1>4, <1>5, <1>6, <1>7, <1>8, <1>9, <1>10, <1>11, <1>12,
           <1>13, Zenon DEF EndToEndNext, SenderStep, RecipientStep, RelayStep

\* Every step puts only frames of the clients on the network.
LEMMA WireStep ==
  ASSUME Busy, ClientTypes, Provenance, [EndToEndNext]_allVars,
         NEW f \in Frames, wire'[f] > 0
  PROVE  ClientFrame(f)'
<1>0. ASSUME ClientFrame(f) PROVE ClientFrame(f)'
  BY <1>0, ClientGrows, ClientFrameStays, Zenon DEF ClientTypes
<1>1. CASE wire[f] > 0
  BY <1>0, <1>1, Zenon DEF Provenance
<1>2. ASSUME NEW g \in Frames, Emit(g), ~(wire[f] > 0)
      PROVE  f = g
  BY <1>2, Zenon DEF Emit, ClientTypes
<1>3. ASSUME NEW g \in PreparedSends, StartSend(g)
      PROVE  ClientFrame(f)'
  BY <1>1, <1>2, <1>3, PreparedAreFrames, Zenon DEF StartSend, ClientFrame
<1>4. CASE StartPoll
  <2>1. CASE f = FetchFrame(nextId)
    <3>1. f.request_id = nextId /\ nextId < nextId'
      BY <1>4, <2>1, PollFrames DEF StartPoll, ClientTypes
    <3> QED BY <2>1, <3>1, Zenon DEF ClientFrame
  <2> QED BY <1>1, <1>2, <1>4, <2>1, Zenon DEF StartPoll
<1>5. CASE CommitAndAck
  <2>1. CASE f = AckFrame(nextId, delivery.id)
    <3>1. /\ f.request_id = nextId /\ nextId < nextId'
          /\ f.request.message = delivery.id /\ delivery.id \in MessageIds
          /\ delivery' = delivery
      BY <1>5, <2>1, PollFrames DEF CommitAndAck, ClientTypes
    <3>2. InInbox(delivery.id)'
      BY <1>5, <3>1, InboxGrows, Zenon DEF CommitAndAck, ClientTypes
    <3>3. InInbox(f.request.message)'
      BY <3>1, <3>2, Zenon DEF InInbox
    <3>4. f = AckFrame(f.request_id, f.request.message)
      BY <2>1, <3>1, Zenon
    <3> QED BY <3>1, <3>3, <3>4, Zenon DEF ClientFrame
  <2> QED BY <1>1, <1>2, <1>5, <2>1, Zenon DEF CommitAndAck
<1>6. CASE UNCHANGED wire
  BY <1>1, <1>6, Zenon
<1>7. CASE FinishSend \/ AbandonSend \/ ReceiveFetch \/ ReceiveAck \/ AbandonPoll
  BY <1>6, <1>7, Zenon
     DEF FinishSend, AbandonSend, ReceiveFetch, ReceiveAck, AbandonPoll, network
<1>8. ASSUME NEW t \in Threads, NEW g \in Frames, Receive(t, g)
      PROVE  wire[f] > 0
  BY <1>8, Zenon DEF Receive, ClientTypes
<1>9. ASSUME NEW g \in Frames, Duplicate(g)
      PROVE  wire[f] > 0
  BY <1>9 DEF Duplicate, ClientTypes
<1>10. CASE \/ \E t \in Threads : RelayStep(t)
            \/ RelayFault \/ Time \/ UNCHANGED allVars
  BY <1>6, <1>10, Zenon DEF RelayStep, Run, Serve, RelayFault, Time, allVars, network
<1> QED BY <1>1, <1>3, <1>4, <1>5, <1>7, <1>8, <1>9, <1>10, Zenon
        DEF EndToEndNext, SenderStep, RecipientStep

\* A reply enters the network when a thread has its answer ready.
LEMMA ReplyOrigin ==
  ASSUME [EndToEndNext]_allVars, NEW rep \in replies'
  PROVE  \/ rep \in replies
         \/ \E t \in Threads : /\ pc[t] = "respond"
                             /\ rep = [frame |-> frame[t], reply |-> response[t]]
<1>1. CASE replies' = replies
  BY <1>1, Zenon
<1>2. CASE \E t \in Threads : Serve(t)
  BY <1>2, Zenon DEF Serve
<1>3. CASE SenderStep \/ RecipientStep
  BY <1>1, <1>3, Zenon DEF SenderStep, StartSend, FinishSend, AbandonSend,
        RecipientStep, StartPoll, ReceiveFetch, CommitAndAck, ReceiveAck,
        AbandonPoll, network
<1>4. CASE \/ \E t \in Threads, f \in Frames : Receive(t, f)
           \/ \E t \in Threads : Run(t)
           \/ RelayFault \/ Time
           \/ \E f \in Frames : Duplicate(f)
           \/ UNCHANGED allVars
  BY <1>1, <1>4, Zenon DEF Receive, Run, RelayFault, Time, Duplicate, allVars, network
<1> QED BY <1>2, <1>3, <1>4, Zenon DEF EndToEndNext, RelayStep

\* Every step serves, records and answers only such frames.
LEMMA ProvenanceStep ==
  ASSUME Busy, ClientTypes, Provenance, [EndToEndNext]_allVars
  PROVE  Provenance'
<1>0. ASSUME NEW f \in Frames, ClientFrame(f)
      PROVE  ClientFrame(f)'
  BY <1>0, ClientGrows, ClientFrameStays, Zenon DEF ClientTypes
<1>1. \A f \in Frames : wire'[f] > 0 => ClientFrame(f)'
  BY WireStep, Zenon
<1>2. ASSUME NEW u \in Threads, pc'[u] # "idle"
      PROVE  ClientFrame(frame[u])'
  <2>0. frame'[u] \in Frames /\ Busy'
    BY <1>2, RelayMoves, BusyStep, Zenon DEF Busy, ThreadInv
  <2>1. CASE pc[u] # "idle" /\ frame'[u] = frame[u]
    <3>1. \A f \in Frames : f = frame[u] => ClientFrame(f)
      BY <2>1, Zenon DEF Provenance
    <3> QED BY <1>0, <2>0, <2>1, <3>1, Zenon DEF ClientFrame, InInbox
  <2>2. ASSUME NEW t \in Threads, NEW f \in Frames, Receive(t, f)
        PROVE  ClientFrame(frame[u])'
    <3>1. CASE u = t
      <4>1. frame'[u] = f /\ ClientFrame(f)
        BY <2>2, <3>1, Zenon DEF Receive, Accept, Busy, TypeOK, Provenance
      <4> QED BY <1>0, <4>1, Zenon DEF ClientFrame, InInbox
    <3>2. CASE u # t
      <4>1. pc[u] # "idle" /\ frame'[u] = frame[u]
        BY <1>2, <2>2, <3>2, Zenon DEF Receive, Accept, Goto, Busy, TypeOK
      <4> QED BY <2>1, <4>1, Zenon
    <3> QED BY <3>1, <3>2, Zenon
  <2>3. CASE UNCHANGED vars
    BY <1>2, <2>1, <2>3, Zenon DEF vars
  <2>4. CASE SenderStep \/ RecipientStep
    BY <2>3, <2>4, Zenon DEF SenderStep, StartSend, FinishSend, AbandonSend,
          RecipientStep, StartPoll, ReceiveFetch, CommitAndAck, ReceiveAck,
          AbandonPoll
  <2>5. CASE \/ \E t \in Threads : RelayStep(t) \/ RelayFault \/ Time
    BY <1>2, <2>1, <2>5, FramesKept, Zenon DEF RelayStep, Run, Serve, RelayFault, Time
  <2>6. CASE (\E f \in Frames : Duplicate(f)) \/ UNCHANGED allVars
    BY <2>3, <2>6, Zenon DEF Duplicate, allVars
  <2> QED BY <2>2, <2>4, <2>5, <2>6, Zenon DEF EndToEndNext
<1>3. ASSUME NEW f \in Frames, Recorded(f)'
      PROVE  ClientFrame(f)'
  BY <1>0, <1>3, RelayMoves, RecordOrigin, Zenon DEF Provenance
<1>4. ASSUME NEW rep \in replies'
      PROVE  ClientFrame(rep.frame)'
  <2>0. rep.frame \in Frames
    BY ClientTypesStep, Zenon DEF ClientTypes
  <2>1. CASE rep \in replies
    BY <1>0, <2>0, <2>1, Zenon DEF Provenance
  <2>2. ASSUME NEW t \in Threads, pc[t] = "respond", rep.frame = frame[t]
        PROVE  ClientFrame(rep.frame)'
    BY <1>0, <2>0, <2>2, Zenon DEF Provenance
  <2> QED BY <2>1, <2>2, ReplyOrigin
<1> QED BY <1>1, <1>2, <1>3, <1>4, Zenon DEF Provenance

\* A reply stays what the replay table prescribes, since records are permanent.
LEMMA RepliesStep ==
  ASSUME RelayInv, ClientTypes, RepliesTrue, [EndToEndNext]_allVars
  PROVE  RepliesTrue'
<1> DEFINE True(rep) ==
      IF OutOfRange(rep.frame.request)
      THEN rep.reply = Status("LimitOutOfRange")
      ELSE replays[KeyOf(rep.frame)] # None /\ rep.reply = Replayed(rep.frame)
<1>1. ASSUME NEW rep, rep.frame \in Frames, True(rep)
      PROVE  True(rep)'
  <2>1. replays[KeyOf(rep.frame)] # None =>
          replays'[KeyOf(rep.frame)] = replays[KeyOf(rep.frame)]
    BY <1>1, RelayMoves, RecordStays, Zenon DEF RelayInv
  <2> QED BY <1>1, <2>1, Zenon DEF Replayed
<1>2. ASSUME NEW rep \in replies'
      PROVE  rep.frame \in Frames /\ True(rep)
  <2>1. CASE rep \in replies
    BY <2>1, Zenon DEF ClientTypes, RepliesTrue
  <2>2. ASSUME NEW t \in Threads, pc[t] = "respond",
               rep = [frame |-> frame[t], reply |-> response[t]]
        PROVE  rep.frame \in Frames /\ True(rep)
    <3>1. rep.frame = frame[t] /\ rep.reply = response[t]
      BY <2>2, Zenon
    <3>2. frame[t] \in Frames
      BY <2>2, Zenon DEF RelayInv, Busy, ThreadInv
    <3> QED BY <2>2, <3>1, <3>2, Zenon DEF RelayInv, ExchangeInv, ReplyIsRecorded
  <2> QED BY <2>1, <2>2, ReplyOrigin, Zenon
<1> QED BY <1>1, <1>2, Zenon DEF RepliesTrue

\* The clients are never answered out of turn, and what they sent is known.
ClientInv == ClientTypes /\ Provenance /\ RepliesTrue

\* Nothing has been sent at the start.
LEMMA ClientInit == EndToEndInit => ClientInv
<1> SUFFICES ASSUME EndToEndInit PROVE ClientInv
  BY Zenon
<1>1. ClientTypes
  BY DEF EndToEndInit, ClientTypes
<1>2. \A f \in Frames : ~Recorded(f)
  BY KeyType, Zenon DEF EndToEndInit, Recorded
<1>3. Provenance /\ RepliesTrue
  BY <1>2 DEF EndToEndInit, Provenance, RepliesTrue
<1> QED BY <1>1, <1>3, Zenon DEF ClientInv

\* So the invariants of the clients hold throughout.
LEMMA ClientAlways == EndToEndSpec => []ClientInv
<1>1. RelayInv /\ ClientInv /\ [EndToEndNext]_allVars => ClientInv'
  BY ClientTypesStep, ProvenanceStep, RepliesStep, Zenon DEF RelayInv, ClientInv
<1> QED BY <1>1, ClientInit, RelayAlways, PTL DEF EndToEndSpec

\* What the clients' frames are, by command.
LEMMA ClientFrameKinds ==
  ASSUME NEW f \in Frames, ClientFrame(f)
  PROVE  /\ f.request.command \in {"SEND", "FETCH", "ACK"}
         /\ f.request.command = "SEND" => f \in PreparedSends
         /\ f.request.command = "FETCH" => /\ f = FetchFrame(f.request_id)
                                           /\ f.request_id < nextId
         /\ f.request.command = "ACK" => InInbox(f.request.message)
<1>1. CASE f \in PreparedSends
  BY <1>1, PreparedAreFrames, Zenon
<1>2. CASE f = FetchFrame(f.request_id) /\ f.request_id < nextId
  BY <1>2, PollFrames
<1>3. CASE /\ f = AckFrame(f.request_id, f.request.message)
           /\ InInbox(f.request.message)
  BY <1>3, PollFrames
<1> QED BY <1>1, <1>2, <1>3, Zenon DEF ClientFrame

\* An ACK that took effect is on record, so the recipient sent it, and it sends
\* none before commit() has returned.
LEMMA CommittedBeforeAck ==
  ASSUME RelayInv, ClientInv, NEW f \in Frames, applied[f] > 0
  PROVE  /\ f.request.command \in {"SEND", "FETCH", "ACK"}
         /\ f.request.command = "ACK" => InInbox(f.request.message)
<1>1. Recorded(f)
  BY DEF RelayInv, ExchangeInv, EffectOnce, Recorded
<1> QED BY <1>1, ClientFrameKinds, Zenon DEF ClientInv, Provenance

\* For any clients' frames and any number of crashes, lost and repeated frames and
\* redeliveries, a message the relay was told to forget is in the durable inbox.
THEOREM AcksFollowCommits == EndToEndSpec => []AckedIsCommitted
<1>1. RelayInv /\ ClientInv => AckedIsCommitted
  BY CommittedBeforeAck, Zenon DEF AckedIsCommitted
<1> QED BY <1>1, RelayAlways, ClientAlways, PTL

-----------------------------------------------------------------------------
(* What is stored or acknowledged to a sender was accepted.                *)

\* The steps that change the rows, the records or the log, and what they leave
\* alone.
LEMMA StepEffects ==
  ASSUME [EndToEndNext]_allVars
  PROVE  \/ \E t \in Threads : Run(t)
         \/ /\ \E t \in Threads : RecordRejection(t)
            /\ UNCHANGED <<messages, log, recipientVars>>
         \/ UNCHANGED <<messages, replays, log>>
<1>1. CASE SenderStep \/ RecipientStep
  BY <1>1, Zenon DEF SenderStep, StartSend, FinishSend, AbandonSend, RecipientStep,
        StartPoll, ReceiveFetch, CommitAndAck, ReceiveAck, AbandonPoll, vars
<1>2. ASSUME NEW t \in Threads, NEW f \in Frames, Receive(t, f)
      PROVE  UNCHANGED <<messages, replays, log>>
  BY <1>2, Zenon DEF Receive, Accept, tables
<1>3. ASSUME NEW t \in Threads, Serve(t)
      PROVE  \/ /\ RecordRejection(t)
                /\ UNCHANGED <<messages, log, recipientVars>>
             \/ UNCHANGED <<messages, replays, log>>
  BY <1>3, Zenon DEF Serve, Passage, Lookup, RecordRejection, InsertConflict, ReadBack,
              Respond, Release, tables
<1>4. CASE RelayFault \/ Time \/ UNCHANGED allVars
  BY <1>4, Zenon DEF RelayFault, Fail, Crash, Release, Time, Tick, tables, allVars, vars
<1>5. ASSUME NEW f \in Frames, Duplicate(f)
      PROVE  UNCHANGED <<messages, replays, log>>
  BY <1>5, Zenon DEF Duplicate, vars
<1> QED BY <1>1, <1>2, <1>3, <1>4, <1>5, Zenon DEF EndToEndNext, RelayStep

\* A thread in a transaction commits a reply, of which status it may be.
LEMMA LoggedRun ==
  ASSUME Busy, ClientTypes, Provenance, Logged, NEW t \in Threads, Run(t)
  PROVE  Logged'
<1>0. log \in Seq(MessageIds) /\ pc[t] = "execute" /\ frame[t] \in Frames
  <2>1. Effect(t)
    BY Zenon DEF Run
  <2>2. pc[t] = "execute"
    BY <2>1, CommandStep, Zenon DEF Effect, Reject
  <2> QED BY <2>2, Zenon DEF ClientTypes, Busy, ThreadInv
<1>1. ASSUME log' = log, NEW id, InLog(id)
      PROVE  InLog(id)'
  BY <1>1, Zenon DEF InLog
<1>2. CASE Reject(t) /\ log' = log
  <2>1. UNCHANGED <<messages, replays>>
    BY <1>2, Zenon DEF Reject, tables
  <2> QED BY <1>2, <2>1, Zenon DEF Logged, InLog, Recorded, RecordedStatus
<1>3. CASE Thins(t) /\ log' = log
  <2>1. PICK result \in Reply :
          /\ Commit(t, result) /\ result.status # "Accepted"
          /\ \A n \in messages' :
               \E m \in messages : /\ n.sequence = m.sequence /\ n.id = m.id
                                   /\ n.queue = m.queue
          /\ result.status = "Duplicate" =>
               \E m \in messages : m.id = frame[t].request.message
    BY <1>3, Zenon DEF Thins
  <2>2. \A n \in messages' : n.queue = Queue /\ InLog(n.id)'
    BY <1>1, <1>3, <2>1, Zenon DEF Logged
  <2>3. ASSUME NEW f \in Frames, Recorded(f)',
               RecordedStatus(f)' \in {"Accepted", "Duplicate"}
        PROVE  InLog(f.request.message)
    <3>1. \/ f = frame[t] /\ replays'[KeyOf(f)].response = result
          \/ Recorded(f) /\ replays'[KeyOf(f)] = replays[KeyOf(f)]
      BY <1>0, <2>1, <2>3, NewRecord, Zenon DEF Commit
    <3>2. CASE f = frame[t] /\ replays'[KeyOf(f)].response = result
      BY <2>1, <2>3, <3>2, Zenon DEF Logged, RecordedStatus
    <3> QED BY <2>3, <3>1, <3>2, Zenon DEF Logged, RecordedStatus
  <2> QED BY <1>1, <1>3, <2>2, <2>3, Zenon DEF Logged, InLog
<1>4. CASE /\ Stores(t) /\ log' = Append(log, frame[t].request.message)
           /\ frame[t].request.message \in MessageIds
  <2>1. /\ \A id : InLog(id) => InLog(id)'
        /\ log'[Len(log) + 1] = frame[t].request.message
        /\ Len(log) + 1 \in DOMAIN log'
    BY <1>0, <1>4 DEF InLog
  <2>2. \E i \in DOMAIN log' : log'[i] = frame[t].request.message
    BY <2>1, Zenon
  <2>3. frame[t] \in PreparedSends /\ frame[t].request.queue = Queue
    <3>1. frame[t].request.command = "SEND" /\ ClientFrame(frame[t])
      BY <1>0, <1>4, Zenon DEF Stores, Provenance
    <3> QED BY <1>0, <3>1, ClientFrameKinds, PreparedAreFrames, Zenon
  <2>4. PICK new \in MessageRow :
          /\ new.queue = frame[t].request.queue
          /\ new.id = frame[t].request.message
          /\ \A n \in messages' : n = new \/ n \in messages
    BY <1>4, Zenon DEF Stores
  <2>5. ASSUME NEW n \in messages'
        PROVE  n.queue = Queue /\ \E i \in DOMAIN log' : log'[i] = n.id
    <3>1. CASE n = new
      BY <2>2, <2>3, <2>4, <3>1, Zenon
    <3>2. CASE n \in messages
      BY <2>1, <3>2, Zenon DEF Logged, InLog
    <3> QED BY <2>4, <3>1, <3>2, Zenon
  <2>6. ASSUME NEW f \in Frames, Recorded(f)',
               RecordedStatus(f)' \in {"Accepted", "Duplicate"}
        PROVE  \E i \in DOMAIN log' : log'[i] = f.request.message
    <3>0. Record(t, Status("Accepted")) /\ Status("Accepted") \in Reply
      BY <1>4, StatusType, Zenon DEF Stores, Commit, Successes
    <3>1. f = frame[t] \/ (Recorded(f) /\ replays'[KeyOf(f)] = replays[KeyOf(f)])
      BY <1>0, <2>6, <3>0, NewRecord, Zenon
    <3>2. CASE Recorded(f) /\ replays'[KeyOf(f)] = replays[KeyOf(f)]
      <4>1. InLog(f.request.message)
        BY <2>6, <3>2, Zenon DEF Logged, RecordedStatus
      <4> QED BY <2>1, <4>1, Zenon DEF InLog
    <3> QED BY <2>2, <3>1, <3>2, Zenon
  <2> QED BY <2>5, <2>6, Zenon DEF Logged, InLog
<1> QED BY <1>2, <1>3, <1>4, LogStep, Zenon

\* What is stored, or on record as accepted or present, stays in the log.
LEMMA LoggedStep ==
  ASSUME Busy, ClientTypes, Provenance, Logged, [EndToEndNext]_allVars
  PROVE  Logged'
<1>1. CASE \E t \in Threads : Run(t)
  BY <1>1, LoggedRun, Zenon
<1>2. CASE /\ \E t \in Threads : RecordRejection(t)
           /\ UNCHANGED <<messages, log, recipientVars>>
  <2>1. ASSUME NEW f \in Frames, Recorded(f)',
               RecordedStatus(f)' \in {"Accepted", "Duplicate"}
        PROVE  InLog(f.request.message)
    BY <1>2, <2>1, RefusalRecord, Zenon DEF Logged, RecordedStatus
  <2> QED BY <1>2, <2>1, Zenon DEF Logged, InLog
<1>3. CASE UNCHANGED <<messages, replays, log>>
  BY <1>3, Zenon DEF Logged, InLog, Recorded, RecordedStatus
<1> QED BY <1>1, <1>2, <1>3, StepEffects, Zenon

-----------------------------------------------------------------------------
(* What send() returned.                                                   *)

\* The reply a client takes for the answer to its SEND or FETCH answers that
\* frame.
LEMMA AnswerIsOwn ==
  ASSUME ClientInv, NEW g \in Frames, NEW rep \in Incoming(g),
         Matches(rep.frame, g),
         g \in PreparedSends \/ g = FetchFrame(g.request_id)
  PROVE  rep.frame = g
<1>1. /\ rep \in replies /\ rep.frame \in Frames /\ ClientFrame(rep.frame)
      /\ rep.frame.request_id = g.request_id
      /\ rep.frame.request.command = g.request.command
  BY Zenon DEF Incoming, Matches, ClientInv, ClientTypes, Provenance
<1>2. CASE g \in PreparedSends
  <2>1. g.request.command = "SEND"
    BY <1>2, PreparedAreFrames, Zenon
  <2>2. rep.frame \in PreparedSends
    BY <1>1, <2>1, ClientFrameKinds, Zenon
  <2> QED BY <1>1, <1>2, <2>2, DistinctSends, Zenon
<1>3. CASE g = FetchFrame(g.request_id)
  <2>1. g.request.command = "FETCH"
    BY <1>3, PollFrames
  <2>2. rep.frame = FetchFrame(rep.frame.request_id)
    BY <1>1, <2>1, ClientFrameKinds, Zenon
  <2> QED BY <1>1, <1>3, <2>2, Zenon
<1> QED BY <1>2, <1>3, Zenon

\* A reply of success is the recorded one.
LEMMA AnswerIsRecorded ==
  ASSUME RelayInv, ClientInv, NEW rep \in replies, NEW g \in Frames,
         rep.frame = g, rep.reply.status \in {"Accepted", "Duplicate", "Delivery"}
  PROVE  Recorded(g) /\ replays[KeyOf(g)].response = rep.reply
<1>1. IF OutOfRange(g.request)
      THEN rep.reply = Status("LimitOutOfRange")
      ELSE replays[KeyOf(g)] # None /\ rep.reply = Replayed(g)
  BY Zenon DEF ClientInv, RepliesTrue
<1>2. /\ Status("LimitOutOfRange").status = "LimitOutOfRange"
      /\ Status("AuthReplay").status = "AuthReplay"
  BY Zenon DEF Status
<1> QED BY <1>1, <1>2, Zenon DEF Recorded, Replayed

\* What send() returns is on record and stays there.
LEMMA CompletionStep ==
  ASSUME RelayInv, ClientInv, CompletionRecorded, [EndToEndNext]_allVars
  PROVE  CompletionRecorded'
<1> USE DEF ClientInv, ClientTypes
<1>1. ASSUME NEW f \in PreparedSends, Recorded(f)
      PROVE  Recorded(f)' /\ RecordedStatus(f)' = RecordedStatus(f)
  BY <1>1, PreparedAreFrames, RelayMoves, RecordStays, Zenon
     DEF RelayInv, Recorded, RecordedStatus
<1>2. CASE completed' = completed
  BY <1>1, <1>2, Zenon DEF CompletionRecorded
<1>3. CASE FinishSend
  <2>1. PICK rep \in Incoming(sending) :
          /\ Matches(rep.frame, sending)
          /\ completed' = [completed EXCEPT ![sending] =
               IF rep.reply.status \in {"Accepted", "Duplicate"}
               THEN rep.reply.status ELSE "Refused"]
    BY <1>3, Zenon DEF FinishSend
  <2>2. sending \in PreparedSends /\ sending \in Frames /\ rep \in replies
    BY <1>3, PreparedAreFrames, Zenon DEF FinishSend, Incoming
  <2>3. rep.frame = sending
    BY <2>1, <2>2, AnswerIsOwn, Zenon
  <2>4. rep.reply.status \in {"Accepted", "Duplicate"} =>
          Recorded(sending) /\ RecordedStatus(sending) = rep.reply.status
    BY <2>2, <2>3, AnswerIsRecorded, Zenon DEF RecordedStatus
  <2>5. ASSUME NEW f \in PreparedSends, completed'[f] \in {"Accepted", "Duplicate"}
        PROVE  Recorded(f) /\ RecordedStatus(f) = completed'[f]
    <3>1. CASE f = sending
      BY <2>1, <2>2, <2>4, <2>5, <3>1, Zenon
    <3>2. CASE f # sending
      BY <2>1, <2>2, <2>5, <3>2, Zenon DEF CompletionRecorded
    <3> QED BY <3>1, <3>2, Zenon
  <2> QED BY <1>1, <2>5, Zenon DEF CompletionRecorded
<1>4. CASE \/ \E f \in PreparedSends : StartSend(f)
           \/ AbandonSend \/ RecipientStep
  BY <1>2, <1>4, Zenon DEF StartSend, AbandonSend, RecipientStep, StartPoll,
        ReceiveFetch, CommitAndAck, ReceiveAck, AbandonPoll, senderVars
<1>5. CASE \/ \E t \in Threads, f \in Frames : Receive(t, f)
           \/ \E t \in Threads : RelayStep(t)
           \/ RelayFault \/ Time
           \/ \E f \in Frames : Duplicate(f)
           \/ UNCHANGED allVars
  BY <1>2, <1>5, Zenon DEF Receive, RelayStep, Run, Serve, RelayFault, Time, Duplicate,
                    allVars, senderVars
<1> QED BY <1>3, <1>4, <1>5, Zenon DEF EndToEndNext, SenderStep

\* The log and the completions are empty at the start.
LEMMA CompletionInit == EndToEndInit => Logged /\ CompletionRecorded
<1> SUFFICES ASSUME EndToEndInit PROVE Logged /\ CompletionRecorded
  BY Zenon
<1>1. \A f \in Frames : ~Recorded(f)
  BY KeyType, Zenon DEF EndToEndInit, Recorded
<1>2. Logged
  BY <1>1, Zenon DEF EndToEndInit, Logged
<1>3. CompletionRecorded
  BY EndToEndAssumption, Zenon DEF EndToEndInit, CompletionRecorded
<1> QED BY <1>2, <1>3, Zenon

\* So what is stored was accepted, and what send() returned is on record.
LEMMA CompletionAlways == EndToEndSpec => [](Logged /\ CompletionRecorded)
<1>1. RelayInv /\ ClientInv /\ Logged /\ CompletionRecorded
        /\ [EndToEndNext]_allVars => Logged' /\ CompletionRecorded'
  BY LoggedStep, CompletionStep, Zenon DEF RelayInv, ClientInv
<1> QED BY <1>1, CompletionInit, RelayAlways, ClientAlways, PTL DEF EndToEndSpec

\* If the clock is not set back, what send() told the application is true however
\* late and crossed responses are: Accepted, and the message is in the relay or in
\* the inbox until its TTL can have run out; Duplicate, and it was accepted before.
THEOREM CompletionsAreTrue ==
  ClockMayStepBack = FALSE => (EndToEndSpec => []CompletionIsTrue)
<1> SUFFICES ASSUME ClockMayStepBack = FALSE
             PROVE  EndToEndSpec => []CompletionIsTrue
  BY Zenon
<1>1. RelayInv /\ LossInv /\ [EndToEndNext]_allVars => LossInv'
  BY RelayMoves, LossStep, Zenon DEF RelayInv
<1>2. EndToEndSpec => []LossInv
  BY <1>1, RelayInit, RelayAlways, PTL DEF EndToEndSpec
<1>3. ASSUME RelayInv, ClientInv, LossInv, Logged, CompletionRecorded,
             NEW f \in PreparedSends
      PROVE  /\ completed[f] = "Accepted" /\ clock < f.request.ttl =>
                  Stored(f.request) \/ InInbox(f.request.message)
             /\ completed[f] = "Duplicate" => InLog(f.request.message)
  <2>1. f \in Frames /\ f.request.queue = Queue
    BY PreparedAreFrames, Zenon
  <2>2. ASSUME completed[f] = "Accepted", clock < f.request.ttl
        PROVE  Stored(f.request) \/ InInbox(f.request.message)
    <3>1. Recorded(f) /\ RecordedStatus(f) = "Accepted"
      BY <1>3, <2>2, Zenon DEF CompletionRecorded
    <3>2. Stored(f.request) \/ Released(f.request)
      BY <1>3, <2>1, <2>2, <3>1, Zenon
         DEF LossInv, NoSilentLoss, Recorded, RecordedStatus
    <3>3. ASSUME Released(f.request)
          PROVE  InInbox(f.request.message)
      <4>1. PICK g \in Frames :
              /\ applied[g] > 0
              /\ \/ g.request.command = "ACK"
                      /\ g.request.message = f.request.message
                 \/ g.request.command = "DELETE_QUEUE"
        BY <3>3, Zenon DEF Released
      <4> QED BY <1>3, <4>1, CommittedBeforeAck, Zenon DEF InInbox
    <3> QED BY <3>2, <3>3, Zenon
  <2>3. ASSUME completed[f] = "Duplicate"
        PROVE  InLog(f.request.message)
    BY <1>3, <2>1, <2>3, Zenon DEF CompletionRecorded, Logged
  <2> QED BY <2>2, <2>3, Zenon
<1>4. RelayInv /\ ClientInv /\ LossInv /\ Logged /\ CompletionRecorded
        => CompletionIsTrue
  BY <1>3, Zenon DEF CompletionIsTrue, InLog
<1> QED BY <1>2, <1>4, RelayAlways, ClientAlways, CompletionAlways, PTL
=============================================================================
