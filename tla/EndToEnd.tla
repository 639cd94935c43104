------------------------------- MODULE EndToEnd -------------------------------
(***************************************************************************)
(* A sender and a recipient exchanging messages through the relay:         *)
(* Sender::send and Recipient::poll of crates/cofferwire-client/src/lib.rs *)
(* composed with DurableRelay over a transport that delays, repeats and    *)
(* loses frames in both directions.                                        *)
(*                                                                         *)
(* The sender's outbox and the recipient's InboxStore belong to the        *)
(* application; they are what the Transport, RequestIdSource and           *)
(* InboxStore contracts in that file say.                                  *)
(***************************************************************************)
EXTENDS DurableRelay, Sequences

CONSTANTS
  Queue,          \* the device queue both clients are bound to
  Config,         \* its configuration
  Sealed,         \* the payloads that are ciphertexts the recipient can open
  MaxFaults,      \* bound: failures, crashes, timeouts, duplicated frames
  MaxVainPolls    \* bound: polls that find nothing to acknowledge

ASSUME EndToEndAssumption ==
  /\ Queue \in QueueIds /\ Config \in Configs
  /\ {MaxFaults, MaxVainPolls} \subseteq Nat
  /\ RequestIds \subseteq Nat
  /\ None \notin {"Accepted", "Duplicate", "Refused"}

VARIABLES
  wire,        \* copies of each request frame still in the network
  replies,     \* response frames the relay has sent, with the frame they answer
  sending,     \* the PreparedSend a send() call is waiting on, or None
  completed,   \* what send() returned for each PreparedSend, or None
  polling,     \* where the poll() call is
  awaited,     \* the frame poll() is waiting on, or None
  delivery,    \* the delivery poll() has opened, or None
  nextId,      \* the recipient's RequestIdSource
  inbox,       \* the message identifiers in the InboxStore, in commit order
  log,         \* history: identifiers in the order of their acceptance
  faults, vain \* how much of the bounds is used up

senderVars == <<sending, completed>>
recipientVars == <<polling, awaited, delivery, nextId, inbox, vain>>
network == <<wire, replies>>
allVars == <<vars, senderVars, recipientVars, network, log, faults>>

\* The frames an outbox may hold: prepare() built them and restore() accepts
\* them again after a restart, SENDs of this sender on this queue.
PreparedSends ==
  {f \in Frames : /\ f.request.command = "SEND"
                  /\ f.request.queue = Queue
                  /\ f.request.sender = Config.sender}

\* The sender's RequestIdSource does not repeat an identifier.
ASSUME DistinctSends ==
  \A f, g \in PreparedSends : f.request_id = g.request_id => f = g

FetchFrame(id) ==
  [request_id |-> id, request |-> [command |-> "FETCH", queue |-> Queue,
                                   recipient |-> Config.recipient]]
AckFrame(id, message) ==
  [request_id |-> id, request |-> [command |-> "ACK", queue |-> Queue,
                                   recipient |-> Config.recipient,
                                   message |-> message]]

\* The queue exists; nothing has been sent.
EndToEndInit ==
  /\ queues = [id \in QueueIds |-> IF id = Queue THEN Config ELSE None]
  /\ messages = {}
  /\ replays = [key \in ReplayKeys |-> None]
  /\ clock = 0
  /\ pc = [t \in Threads |-> "idle"]
  /\ frame = [t \in Threads |-> None]
  /\ now = [t \in Threads |-> 0]
  /\ response = [t \in Threads |-> None]
  /\ applied = [f \in Frames |-> 0]
  /\ wire = [f \in Frames |-> 0]
  /\ replies = {}
  /\ sending = None
  /\ completed = [f \in PreparedSends |-> None]
  /\ polling = "idle" /\ awaited = None /\ delivery = None
  /\ nextId = 1 /\ inbox = <<>> /\ log = <<>>
  /\ faults = 0 /\ vain = 0

Fault == faults < MaxFaults /\ faults' = faults + 1

\* Transport::exchange puts the frame on the network.
Emit(f) == wire' = [wire EXCEPT ![f] = IF @ = 0 THEN 1 ELSE @]

\* checked_response: a response is taken for the answer to a request when the
\* identifier and the command agree.
MatchesAny(f, g) == TRUE   \* variant: takes any response
Matches(f, g) == /\ f.request_id = g.request_id
                 /\ f.request.command = g.request.command

\* A response the network hands to the client that signed g.
Incoming(g) ==
  {rep \in replies :
     RequestPrincipal(rep.frame.request) = RequestPrincipal(g.request)}

\* No answer to f can reach the client any more.
Lost(f) ==
  /\ wire[f] = 0
  /\ \A t \in Threads : frame[t] # f
  /\ \A rep \in replies : rep.frame # f

-----------------------------------------------------------------------------
(* Sender::send                                                            *)

\* The first attempt, or a retry of the same bytes.  A retry of what the relay
\* has answered (the application restarted before it noted the answer, or hopes
\* for another one) counts against the bound on faults.
StartSend(f) ==
  /\ sending = None
  /\ \/ completed[f] = None /\ UNCHANGED faults
     \/ completed[f] # None /\ Fault
  /\ sending' = f
  /\ Emit(f)
  /\ UNCHANGED <<vars, replies, completed, recipientVars, log>>

FinishSend ==
  /\ sending # None
  /\ \E rep \in Incoming(sending) :
       /\ Matches(rep.frame, sending)
       /\ completed' = [completed EXCEPT ![sending] =
            IF rep.reply.status \in {"Accepted", "Duplicate"}
            THEN rep.reply.status ELSE "Refused"]
  /\ sending' = None
  /\ UNCHANGED <<vars, network, recipientVars, log, faults>>

\* A transport error, a timeout, a response to something else, or a crash of
\* the sender: the PreparedSend is as it was.
AbandonSend ==
  /\ sending # None
  /\ \/ Lost(sending) /\ UNCHANGED faults
     \/ ~Lost(sending) /\ Fault
  /\ sending' = None
  /\ UNCHANGED <<vars, network, completed, recipientVars, log>>

-----------------------------------------------------------------------------
(* Recipient::poll: FETCH, open, commit, ACK.                              *)

\* The queue's first unexpired message can be opened.
Openable ==
  \E m \in First(Live(Queue, clock)) : m.payload \in Sealed

\* poll() ends; the next call starts from nothing.
EndPoll == /\ polling' = "idle" /\ awaited' = None /\ delivery' = None
EndInVain ==
  EndPoll /\ vain' = IF vain < MaxVainPolls THEN vain + 1 ELSE vain

StartPoll ==
  /\ polling = "idle"
  /\ FetchFrame(nextId) \in Frames
  /\ vain < MaxVainPolls \/ Openable
  /\ polling' = "fetching"
  /\ awaited' = FetchFrame(nextId)
  /\ nextId' = nextId + 1
  /\ Emit(FetchFrame(nextId))
  /\ UNCHANGED <<vars, replies, senderVars, delivery, inbox, vain, log, faults>>

\* The answer to the FETCH: nothing, an error, a payload that cannot be opened
\* (each ends the poll), or a message.
ReceiveFetch ==
  /\ polling = "fetching"
  /\ \E rep \in Incoming(awaited) :
       /\ Matches(rep.frame, awaited)
       /\ \/ /\ rep.reply.status # "Delivery"
             /\ EndInVain
          \/ /\ rep.reply.status = "Delivery"
             /\ rep.reply.delivery.payload \notin Sealed
             /\ EndInVain
          \/ /\ rep.reply.status = "Delivery"
             /\ rep.reply.delivery.payload \in Sealed
             /\ polling' = "opened"
             /\ delivery' = rep.reply.delivery
             /\ awaited' = None
             /\ UNCHANGED vain
  /\ UNCHANGED <<vars, network, senderVars, nextId, inbox, log, faults>>

\* InboxStore::commit: durable, and applied once for each message identifier.
InboxCommit(id) ==
  inbox' = IF \E i \in DOMAIN inbox : inbox[i] = id
           THEN inbox ELSE Append(inbox, id)

AckUncommitted ==   \* variant: acknowledges before the commit
  /\ polling = "opened"
  /\ AckFrame(nextId, delivery.id) \in Frames
  /\ polling' = "acking"
  /\ awaited' = AckFrame(nextId, delivery.id)
  /\ nextId' = nextId + 1
  /\ Emit(AckFrame(nextId, delivery.id))
  /\ UNCHANGED <<vars, replies, senderVars, delivery, inbox, vain, log, faults>>

\* Commit, then emit the ACK.
CommitAndAck ==
  /\ polling = "opened"
  /\ AckFrame(nextId, delivery.id) \in Frames
  /\ InboxCommit(delivery.id)
  /\ polling' = "acking"
  /\ awaited' = AckFrame(nextId, delivery.id)
  /\ nextId' = nextId + 1
  /\ Emit(AckFrame(nextId, delivery.id))
  /\ UNCHANGED <<vars, replies, senderVars, delivery, vain, log, faults>>

\* Whatever the relay answers, poll() is over.
ReceiveAck ==
  /\ polling = "acking"
  /\ \E rep \in Incoming(awaited) : Matches(rep.frame, awaited)
  /\ EndPoll
  /\ UNCHANGED <<vars, network, senderVars, nextId, inbox, vain, log, faults>>

HopelessPoll == awaited # None /\ Lost(awaited)

\* A transport error, a timeout, a response to something else, a store error
\* or a crash of the recipient: only the inbox survives.
AbandonPoll ==
  /\ polling # "idle"
  /\ \/ HopelessPoll /\ UNCHANGED faults
     \/ ~HopelessPoll /\ Fault
  /\ EndPoll
  /\ UNCHANGED <<vars, network, senderVars, nextId, inbox, vain, log>>

-----------------------------------------------------------------------------
(* The relay, served by the network.                                       *)

Receive(t, f) ==
  /\ wire[f] > 0
  /\ Accept(t, f)
  /\ wire' = [wire EXCEPT ![f] = @ - 1]
  /\ UNCHANGED <<replies, senderVars, recipientVars, log, faults>>

\* The log notes what is accepted; a message that expired or was acknowledged
\* may be accepted again.
Run(t) ==
  /\ Effect(t)
  /\ log' = IF response'[t].status = "Accepted"
            THEN Append(log, frame[t].request.message) ELSE log
  /\ UNCHANGED <<network, senderVars, recipientVars, faults>>

\* The rest of exchange_at; its last step hands the reply to the network.
Serve(t) ==
  /\ Passage(t)
  /\ replies' = IF pc[t] = "respond"
                THEN replies \cup {[frame |-> frame[t], reply |-> response[t]]}
                ELSE replies
  /\ UNCHANGED <<wire, senderVars, recipientVars, log, faults>>

RelayFault ==
  /\ (\E t \in Threads : Fail(t)) \/ (\E c \in Connections : Crash(c))
  /\ Fault
  /\ UNCHANGED <<network, senderVars, recipientVars, log>>

\* The network repeats a frame; the copies arrive whenever they arrive.
Duplicate(f) ==
  /\ wire[f] = 1
  /\ wire' = [wire EXCEPT ![f] = 2]
  /\ Fault
  /\ UNCHANGED <<vars, replies, senderVars, recipientVars, log>>

Time == Tick /\ UNCHANGED <<network, senderVars, recipientVars, log, faults>>

SenderStep ==
  \/ \E f \in PreparedSends : StartSend(f)
  \/ FinishSend
  \/ AbandonSend
RecipientStep ==
  \/ StartPoll
  \/ ReceiveFetch
  \/ CommitAndAck
  \/ ReceiveAck
  \/ AbandonPoll
RelayStep(t) == Run(t) \/ Serve(t)

EndToEndNext ==
  \/ SenderStep
  \/ RecipientStep
  \/ \E t \in Threads, f \in Frames : Receive(t, f)
  \/ \E t \in Threads : RelayStep(t)
  \/ RelayFault
  \/ \E f \in Frames : Duplicate(f)
  \/ Time

EndToEndSpec == EndToEndInit /\ [][EndToEndNext]_allVars

-----------------------------------------------------------------------------
(* What sender and recipient may rely on.                                  *)

InInbox(id) == \E i \in DOMAIN inbox : inbox[i] = id

\* A message the relay was told to forget is in the recipient's durable inbox:
\* an ACK takes effect only after the commit, across crashes of the recipient,
\* late frames and redeliveries.
AckedIsCommitted ==
  \A f \in Frames :
    f.request.command = "ACK" /\ applied[f] > 0 => InInbox(f.request.message)

\* What send() told the application is true: Accepted means the message is in
\* the relay or in the inbox until its TTL can have run out, and Duplicate that
\* the message was accepted before; also when responses are late and crossed.
CompletionIsTrue ==
  \A f \in PreparedSends :
    /\ completed[f] = "Accepted" /\ clock < f.request.ttl =>
         Stored(f.request) \/ InInbox(f.request.message)
    /\ completed[f] = "Duplicate" =>
         \E i \in DOMAIN log : log[i] = f.request.message

\* The recipient applies messages in the order in which the relay accepted
\* them, whatever is lost, repeated, redelivered, expired or sent anew: the inbox
\* is a subsequence of the log.
AppliedInOrder ==
  \E place \in [DOMAIN inbox -> DOMAIN log] :
    /\ \A i \in DOMAIN inbox : log[place[i]] = inbox[i]
    /\ \A i, j \in DOMAIN inbox : i < j => place[i] < place[j]

\* A message waits in the queue, unexpired.
Waiting(id) ==
  \E m \in Live(Queue, clock) : m.id = id

\* A payload the recipient cannot open is stored: poll() reports the error and
\* never acknowledges it, so what is behind it has to wait for its expiry.
Blocked == \E m \in Live(Queue, clock) : m.payload \notin Sealed

\* Network, relay and recipient keep going; the recipient keeps polling.
FairEndToEnd ==
  /\ EndToEndSpec
  /\ WF_allVars(RecipientStep)
  /\ \A t \in Threads :
       WF_allVars(RelayStep(t) \/ \E f \in Frames : Receive(t, f))

\* Once the faults stop, an unexpired message that the recipient can open gets
\* into the inbox (or expires first): lost FETCH and ACK replies only cause
\* redelivery.
EventuallyApplied ==
  \A id \in MessageIds :
    Waiting(id) ~> InInbox(id) \/ ~Waiting(id) \/ Blocked
=============================================================================
