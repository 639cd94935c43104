--------------------------- MODULE RelayRefinement ---------------------------
(***************************************************************************)
(* DurableRelay implements Relay: for the same authenticated commands the  *)
(* SQLite relay gives the results of the in-memory reference.              *)
(*                                                                         *)
(* The two keep expired messages differently.  The reference drops them    *)
(* whenever an authorized command looks at the queue; the SQLite relay     *)
(* drops them in the same place but takes the deletion back when the       *)
(* command is refused.  The history variable `cleaned' records the time    *)
(* of the last such look, and the refinement mapping leaves out the rows   *)
(* that had expired by then.                                               *)
(***************************************************************************)
EXTENDS DurableRelay, Sequences

\* A message as the reference stores it.
QueuedMessage == [id : MessageIds, payload : Payloads, expires_at : Timestamps,
                  delivered : BOOLEAN]

\* An absent queue of the reference is not a queue.
ASSUME RefinementAssumption ==
  None \notin [config : Configs, messages : Seq(QueuedMessage)]

VARIABLES
  cleaned,   \* history: the latest time at which each queue was cleaned
  reply      \* history: the last command run, its time and its result

refinementVars == <<vars, cleaned, reply>>

\* The command of thread t got past authorization to discard_expired.
Cleans(t) ==
  /\ frame[t].request.command \in {"SEND", "FETCH", "ACK"}
  /\ response'[t].status \notin {"QueueNotFound", "Unauthorized"}

Observe(t) ==
  LET r == frame[t].request
  IN  /\ reply' = [request |-> r, now |-> now[t], result |-> response'[t]]
      /\ cleaned' = IF Cleans(t) /\ cleaned[r.queue] < now[t]
                    THEN [cleaned EXCEPT ![r.queue] = now[t]]
                    ELSE cleaned

RefinementInit ==
  /\ Init
  /\ cleaned = [id \in QueueIds |-> 0]
  /\ reply = None

\* A thread that ends its exchange has returned the reply.
Returned ==
  /\ reply' = IF \E t \in Threads : pc[t] # "idle" /\ pc'[t] = "idle"
              THEN None ELSE reply
  /\ UNCHANGED cleaned

RefinementNext ==
  \/ \E t \in Threads : Effect(t) /\ Observe(t)
  \/ (\E t \in Threads : Passage(t)) /\ Returned
  \/ Environment /\ Returned

RefinementSpec == RefinementInit /\ [][RefinementNext]_refinementVars

\* Rows in the order of their row identifiers, as the reference stores them.
MessageOf(m) == [id |-> m.id, payload |-> m.payload,
                 expires_at |-> m.expires_at, delivered |-> m.delivered]
BySequence(rows) ==
  LET order == Ascending({m.sequence : m \in rows})
      row(i) == CHOOSE m \in rows : m.sequence = order[i]
  IN  [i \in DOMAIN order |-> MessageOf(row(i))]

\* The rows of a queue that the reference has kept.
Kept(id) == {m \in RowsOf(id) : m.expires_at > cleaned[id]}

ReferenceQueues ==
  [id \in QueueIds |->
     IF queues[id] = None THEN None
     ELSE [config |-> queues[id], messages |-> BySequence(Kept(id))]]

Reference == INSTANCE Relay
  WITH queues <- ReferenceQueues, Requests <- {f.request : f \in Frames}

\* Every committed or refused command of the SQLite relay is a step of the
\* in-memory reference with the same result, and nothing else it does
\* (replays, lost races, failures, crashes, restarts) shows in the reference's
\* queues: capacity, expiry, delivery order and idempotency agree.
ImplementsReference == Reference!Spec
=============================================================================
