------------------------------- MODULE Permits -------------------------------
(***************************************************************************)
(* Admission control of the daemon: the connection permits of              *)
(* connection_limit.rs, the session permits of transport.rs and the        *)
(* command permits of RelayService::exchange and exchange_blob.            *)
(*                                                                         *)
(* A permit is an owned value: it returns to its semaphore when the last   *)
(* owner is dropped.  A connection permit is shared by the connection's    *)
(* service and by the WebSocket session it becomes.  A command permit      *)
(* belongs to the blocking task, which outlives the request that spawned   *)
(* it when a deadline or a disconnect drops the request.  The tasks meet   *)
(* at the mutex of the durable relay, which a panic poisons.               *)
(*                                                                         *)
(* Requests that are answered without taking a permit (health probe, wrong *)
(* media type, 503) change no state and are not actions.                   *)
(***************************************************************************)
EXTENDS Naturals, FiniteSets

CONSTANTS
  Conns,            \* identities of TCP connections, reused once closed
  Tasks,            \* identities of blocking tasks, reused once collected
  MaxConnections, MaxSessions, MaxCommands,
  Nobody

ASSUME PermitsAssumption ==
  /\ IsFiniteSet(Conns) /\ IsFiniteSet(Tasks)
  /\ MaxConnections \in Nat /\ MaxSessions \in Nat /\ MaxCommands \in Nat
  /\ Nobody \notin Conns

VARIABLES
  phase,        \* of a connection
  clones,       \* who holds the Arc of a connection's permit
  gone,         \* the client vanished without closing the connection
  task,         \* of a blocking task: where it is
  owner,        \* the connection whose handler awaits the task, if any
  poisoned,     \* the mutex of the durable relay
  connections, sessions, commands   \* permits left in the three semaphores

permitVars == <<phase, clones, gone, task, owner, poisoned,
          connections, sessions, commands>>

connVars == <<phase, clones, gone, connections, sessions>>
taskVars == <<task, owner, commands>>

Phases == {"closed", "handshake", "http", "upgrading", "session"}
Running == {"queued", "locked"}
Finished == {"done", "failed"}

PermitsInit ==
  /\ phase = [c \in Conns |-> "closed"]
  /\ clones = [c \in Conns |-> {}]
  /\ gone = [c \in Conns |-> FALSE]
  /\ task = [t \in Tasks |-> "none"]
  /\ owner = [t \in Tasks |-> Nobody]
  /\ poisoned = FALSE
  /\ connections = MaxConnections
  /\ sessions = MaxSessions
  /\ commands = MaxCommands

-----------------------------------------------------------------------------
(* Ownership.                                                              *)

To(c, p) == phase' = [phase EXCEPT ![c] = p]

\* The last clone of a connection permit gives the permit back.
Drop(c, holders) ==
  /\ clones' = [clones EXCEPT ![c] = @ \ holders]
  /\ connections' = IF clones[c] # {} /\ clones[c] \subseteq holders
                    THEN connections + 1 ELSE connections

\* The futures of a connection are dropped: its tasks run on with nobody
\* waiting for them, and results nobody collected are dropped.
Detach(c) ==
  /\ owner' = [t \in Tasks |-> IF owner[t] = c THEN Nobody ELSE owner[t]]
  /\ task' = [t \in Tasks |-> IF owner[t] = c /\ task[t] \in Finished
                              THEN "none" ELSE task[t]]
  /\ UNCHANGED commands

\* exchange(): try_acquire_owned() and spawn_blocking().
Spawn(c, t) ==
  /\ commands > 0
  /\ task[t] = "none"
  /\ commands' = commands - 1
  /\ task' = [task EXCEPT ![t] = "queued"]
  /\ owner' = [owner EXCEPT ![t] = c]

\* The closure of the task ends, returning or unwinding: its permit is
\* dropped and the result is there for whoever waits.
Finish(t, result) ==
  /\ task' = [task EXCEPT ![t] = IF owner[t] = Nobody THEN "none" ELSE result]
  /\ commands' = commands + 1
  /\ UNCHANGED <<owner, connVars>>

Collect(t) ==
  /\ task' = [task EXCEPT ![t] = "none"]
  /\ owner' = [owner EXCEPT ![t] = Nobody]
  /\ UNCHANGED commands

-----------------------------------------------------------------------------
(* Connections.                                                            *)

\* ConnectionLimit::accept runs before the TLS handshake.  With no permit left
\* the connection is refused and nothing changes.
Accept(c) ==
  /\ phase[c] = "closed" /\ connections > 0
  /\ To(c, "handshake")
  /\ clones' = [clones EXCEPT ![c] = {"service"}]
  /\ gone' = [gone EXCEPT ![c] = FALSE]
  /\ connections' = connections - 1
  /\ UNCHANGED <<sessions, poisoned, taskVars>>

Handshaken(c) ==
  /\ phase[c] = "handshake" /\ ~gone[c]
  /\ To(c, "http")
  /\ UNCHANGED <<clones, gone, connections, sessions, poisoned, taskVars>>

\* The connection ends: the handshake fails or times out, the client closes, an
\* error occurs, or the upgrade that was promised never comes about.
Close(c) ==
  /\ phase[c] \in {"handshake", "http", "upgrading"}
  /\ To(c, "closed")
  /\ Drop(c, {"service", "session"})
  /\ sessions' = IF phase[c] = "upgrading" THEN sessions + 1 ELSE sessions
  /\ Detach(c)
  /\ UNCHANGED <<gone, poisoned>>

\* The peer is lost; nothing tells the daemon.
Vanish(c) ==
  /\ phase[c] # "closed" /\ ~gone[c]
  /\ gone' = [gone EXCEPT ![c] = TRUE]
  /\ UNCHANGED <<phase, clones, connections, sessions, poisoned, taskVars>>

-----------------------------------------------------------------------------
(* HTTP requests.  HTTP/2 has several at a time on one connection.         *)

\* post_frame, post_blob_frame.
Post(c, t) ==
  /\ phase[c] = "http" /\ ~gone[c]
  /\ Spawn(c, t)
  /\ UNCHANGED <<poisoned, connVars>>

\* 200 with the response, or 503 for an error.
Respond(t) ==
  /\ task[t] \in Finished /\ owner[t] # Nobody /\ phase[owner[t]] = "http"
  /\ Collect(t)
  /\ UNCHANGED <<poisoned, connVars>>

\* The TimeoutLayer drops the handler's future.
RequestTimeoutReleasing(t) ==   \* variant: the request owns the permit
  /\ task[t] \in Running /\ owner[t] # Nobody /\ phase[owner[t]] = "http"
  /\ owner' = [owner EXCEPT ![t] = Nobody]
  /\ commands' = commands + 1
  /\ UNCHANGED <<task, poisoned, connVars>>
RequestTimeout(t) ==
  /\ task[t] \in Running /\ owner[t] # Nobody /\ phase[owner[t]] = "http"
  /\ owner' = [owner EXCEPT ![t] = Nobody]
  /\ UNCHANGED <<task, commands, poisoned, connVars>>

-----------------------------------------------------------------------------
(* WebSocket sessions.                                                     *)

Idle(c) == \A t \in Tasks : owner[t] # c

\* upgrade_websocket, upgrade_blob_websocket: a session permit and a clone of
\* the connection permit go into the on_upgrade callback.
UpgradeUncounted(c) ==   \* variant: the session gets no connection permit
  /\ phase[c] = "http" /\ ~gone[c] /\ Idle(c) /\ sessions > 0
  /\ To(c, "upgrading")
  /\ sessions' = sessions - 1
  /\ UNCHANGED <<clones, gone, connections, poisoned, taskVars>>
Upgrade(c) ==
  /\ phase[c] = "http" /\ ~gone[c] /\ Idle(c) /\ sessions > 0
  /\ To(c, "upgrading")
  /\ sessions' = sessions - 1
  /\ clones' = [clones EXCEPT ![c] = @ \cup {"session"}]
  /\ UNCHANGED <<gone, connections, poisoned, taskVars>>

\* The socket is handed to websocket_session; the HTTP service is dropped.
Upgraded(c) ==
  /\ phase[c] = "upgrading"
  /\ To(c, "session")
  /\ Drop(c, {"service"})
  /\ UNCHANGED <<gone, sessions, poisoned, taskVars>>

\* A binary frame arrives and is exchanged.
SessionFrame(c, t) ==
  /\ phase[c] = "session" /\ ~gone[c] /\ Idle(c)
  /\ Spawn(c, t)
  /\ UNCHANGED <<poisoned, connVars>>

\* The response is sent and the session waits for the next frame.
SessionReply(t) ==
  /\ task[t] = "done" /\ owner[t] # Nobody /\ phase[owner[t]] = "session"
  /\ Collect(t)
  /\ UNCHANGED <<poisoned, connVars>>

\* The loop of websocket_session breaks: while it waits for a frame (idle
\* deadline, Close, Text, end of stream, or a frame with no command permit
\* left), on a failed exchange, or when the response cannot be sent.  It is not
\* listening while it awaits an exchange.
SessionEndOnClose(c) ==   \* variant: no idle deadline
  /\ phase[c] = "session" /\ ~gone[c]
  /\ \A t \in Tasks : owner[t] = c => task[t] \in Finished
  /\ To(c, "closed")
  /\ Drop(c, {"session"})
  /\ sessions' = sessions + 1
  /\ Detach(c)
  /\ UNCHANGED <<gone, poisoned>>
SessionEnd(c) ==
  /\ phase[c] = "session"
  /\ \A t \in Tasks : owner[t] = c => task[t] \in Finished
  /\ To(c, "closed")
  /\ Drop(c, {"session"})
  /\ sessions' = sessions + 1
  /\ Detach(c)
  /\ UNCHANGED <<gone, poisoned>>

-----------------------------------------------------------------------------
(* Blocking tasks: exchange_at, exchange_blob_at.                          *)

MutexFree == \A t \in Tasks : task[t] # "locked"

\* Answered before the mutex: not decoded, not authenticated, not admitted.
Reject(t) ==
  /\ task[t] = "queued"
  /\ \E result \in Finished : Finish(t, result)
  /\ UNCHANGED poisoned

LockAnyway(t) ==   \* variant: PoisonError::into_inner
  /\ task[t] = "queued" /\ MutexFree
  /\ task' = [task EXCEPT ![t] = "locked"]
  /\ UNCHANGED <<owner, commands, poisoned, connVars>>
Lock(t) ==
  /\ task[t] = "queued" /\ MutexFree /\ ~poisoned
  /\ task' = [task EXCEPT ![t] = "locked"]
  /\ UNCHANGED <<owner, commands, poisoned, connVars>>

\* lock() reports the poisoned mutex: ExchangeError::Storage.
LockPoisonedRetry(t) ==   \* variant: tries again until it succeeds
  /\ task[t] = "queued" /\ MutexFree /\ poisoned
  /\ UNCHANGED permitVars
LockPoisoned(t) ==
  /\ task[t] = "queued" /\ MutexFree /\ poisoned
  /\ Finish(t, "failed")
  /\ UNCHANGED poisoned

\* The exchange returns a response or a storage error.
Unlock(t) ==
  /\ task[t] = "locked"
  /\ \E result \in Finished : Finish(t, result)
  /\ UNCHANGED poisoned

\* A panic under the mutex: the task unwinds and its awaiter gets
\* ExchangeError::Internal.
Panic(t) ==
  /\ task[t] = "locked"
  /\ Finish(t, "failed")
  /\ poisoned' = TRUE

-----------------------------------------------------------------------------

PermitsNext ==
  \/ \E c \in Conns : Accept(c)
  \/ \E c \in Conns : Handshaken(c)
  \/ \E c \in Conns : Close(c)
  \/ \E c \in Conns : Vanish(c)
  \/ \E c \in Conns, t \in Tasks : Post(c, t)
  \/ \E t \in Tasks : Respond(t)
  \/ \E t \in Tasks : RequestTimeout(t)
  \/ \E c \in Conns : Upgrade(c)
  \/ \E c \in Conns : Upgraded(c)
  \/ \E c \in Conns, t \in Tasks : SessionFrame(c, t)
  \/ \E t \in Tasks : SessionReply(t)
  \/ \E c \in Conns : SessionEnd(c)
  \/ \E t \in Tasks : Reject(t)
  \/ \E t \in Tasks : Lock(t)
  \/ \E t \in Tasks : LockPoisoned(t)
  \/ \E t \in Tasks : Unlock(t)
  \/ \E t \in Tasks : Panic(t)

PermitsSpec == PermitsInit /\ [][PermitsNext]_permitVars

\* The runtime polls what is ready and its timers fire (WF).  A thread that
\* waits for the mutex gets it eventually, though the mutex is not a queue: the
\* mutex is free again and again, and it has few competitors (SF).
FairPermits ==
  /\ PermitsSpec
  /\ \A c \in Conns : WF_permitVars(Upgraded(c)) /\ WF_permitVars(SessionEnd(c))
  /\ \A t \in Tasks : /\ WF_permitVars(Unlock(t) \/ Panic(t))
                      /\ SF_permitVars(Lock(t) \/ LockPoisoned(t))

-----------------------------------------------------------------------------
(* What admission control promises (docs/spec/09-transport-bindings.md).   *)

PermitsTypeOK ==
  /\ phase \in [Conns -> Phases]
  /\ clones \in [Conns -> SUBSET {"service", "session"}]
  /\ gone \in [Conns -> BOOLEAN]
  /\ task \in [Tasks -> {"none"} \cup Running \cup Finished]
  /\ owner \in [Tasks -> Conns \cup {Nobody}]
  /\ poisoned \in BOOLEAN
  /\ connections \in Nat /\ sessions \in Nat /\ commands \in Nat

Open == {c \in Conns : phase[c] # "closed"}
Sessions == {c \in Conns : phase[c] \in {"upgrading", "session"}}
Commands == {t \in Tasks : task[t] \in Running}

\* Every open connection costs one connection permit from before its handshake
\* until it is closed, through the upgrade that moves the socket from the HTTP
\* service to a session, and every session costs one session permit: neither
\* limit is exceeded, no permit is lost and none is returned twice.
ConnectionsCounted ==
  /\ connections + Cardinality(Open) = MaxConnections
  /\ sessions + Cardinality(Sessions) = MaxSessions

\* Every command that runs or waits for the mutex costs one command permit,
\* also when the request it came from has timed out or disconnected, and also
\* when it panics: at most MaxCommands blocking tasks exist at any time.
CommandsCounted ==
  commands + Cardinality(Commands) = MaxCommands

\* After a panic under the mutex no thread is ever at the database again: no
\* command runs on a connection that the panic left in an unknown state.
PoisonIsFinal ==
  [][poisoned => poisoned' /\ \A t \in Tasks : task'[t] # "locked"]_permitVars

\* The pool of command permits never stays empty, though requests time out and
\* sessions vanish while their commands wait, and though the mutex is poisoned.
OverloadEnds == commands = 0 ~> commands > 0

\* A session whose client vanished gives its permits back: the idle deadline
\* applies whenever the session is not inside an exchange, and every exchange
\* comes to its end.  The end of socket.send, which has no deadline of its own,
\* is assumed with it.
SessionReleased ==
  \A c \in Conns : gone[c] /\ c \in Sessions ~> c \notin Sessions
=============================================================================
