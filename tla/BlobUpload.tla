------------------------------ MODULE BlobUpload ------------------------------
(***************************************************************************)
(* The blob client's resumable upload, BlobUploader of                     *)
(* crates/cofferwire-client/src/blob.rs, composed with the blob relay.     *)
(*                                                                         *)
(* The uploader saves its state before it sends a frame and after it has   *)
(* the answer, and sends a frame it has no answer to again, byte for byte. *)
(* The network delivers a frame late or not at all.  The store keeps its   *)
(* documented contract: success means saved; a failure may leave either    *)
(* state behind.                                                           *)
(***************************************************************************)
EXTENDS BlobRelay

CONSTANTS
  Mine, MyCaps, MyManifest, MyTtl,   \* the PreparedBlob and its TTL
  MaxId,                             \* bound on fresh request identifiers
  MaxFaults                          \* bound on failures of store and network

VARIABLES
  stage,      \* UploadStage: 0 Begin, i Chunk(i), then Commit and Complete
  pending,    \* the frame without an answer, or None
  saved,      \* what the BlobUploadStore holds
  waiting,    \* inside transport.exchange()
  nextId,     \* RequestIdSource
  wire,       \* the frames the network may still deliver
  faults      \* failures so far

client == <<stage, pending, saved, waiting, nextId, wire, faults>>
uploadVars == <<vars, client>>

Commit == Len(Chunks[MyManifest]) + 1
Complete == Commit + 1

StageRequest(s) ==
  IF s = 0 THEN [command |-> "BEGIN_UPLOAD", upload |-> Mine, caps |-> MyCaps,
                 manifest |-> MyManifest, ttl |-> MyTtl]
  ELSE IF s = Commit THEN [command |-> "COMMIT", upload |-> Mine,
                           cap |-> MyCaps["upload"], blob |-> Identify[MyManifest]]
  ELSE [command |-> "PUT_CHUNK", upload |-> Mine, cap |-> MyCaps["upload"],
        index |-> s, ciphertext |-> Chunks[MyManifest][s]]

MyFrames ==
  {[request_id |-> id, request |-> StageRequest(s)] :
     id \in 1 .. MaxId, s \in 0 .. Commit}

ASSUME UploadAssumption ==
  /\ Mine \in UploadIds /\ MyCaps \in BlobCapabilities /\ MyManifest \in Manifests
  /\ MyTtl \in Nat \ {0} /\ MaxId \in Nat /\ MaxFaults \in Nat
  /\ MyFrames \subseteq BlobFrames
  /\ None \notin BlobFrames

UploadInit ==
  /\ Init
  /\ stage = 0
  /\ pending = None
  /\ saved = [stage |-> 0, pending |-> None]
  /\ waiting = FALSE
  /\ nextId = 1
  /\ wire = {}
  /\ faults = 0

Fault == faults < MaxFaults /\ faults' = faults + 1

\* The frame advance() sends: the pending one, or a new one for the stage.
NextFrame == IF pending # None THEN pending
             ELSE [request_id |-> nextId, request |-> StageRequest(stage)]

\* BlobUploadStore::commit
Store(state) == saved' = state
StoreFails(state) == saved' \in {saved, state}

\* The first half of advance(), up to transport.exchange().
StartUnsaved ==   \* variant: sends before it saves
  /\ ~waiting
  /\ stage # Complete
  /\ pending # None \/ nextId <= MaxId
  /\ nextId' = IF pending = None THEN nextId + 1 ELSE nextId
  /\ pending' = NextFrame
  /\ wire' = wire \cup {NextFrame}
  /\ waiting' = TRUE
  /\ UNCHANGED <<vars, stage, saved, faults>>
StartSilent ==   \* variant: a frame that was sent before is only waited for
  /\ ~waiting
  /\ stage # Complete
  /\ pending # None \/ nextId <= MaxId
  /\ nextId' = IF pending = None THEN nextId + 1 ELSE nextId
  /\ pending' = NextFrame
  /\ Store([stage |-> stage, pending |-> NextFrame])
  /\ wire' = IF pending = None THEN wire \cup {NextFrame} ELSE wire
  /\ waiting' = TRUE
  /\ UNCHANGED <<vars, stage, faults>>
StartAdvance ==
  LET state == [stage |-> stage, pending |-> NextFrame]
  IN  /\ ~waiting
      /\ stage # Complete
      /\ pending # None \/ nextId <= MaxId
      /\ nextId' = IF pending = None THEN nextId + 1 ELSE nextId
      /\ pending' = NextFrame
      /\ \/ /\ Store(state)
            /\ wire' = wire \cup {NextFrame}
            /\ waiting' = TRUE
            /\ UNCHANGED faults
         \/ /\ StoreFails(state)
            /\ Fault
            /\ UNCHANGED <<wire, waiting>>
      /\ UNCHANGED <<vars, stage>>

\* The response belongs to the pending frame and is a success.
Advances(t) ==
  /\ serving[t].frame.request_id = pending.request_id
  /\ serving[t].frame.request.command = pending.request.command
  /\ Succeeded(serving[t].reply)

\* The second half of advance(): the stage moves on once the store has it.
FinishSkipping(t) ==   \* variant: takes any answer for a success
  /\ waiting
  /\ serving[t] # None /\ serving[t].frame \in MyFrames
  /\ Respond(t)
  /\ stage' = stage + 1 /\ pending' = None
  /\ Store([stage |-> stage', pending |-> None])
  /\ waiting' = FALSE
  /\ UNCHANGED <<nextId, wire, faults>>
FinishPending(t) ==   \* variant: saves the next stage with the answered frame
  LET state == [stage |-> stage + 1, pending |-> pending]
  IN  /\ waiting
      /\ serving[t] # None /\ serving[t].frame \in MyFrames
      /\ Respond(t)
      /\ Advances(t)
      /\ Store(state)
      /\ stage' = state.stage /\ pending' = None
      /\ waiting' = FALSE
      /\ UNCHANGED <<nextId, wire, faults>>
FinishAdvance(t) ==
  LET state == [stage |-> stage + 1, pending |-> None]
  IN  /\ waiting
      /\ serving[t] # None /\ serving[t].frame \in MyFrames
      /\ Respond(t)
      /\ \/ /\ Advances(t)
            /\ \/ /\ Store(state)
                  /\ stage' = state.stage /\ pending' = None
                  /\ UNCHANGED faults
               \/ /\ StoreFails(state)
                  /\ Fault
                  /\ UNCHANGED <<stage, pending>>
         \/ /\ ~Advances(t)
            /\ UNCHANGED <<stage, pending, saved, faults>>
      /\ waiting' = FALSE
      /\ UNCHANGED <<nextId, wire>>

\* The exchange has failed or its answer was lost: nothing is left to wait for.
Lost ==
  /\ pending \notin wire
  /\ \A t \in Threads : serving[t] # None => serving[t].frame # pending

\* The transport gives up; before its deadline only when something is wrong, and
\* then the frame may still be on its way.
Abandon ==
  /\ waiting
  /\ waiting' = FALSE
  /\ Fault \/ (Lost /\ UNCHANGED faults)
  /\ UNCHANGED <<vars, stage, pending, saved, nextId, wire>>

\* What decode_upload_state accepts: a pending frame is the one that belongs to
\* the stage, and a completed upload has none.
Restorable(state) ==
  /\ state.stage \in 0 .. Complete
  /\ state.pending # None =>
       /\ state.stage # Complete
       /\ state.pending.request = StageRequest(state.stage)

\* The client process stops and restores its upload from the store.
Restore ==
  /\ Restorable(saved)
  /\ stage' = saved.stage /\ pending' = saved.pending
  /\ waiting' = FALSE
  /\ Fault
  /\ UNCHANGED <<vars, saved, nextId, wire>>

\* The network delivers a frame, perhaps one whose sender no longer waits.
Deliver(t, f) ==
  /\ Accept(t, f)
  /\ wire' = wire \ {f}
  /\ UNCHANGED <<stage, pending, saved, waiting, nextId, faults>>

UploadNext ==
  \/ StartAdvance
  \/ \E t \in Threads : FinishAdvance(t)
  \/ Abandon
  \/ Restore
  \/ \E t \in Threads, f \in wire : Deliver(t, f)
  \/ \E t \in Threads : Exchange(t) /\ UNCHANGED client
  \/ \E t \in Threads : (Respond(t) \/ Fail(t)) /\ UNCHANGED client
  \/ Tick /\ UNCHANGED client

UploadSpec == UploadInit /\ [][UploadNext]_uploadVars

-----------------------------------------------------------------------------
(* What an upload promises.                                                *)

\* The relay has done all that comes before a stage.
DoneBefore(s) ==
  /\ s > 0 => /\ uploads[Mine] # None
              /\ uploads[Mine].caps = MyCaps /\ uploads[Mine].manifest = MyManifest
  /\ \A i \in DOMAIN Chunks[MyManifest] :
       i < s => <<Mine, i, Chunks[MyManifest][i]>> \in staged
  /\ s = Complete => /\ grants[Mine] # None
                     /\ grants[Mine].blob = Identify[MyManifest]
                     /\ grants[Mine].expires_at >= MyTtl

\* The stages of advance(): neither the one in memory nor the one that a restart
\* would resume from is ahead of the relay's durable state, whatever was lost,
\* late, repeated or half saved; a completed upload has its grant.
StageIsTrue == DoneBefore(stage) /\ DoneBefore(saved.stage)

\* CW-BLOB-020: an upload can always be resumed.  Whatever a failing save left in
\* the store, restore() takes it: the frame there belongs to the stage there.
SavedIsRestorable == Restorable(saved)

OutOfTime(response) ==
  /\ ~Succeeded(response)
  /\ response.status \in {"Expired", "LimitOutOfRange"}

\* An uploader never stands in its own way: the relay refuses none of its
\* frames except for a lease that has run out or cannot be represented.  A retry
\* under a new identifier, with the expiry of a later relay time, would be
\* ID_CONFLICT, and a frame out of order NOT_FOUND or INCOMPLETE.
OwnUploadAccepted ==
  \A key \in ReplayKeys :
    /\ replays[key] # None
    /\ replays[key].request \in MyFrames
    => \/ Succeeded(replays[key].response)
       \/ OutOfTime(replays[key].response)

\* An uploader whose application keeps calling advance() completes its upload
\* unless the lease runs out, whatever was lost, late or half saved on the way: no
\* stage is left without a frame to send, and no answer of the relay to a retry
\* leaves advance() where it was for ever.
UploadCompletes ==
  <>(\/ stage = Complete
     \/ \E key \in ReplayKeys : /\ replays[key] # None
                                /\ replays[key].request \in MyFrames
                                /\ OutOfTime(replays[key].response))
=============================================================================
