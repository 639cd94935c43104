------------------------------- MODULE BlobRelay -------------------------------
(***************************************************************************)
(* The SQLite blob relay and the daemon threads that drive it:             *)
(* crates/cofferwire-relay/src/durable_blob.rs (tables and commands) and   *)
(* RelayService::exchange_blob_at of apps/cofferwired/src/lib.rs.          *)
(*                                                                         *)
(* A thread samples the relay time, then waits for the daemon's mutex and  *)
(* keeps it until it has looked the request identifier up, run the command *)
(* and recorded the response.  With one daemon on the file the exchange is *)
(* therefore one action; the race of two daemons through the same replay   *)
(* code is the subject of DurableRelay.                                    *)
(*                                                                         *)
(* SHA-256 is taken as free of collisions: a manifest lists the digests of *)
(* exactly the ciphertexts Chunks[manifest], and a ciphertext of another   *)
(* length is another ciphertext.  Chunk indices start at 1.                *)
(***************************************************************************)
EXTENDS Naturals, Sequences, FiniteSets

CONSTANTS
  UploadIds, CapabilityIds, RequestIds, BlobIds, Manifests, Ciphertexts,
  Chunks,         \* the ciphertexts a manifest lists, in index order
  Identify,       \* identify(): the blob identifier of a manifest
  BlobFrames,     \* the authenticated frames that may reach the relay
  Threads,        \* blocking threads of the daemon
  MaxTimestamp,   \* u64::MAX
  ClockMayStepBack,   \* whether the system clock may be set back
  None

Timestamps == 0 .. MaxTimestamp
Roles == {"upload", "download", "renew", "delete"}
GrantRoles == Roles \ {"upload"}
BlobCapabilities == [Roles -> CapabilityIds]

\* BlobRequest::capability
CapabilityOf(r) == IF r.command = "BEGIN_UPLOAD" THEN r.caps["upload"] ELSE r.cap

BlobRequest ==
  [command : {"BEGIN_UPLOAD"}, upload : UploadIds, caps : BlobCapabilities,
   manifest : Manifests, ttl : Nat]
  \cup [command : {"PUT_CHUNK"}, upload : UploadIds, cap : CapabilityIds,
        index : Nat, ciphertext : Ciphertexts]
  \cup [command : {"COMMIT"}, upload : UploadIds, cap : CapabilityIds,
        blob : BlobIds]
  \cup [command : {"GET_MANIFEST", "DELETE"}, blob : BlobIds, cap : CapabilityIds]
  \cup [command : {"GET_CHUNK"}, blob : BlobIds, cap : CapabilityIds, index : Nat]
  \cup [command : {"RENEW"}, blob : BlobIds, cap : CapabilityIds, ttl : Nat]

BlobErrors == {"NotFound", "Unauthorized", "IdConflict", "LimitOutOfRange",
               "ChunkConflict", "Incomplete", "IdentityMismatch", "Expired"}

\* The parts of a response that the properties tell apart.
Reply ==
  [status : BlobErrors \cup {"AuthReplay", "Stored", "Duplicate", "Committed",
                             "Manifest", "Chunk", "Renewed", "Deleted"},
   expires_at : Timestamps, content : Manifests \cup Ciphertexts \cup {None}]
Status(status) == [status |-> status, expires_at |-> 0, content |-> None]
Leased(status, expiry, content) ==
  [status |-> status, expires_at |-> expiry, content |-> content]
Succeeded(reply) == reply.status \notin BlobErrors \cup {"AuthReplay"}

ReplayRecord == [request : BlobFrames, response : Reply]

ASSUME BlobAssumption ==
  /\ MaxTimestamp \in Nat /\ ClockMayStepBack \in BOOLEAN
  /\ Chunks \in [Manifests -> Seq(Ciphertexts)]
  /\ Identify \in [Manifests -> BlobIds]
  /\ \A m, n \in Manifests : Identify[m] = Identify[n] => m = n
  /\ \A f \in BlobFrames : f.request_id \in RequestIds /\ f.request \in BlobRequest
  /\ None \notin BlobIds \cup Manifests \cup ReplayRecord

VARIABLES
  uploads,    \* table blob_uploads
  staged,     \* table blob_upload_chunks: rows <<upload, index, ciphertext>>
  objects,    \* table blob_objects: blob identifier -> manifest or None
  chunks,     \* table blob_chunks: rows <<blob, index, ciphertext>>
  grants,     \* table blob_grants; a grant's identifier is its upload's
  replays,    \* table blob_replays: (capability, request id) -> record or None
  clock,
  serving     \* what each thread is serving, since when, and its reply

tables == <<uploads, staged, objects, chunks, grants>>
vars == <<uploads, staged, objects, chunks, grants, replays, clock, serving>>

Upload ==
  [caps : BlobCapabilities, manifest : Manifests, expires_at : Timestamps,
   committed : BlobIds \cup {None}]
Grant ==
  [blob : BlobIds, caps : [GrantRoles -> CapabilityIds],
   expires_at : Timestamps, deleted : BOOLEAN]
Serving ==
  [frame : BlobFrames, now : Timestamps, reply : Reply \cup {None}]

ASSUME NoneAssumption == None \notin Upload \cup Grant

ReplayKeys == CapabilityIds \X RequestIds
KeyOf(f) == <<CapabilityOf(f.request), f.request_id>>

BlobTypeOK ==
  /\ uploads \in [UploadIds -> Upload \cup {None}]
  /\ staged \subseteq UploadIds \X Nat \X Ciphertexts
  /\ objects \in [BlobIds -> Manifests \cup {None}]
  /\ chunks \subseteq BlobIds \X Nat \X Ciphertexts
  /\ grants \in [UploadIds -> Grant \cup {None}]
  /\ replays \in [ReplayKeys -> ReplayRecord \cup {None}]
  /\ clock \in Timestamps
  /\ serving \in [Threads -> Serving \cup {None}]

Init ==
  /\ uploads = [u \in UploadIds |-> None]
  /\ staged = {}
  /\ objects = [b \in BlobIds |-> None]
  /\ chunks = {}
  /\ grants = [u \in UploadIds |-> None]
  /\ replays = [key \in ReplayKeys |-> None]
  /\ clock = 0
  /\ serving = [t \in Threads |-> None]

-----------------------------------------------------------------------------
(* The errors a command ends with, in the order of the code's early        *)
(* returns.                                                                *)

\* checked_add of the relay time and a TTL that is not zero.
TtlUnchecked(r, at) ==   \* variant: unchecked addition
  IF r.ttl > 0 THEN {} ELSE {"LimitOutOfRange"}
TtlRefusal(r, at) ==
  IF r.ttl > 0 /\ at + r.ttl <= MaxTimestamp THEN {} ELSE {"LimitOutOfRange"}

BeginRefusal(r, at) ==
  LET old == uploads[r.upload]
  IN  IF TtlRefusal(r, at) # {} THEN TtlRefusal(r, at)
      ELSE IF old = None THEN {}
      ELSE IF /\ old.caps = r.caps /\ old.manifest = r.manifest
              /\ old.expires_at = at + r.ttl THEN {}
      ELSE {"IdConflict"}

UploadRefusal(r, at) ==
  LET upload == uploads[r.upload]
  IN  IF upload = None THEN {"NotFound"}
      ELSE IF upload.caps["upload"] # r.cap THEN {"Unauthorized"}
      ELSE IF at >= upload.expires_at THEN {"Expired"}
      ELSE {}

PutRefusal(r, at) ==
  LET listed == Chunks[uploads[r.upload].manifest]
  IN  IF UploadRefusal(r, at) # {} THEN UploadRefusal(r, at)
      ELSE IF r.index \notin DOMAIN listed THEN {"LimitOutOfRange"}
      ELSE IF \/ listed[r.index] # r.ciphertext
              \/ \E c \in Ciphertexts \ {r.ciphertext} :
                   <<r.upload, r.index, c>> \in staged
        THEN {"ChunkConflict"}
      ELSE {}

\* What the first chunk that is not staged as the manifest lists it ends
\* COMMIT with.
StagingFault(u, manifest) ==
  LET listed == Chunks[manifest]
      bad == {i \in DOMAIN listed : <<u, i, listed[i]>> \notin staged}
  IN  {IF \E c \in Ciphertexts : <<u, i, c>> \in staged
       THEN "ChunkConflict" ELSE "Incomplete" :
         i \in {j \in bad : \A k \in bad : j <= k}}

CommitRefusalUnstaged(r, at) ==   \* variant: publishes without a look at the chunks
  LET upload == uploads[r.upload]
  IN  IF UploadRefusal(r, at) # {} THEN UploadRefusal(r, at)
      ELSE IF upload.committed # None THEN
        IF upload.committed = r.blob THEN {} ELSE {"IdConflict"}
      ELSE IF Identify[upload.manifest] # r.blob THEN {"IdentityMismatch"}
      ELSE {}
CommitRefusal(r, at) ==
  LET upload == uploads[r.upload]
      count == Cardinality({row \in staged : row[1] = r.upload})
  IN  IF UploadRefusal(r, at) # {} THEN UploadRefusal(r, at)
      ELSE IF upload.committed # None THEN
        IF upload.committed = r.blob THEN {} ELSE {"IdConflict"}
      ELSE IF Identify[upload.manifest] # r.blob THEN {"IdentityMismatch"}
      ELSE IF count # Len(Chunks[upload.manifest]) THEN {"Incomplete"}
      ELSE IF StagingFault(r.upload, upload.manifest) # {}
        THEN StagingFault(r.upload, upload.manifest)
      ELSE IF objects[r.blob] \notin {None, upload.manifest} THEN {"IdConflict"}
      ELSE {}

\* authorize_grant: the grants of the blob with this capability in this role.
\* The query takes one of them, in an order SQL leaves open.
Matching(r, role) ==
  {g \in UploadIds : /\ grants[g] # None
                     /\ grants[g].blob = r.blob
                     /\ grants[g].caps[role] = r.cap}
LiveAt(g, at) == ~grants[g].deleted /\ at < grants[g].expires_at

GrantRefusal(r, role, at) ==
  IF Matching(r, role) # {} THEN
    {IF grants[g].deleted THEN "NotFound" ELSE "Expired" :
       g \in {h \in Matching(r, role) : ~LiveAt(h, at)}}
  ELSE IF \E g \in UploadIds : grants[g] # None /\ grants[g].blob = r.blob
    THEN {"Unauthorized"}
  ELSE {"NotFound"}

\* What a stored object is checked against before it is served.
ObjectRefusal(r) ==
  LET listed == Chunks[objects[r.blob]]
  IN  IF r.command = "GET_MANIFEST" THEN
        IF Identify[objects[r.blob]] = r.blob THEN {} ELSE {"IdentityMismatch"}
      ELSE IF r.index \notin DOMAIN listed THEN {"LimitOutOfRange"}
      ELSE IF <<r.blob, r.index, listed[r.index]>> \in chunks THEN {}
      ELSE IF \E c \in Ciphertexts : <<r.blob, r.index, c>> \in chunks
        THEN {"ChunkConflict"}
      ELSE {"NotFound"}

-----------------------------------------------------------------------------
(* The exchange.                                                           *)

\* exchange_blob: the frame decodes, authenticates and is admitted; the relay
\* time is sampled before the thread waits for the mutex.
Accept(t, f) ==
  /\ serving[t] = None
  /\ serving' = [serving EXCEPT ![t] =
                   [frame |-> f, now |-> clock, reply |-> None]]
  /\ UNCHANGED <<tables, replays, clock>>

Answer(t, reply) == serving' = [serving EXCEPT ![t].reply = reply]

\* The identifier is on record: answer from there.
Replay(t) ==
  /\ serving[t] # None
  /\ serving[t].reply = None
  /\ LET f == serving[t].frame
         record == replays[KeyOf(f)]
     IN  /\ record # None
         /\ Answer(t, IF record.request = f
                      THEN record.response ELSE Status("AuthReplay"))
  /\ UNCHANGED <<tables, replays, clock>>

\* The thread has the mutex and finds no record for its frame.
Executes(t, commands) ==
  /\ serving[t] # None
  /\ serving[t].reply = None
  /\ replays[KeyOf(serving[t].frame)] = None
  /\ serving[t].frame.request.command \in commands

\* The response is recorded in the transaction that has the effect.
Record(t, reply) ==
  LET f == serving[t].frame
  IN  /\ replays' = [replays EXCEPT ![KeyOf(f)] =
                       [request |-> f, response |-> reply]]
      /\ Answer(t, reply)
      /\ UNCHANGED clock

\* A refused command rolls back and only its response is recorded.
Reject(t, errors) ==
  /\ \E error \in errors : Record(t, Status(error))
  /\ UNCHANGED tables

BeginUpload(t) ==
  LET r == serving[t].frame.request
      at == serving[t].now
      new == [caps |-> r.caps, manifest |-> r.manifest,
              expires_at |-> at + r.ttl, committed |-> None]
  IN  /\ Executes(t, {"BEGIN_UPLOAD"})
      /\ \/ Reject(t, BeginRefusal(r, at))
         \/ /\ BeginRefusal(r, at) = {}
            /\ \/ /\ uploads[r.upload] = None
                  /\ Record(t, Status("Stored"))
                  /\ uploads' = [uploads EXCEPT ![r.upload] = new]
               \/ /\ uploads[r.upload] # None
                  /\ Record(t, Status("Duplicate"))
                  /\ UNCHANGED uploads
            /\ UNCHANGED <<staged, objects, chunks, grants>>

PutChunk(t) ==
  LET r == serving[t].frame.request
      at == serving[t].now
      row == <<r.upload, r.index, r.ciphertext>>
  IN  /\ Executes(t, {"PUT_CHUNK"})
      /\ \/ Reject(t, PutRefusal(r, at))
         \/ /\ PutRefusal(r, at) = {}
            /\ Record(t, Status(IF row \in staged THEN "Duplicate" ELSE "Stored"))
            /\ staged' = staged \cup {row}
            /\ UNCHANGED <<uploads, objects, chunks, grants>>

\* Publish the object, its chunks and the grant; INSERT OR IGNORE keeps what an
\* earlier upload of the same ciphertext has published.
PublishShort(r) ==   \* variant: copies one chunk too few
  LET upload == uploads[r.upload]
      new == [blob |-> r.blob, caps |-> [role \in GrantRoles |-> upload.caps[role]],
              expires_at |-> upload.expires_at, deleted |-> FALSE]
  IN  /\ objects' = [objects EXCEPT ![r.blob] = upload.manifest]
      /\ chunks' = chunks \cup
           {<<r.blob, row[2], row[3]>> :
              row \in {c \in staged : /\ c[1] = r.upload
                                     /\ c[2] < Len(Chunks[upload.manifest])}}
      /\ grants' = [grants EXCEPT ![r.upload] = new]
      /\ uploads' = [uploads EXCEPT ![r.upload].committed = r.blob]
Publish(r) ==
  LET upload == uploads[r.upload]
      new == [blob |-> r.blob, caps |-> [role \in GrantRoles |-> upload.caps[role]],
              expires_at |-> upload.expires_at, deleted |-> FALSE]
      free(i) == \A c \in Ciphertexts : <<r.blob, i, c>> \notin chunks
  IN  /\ objects' = [objects EXCEPT ![r.blob] =
                       IF @ = None THEN upload.manifest ELSE @]
      /\ chunks' = chunks \cup
           {<<r.blob, row[2], row[3]>> :
              row \in {c \in staged : c[1] = r.upload /\ free(c[2])}}
      /\ grants' = [grants EXCEPT ![r.upload] = new]
      /\ uploads' = [uploads EXCEPT ![r.upload].committed = r.blob]

CommitBlob(t) ==
  LET r == serving[t].frame.request
      at == serving[t].now
  IN  /\ Executes(t, {"COMMIT"})
      /\ \/ Reject(t, CommitRefusal(r, at))
         \/ /\ CommitRefusal(r, at) = {}
            /\ Record(t, Leased("Committed", uploads[r.upload].expires_at, None))
            /\ \/ /\ uploads[r.upload].committed = None
                  /\ Publish(r)
               \/ /\ uploads[r.upload].committed # None
                  /\ UNCHANGED <<uploads, objects, chunks, grants>>
            /\ UNCHANGED staged

\* GET_MANIFEST and GET_CHUNK.
GetBlob(t) ==
  LET r == serving[t].frame.request
      at == serving[t].now
      manifest == objects[r.blob]
  IN  /\ Executes(t, {"GET_MANIFEST", "GET_CHUNK"})
      /\ \/ Reject(t, GrantRefusal(r, "download", at))
         \/ \E g \in Matching(r, "download") :
              /\ LiveAt(g, at)
              /\ \/ Reject(t, ObjectRefusal(r))
                 \/ /\ ObjectRefusal(r) = {}
                    /\ LET expiry == grants[g].expires_at
                       IN  Record(t, IF r.command = "GET_MANIFEST"
                                     THEN Leased("Manifest", expiry, manifest)
                                     ELSE Leased("Chunk", expiry,
                                                 Chunks[manifest][r.index]))
                    /\ UNCHANGED tables

\* The lease a renewal ends with.
RenewedTo(current, requested) ==
  IF current >= requested THEN current ELSE requested

\* UPDATE blob_grants for every grant with this capability in this role.
Renewed(r, expiry) ==
  [g \in UploadIds |->
     IF g \in Matching(r, "renew") /\ ~grants[g].deleted
     THEN [grants[g] EXCEPT !.expires_at = expiry] ELSE grants[g]]
DeletedByBlob(r) ==   \* variant: forgets the capability in WHERE
  [g \in UploadIds |->
     IF grants[g] # None /\ grants[g].blob = r.blob
     THEN [grants[g] EXCEPT !.deleted = TRUE] ELSE grants[g]]
Deleted(r) ==
  [g \in UploadIds |->
     IF g \in Matching(r, "delete")
     THEN [grants[g] EXCEPT !.deleted = TRUE] ELSE grants[g]]

RenewExpired(t) ==   \* variant: renews what has expired
  LET r == serving[t].frame.request
      at == serving[t].now
  IN  /\ Executes(t, {"RENEW"})
      /\ TtlRefusal(r, at) = {}
      /\ \E g \in Matching(r, "renew") :
           LET expiry == RenewedTo(grants[g].expires_at, at + r.ttl)
           IN  /\ Record(t, Leased("Renewed", expiry, None))
               /\ grants' = Renewed(r, expiry)
      /\ UNCHANGED <<uploads, staged, objects, chunks>>
RenewBlob(t) ==
  LET r == serving[t].frame.request
      at == serving[t].now
  IN  /\ Executes(t, {"RENEW"})
      /\ \/ Reject(t, IF TtlRefusal(r, at) # {} THEN TtlRefusal(r, at)
                      ELSE GrantRefusal(r, "renew", at))
         \/ /\ TtlRefusal(r, at) = {}
            /\ \E g \in Matching(r, "renew") :
                 LET expiry == RenewedTo(grants[g].expires_at, at + r.ttl)
                 IN  /\ LiveAt(g, at)
                     /\ Record(t, Leased("Renewed", expiry, None))
                     /\ grants' = Renewed(r, expiry)
            /\ UNCHANGED <<uploads, staged, objects, chunks>>

DeleteBlob(t) ==
  LET r == serving[t].frame.request
      at == serving[t].now
  IN  /\ Executes(t, {"DELETE"})
      /\ \/ Reject(t, GrantRefusal(r, "delete", at))
         \/ /\ \E g \in Matching(r, "delete") : LiveAt(g, at)
            /\ Record(t, Status("Deleted"))
            /\ grants' = Deleted(r)
            /\ UNCHANGED <<uploads, staged, objects, chunks>>

\* The reply goes to the transport, or is lost with its connection.
Respond(t) ==
  /\ serving[t] # None
  /\ serving[t].reply # None
  /\ serving' = [serving EXCEPT ![t] = None]
  /\ UNCHANGED <<tables, replays, clock>>

\* A storage error or the end of the process, before anything was committed.
Fail(t) ==
  /\ serving[t] # None
  /\ serving[t].reply = None
  /\ serving' = [serving EXCEPT ![t] = None]
  /\ UNCHANGED <<tables, replays, clock>>

\* relay_time() reads SystemTime, which moves on or is set back.
Tick ==
  /\ clock' \in {at \in Timestamps :
                   at = clock + 1 \/ (ClockMayStepBack /\ at < clock)}
  /\ UNCHANGED <<tables, replays, serving>>

\* A thread with the mutex.
Exchange(t) ==
  \/ Replay(t)
  \/ BeginUpload(t)
  \/ PutChunk(t)
  \/ CommitBlob(t)
  \/ GetBlob(t)
  \/ RenewBlob(t)
  \/ DeleteBlob(t)

Next ==
  \/ \E t \in Threads, f \in BlobFrames : Accept(t, f)
  \/ \E t \in Threads : Exchange(t)
  \/ \E t \in Threads : Respond(t)
  \/ \E t \in Threads : Fail(t)
  \/ Tick

Spec == Init /\ [][Next]_vars

-----------------------------------------------------------------------------
(* What the relay promises.                                                *)

\* CW-BLOB-012, CW-BLOB-013: what COMMIT publishes is whole.  An upload is
\* committed exactly when its grant exists; the grant's object is stored under
\* its own identifier with every chunk its manifest lists and no other, whoever
\* published it first and whatever was staged, retried or deleted since.
PublishedWhole ==
  /\ \A u \in UploadIds :
       grants[u] # None <=> uploads[u] # None /\ uploads[u].committed # None
  /\ \A u \in UploadIds : grants[u] # None =>
       LET b == grants[u].blob
           m == objects[b]
       IN  /\ b = uploads[u].committed
           /\ m = uploads[u].manifest
           /\ Identify[m] = b
           /\ {row \in chunks : row[1] = b} =
                {<<b, i, Chunks[m][i]>> : i \in DOMAIN Chunks[m]}

\* CW-BLOB-014, CW-BLOB-015: no step shortens a lease that is not deleted, takes
\* a deletion back, or changes a grant that the command's own capability does
\* not name; grants of the same ciphertext do not affect each other.
GrantsIndependent ==
  [][\A u \in UploadIds : grants[u] # None =>
       /\ grants'[u].caps = grants[u].caps /\ grants'[u].blob = grants[u].blob
       /\ grants'[u].expires_at >= grants[u].expires_at
       /\ grants[u].deleted => grants'[u] = grants[u]
       /\ grants'[u] # grants[u] =>
            \E t \in Threads :
              /\ serving[t] # None
              /\ CapabilityOf(serving[t].frame.request)
                   \in {grants[u].caps["renew"], grants[u].caps["delete"]}]_vars

\* The relay has answered EXPIRED to a command that names this grant.
ReportedExpired(u) ==
  \E key \in ReplayKeys :
    /\ replays[key] # None
    /\ replays[key].response.status = "Expired"
    /\ LET r == replays[key].request.request
       IN  /\ r.command \in {"GET_MANIFEST", "GET_CHUNK", "RENEW", "DELETE"}
           /\ r.blob = grants[u].blob
           /\ \E role \in GrantRoles : grants[u].caps[role] = r.cap

\* CW-BLOB-017: a grant that the relay has reported expired is not revived.
ExpiryIsFinal ==
  [][\A u \in UploadIds :
       grants[u] # None /\ grants'[u].expires_at # grants[u].expires_at =>
         ~ReportedExpired(u)]_vars
=============================================================================
