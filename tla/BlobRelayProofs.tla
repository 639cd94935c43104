--------------------------- MODULE BlobRelayProofs ---------------------------
(***************************************************************************)
(* What COMMIT publishes is whole and stays whole, for any manifests,      *)
(* capabilities, frames and threads.  As long as clients keep CW-BLOB-001, *)
(* grants do not affect each other, and what was reported expired is not   *)
(* revived by commands in order of time.                                   *)
(***************************************************************************)
EXTENDS BlobRelay, FiniteSetTheorems, TLAPS

Listed(m) == {<<i, Chunks[m][i]>> : i \in DOMAIN Chunks[m]}
ListedRows(u, m) == {<<u, i, Chunks[m][i]>> : i \in DOMAIN Chunks[m]}

\* PUT_CHUNK stages nothing but what the upload's manifest lists.
StagedAsListed ==
  \A u \in UploadIds, i \in Nat, c \in Ciphertexts : <<u, i, c>> \in staged =>
    uploads[u] # None /\ <<i, c>> \in Listed(uploads[u].manifest)

\* A stored object has its own identifier, and all its chunks and no other.
ObjectsWhole ==
  \A b \in BlobIds :
    /\ objects[b] # None => Identify[objects[b]] = b
    /\ \A i \in Nat, c \in Ciphertexts : <<b, i, c>> \in chunks <=>
         objects[b] # None /\ <<i, c>> \in Listed(objects[b])

\* An upload is committed when it has a grant, and its object is the one it
\* began with.
GrantsCommitted ==
  \A u \in UploadIds :
    /\ grants[u] # None <=> uploads[u] # None /\ uploads[u].committed # None
    /\ grants[u] # None => /\ grants[u].blob = uploads[u].committed
                           /\ objects[grants[u].blob] = uploads[u].manifest

TablesInv == StagedAsListed /\ ObjectsWhole /\ GrantsCommitted

TablesType ==
  /\ uploads \in [UploadIds -> Upload \cup {None}]
  /\ staged \subseteq UploadIds \X Nat \X Ciphertexts
  /\ objects \in [BlobIds -> Manifests \cup {None}]
  /\ chunks \subseteq BlobIds \X Nat \X Ciphertexts
  /\ grants \in [UploadIds -> Grant \cup {None}]

ServiceType ==
  /\ replays \in [ReplayKeys -> ReplayRecord \cup {None}]
  /\ clock \in Timestamps
  /\ serving \in [Threads -> Serving \cup {None}]

-----------------------------------------------------------------------------

\* The fields of a request, by its command.
LEMMA RequestFields ==
  ASSUME NEW r \in BlobRequest
  PROVE  /\ r.command = "BEGIN_UPLOAD" =>
              /\ r.upload \in UploadIds /\ r.caps \in BlobCapabilities
              /\ r.manifest \in Manifests /\ r.ttl \in Nat
         /\ r.command = "PUT_CHUNK" =>
              r.upload \in UploadIds /\ r.index \in Nat /\ r.ciphertext \in Ciphertexts
         /\ r.command = "COMMIT" => r.upload \in UploadIds /\ r.blob \in BlobIds
         /\ r.command \in {"GET_MANIFEST", "GET_CHUNK", "RENEW", "DELETE"} =>
              r.blob \in BlobIds
         /\ r.command = "GET_CHUNK" => r.index \in Nat
         /\ r.command = "RENEW" => r.ttl \in Nat
         /\ CapabilityOf(r) \in CapabilityIds
<1>1. CASE r \in [command : {"BEGIN_UPLOAD"}, upload : UploadIds,
                  caps : BlobCapabilities, manifest : Manifests, ttl : Nat]
  BY <1>1, Zenon DEF CapabilityOf, BlobCapabilities, Roles
<1>2. CASE r \in [command : {"PUT_CHUNK"}, upload : UploadIds, cap : CapabilityIds,
                  index : Nat, ciphertext : Ciphertexts]
  BY <1>2, Zenon DEF CapabilityOf
<1>3. CASE r \in [command : {"COMMIT"}, upload : UploadIds, cap : CapabilityIds,
                  blob : BlobIds]
  BY <1>3, Zenon DEF CapabilityOf
<1>4. CASE r \in [command : {"GET_MANIFEST", "DELETE"}, blob : BlobIds,
                  cap : CapabilityIds]
  BY <1>4, Zenon DEF CapabilityOf
<1>5. CASE r \in [command : {"GET_CHUNK"}, blob : BlobIds, cap : CapabilityIds,
                  index : Nat]
  BY <1>5, Zenon DEF CapabilityOf
<1>6. CASE r \in [command : {"RENEW"}, blob : BlobIds, cap : CapabilityIds, ttl : Nat]
  BY <1>6, Zenon DEF CapabilityOf
<1>. QED  BY <1>1, <1>2, <1>3, <1>4, <1>5, <1>6, Zenon DEF BlobRequest

\* A thread that is serving has a frame and a relay time.
LEMMA ServingFields ==
  ASSUME ServiceType, NEW t \in Threads, serving[t] # None
  PROVE  /\ serving[t] \in Serving
         /\ serving[t].frame \in BlobFrames /\ serving[t].now \in Timestamps
         /\ serving[t].frame.request \in BlobRequest
         /\ KeyOf(serving[t].frame) \in ReplayKeys
<1>1. serving[t] \in Serving
  BY Zenon DEF ServiceType
<1>2. serving[t].frame \in BlobFrames /\ serving[t].now \in Timestamps
  BY <1>1, Zenon DEF Serving
<1>3. /\ serving[t].frame.request \in BlobRequest
      /\ serving[t].frame.request_id \in RequestIds
  BY <1>2, BlobAssumption, Zenon
<1>4. CapabilityOf(serving[t].frame.request) \in CapabilityIds
  BY <1>3, RequestFields, Zenon
<1>. QED  BY <1>1, <1>2, <1>3, <1>4, Zenon DEF KeyOf, ReplayKeys

\* Recording a response keeps the types of everything but the tables.
LEMMA RecordType ==
  ASSUME ServiceType, NEW t \in Threads, serving[t] # None,
         NEW reply \in Reply, Record(t, reply)
  PROVE  ServiceType'
<1>. DEFINE f == serving[t].frame
            rec == [request |-> f, response |-> reply]
<1>1. /\ serving[t] \in Serving /\ f \in BlobFrames
      /\ KeyOf(f) \in ReplayKeys
  BY ServingFields, Zenon
<1>2. rec \in ReplayRecord
  BY <1>1, Zenon DEF ReplayRecord
<1>3. /\ replays' = [replays EXCEPT ![KeyOf(f)] = rec]
      /\ serving' = [serving EXCEPT ![t].reply = reply] /\ clock' = clock
  BY Zenon DEF Record, Answer
<1>. HIDE DEF f, rec
<1>4. replays' \in [ReplayKeys -> ReplayRecord \cup {None}]
  BY <1>2, <1>3, Zenon DEF ServiceType
<1>5. serving' \in [Threads -> Serving \cup {None}]
  BY <1>1, <1>3, Zenon DEF ServiceType, Serving
<1>. QED  BY <1>3, <1>4, <1>5, Zenon DEF ServiceType

\* So does a refusal, which leaves the tables alone.
LEMMA RejectKeeps ==
  ASSUME ServiceType, NEW t \in Threads, serving[t] # None,
         NEW errors \in SUBSET BlobErrors, Reject(t, errors)
  PROVE  ServiceType' /\ UNCHANGED tables
<1>1. PICK error \in errors : Record(t, Status(error))
  BY Zenon DEF Reject
<1>2. Status(error) \in Reply
  BY BlobAssumption DEF Status, Reply, Timestamps
<1>. QED  BY <1>1, <1>2, RecordType, Zenon DEF Reject

-----------------------------------------------------------------------------
(* The tables.                                                             *)

\* A manifest lists as many chunks as it is long.
LEMMA ListedCount ==
  ASSUME NEW u, NEW m \in Manifests
  PROVE  /\ IsFiniteSet(ListedRows(u, m))
         /\ Cardinality(ListedRows(u, m)) = Len(Chunks[m])
<1>. DEFINE n == Len(Chunks[m])
            f == [i \in 1 .. n |-> <<u, i, Chunks[m][i]>>]
<1>1. Chunks[m] \in Seq(Ciphertexts)
  BY BlobAssumption, Zenon
<1>2. n \in Nat /\ DOMAIN Chunks[m] = 1 .. n
  BY <1>1
<1>. HIDE DEF n
<1>3. IsFiniteSet(1 .. n) /\ Cardinality(1 .. n) = n
  <2>1. 1 \in Int /\ n \in Int /\ (IF 1 > n THEN 0 ELSE n - 1 + 1) = n
    BY <1>2
  <2>. QED  BY <2>1, FS_Interval, Zenon
<1>4. f \in Bijection(1 .. n, ListedRows(u, m))
  <2>1. ListedRows(u, m) = {<<u, i, Chunks[m][i]>> : i \in 1 .. n}
    BY <1>2, Zenon DEF ListedRows
  <2>2. f \in Bijection(1 .. n, {<<u, i, Chunks[m][i]>> : i \in 1 .. n})
    BY Zenon DEF Bijection, Injection, Surjection, IsInjective
  <2>. QED  BY <2>1, <2>2, Zenon
<1>5. ExistsBijection(1 .. n, ListedRows(u, m))
  BY <1>4, Zenon DEF ExistsBijection
<1>. QED  BY <1>3, <1>5, FS_Bijection, Zenon DEF n

\* Nothing but what the manifest lists is ever staged.
LEMMA StagedRows ==
  ASSUME TablesType, StagedAsListed, NEW u \in UploadIds, uploads[u] # None
  PROVE  {row \in staged : row[1] = u} \subseteq ListedRows(u, uploads[u].manifest)
<1>. SUFFICES ASSUME NEW row \in staged, row[1] = u
              PROVE  row \in ListedRows(u, uploads[u].manifest)
  BY Zenon
<1>1. PICK i \in Nat, c \in Ciphertexts : row = <<u, i, c>>
  BY DEF TablesType
<1>2. <<i, c>> \in Listed(uploads[u].manifest)
  BY <1>1, Zenon DEF StagedAsListed
<1>. QED  BY <1>1, <1>2, Zenon DEF Listed, ListedRows

\* COMMIT counts the staged rows and finds as many as the manifest lists: then
\* they are the listed ones, since nothing else is ever staged.
LEMMA CountIsEnough ==
  ASSUME TablesType, StagedAsListed, NEW u \in UploadIds, uploads[u] # None,
         Cardinality({row \in staged : row[1] = u}) = Len(Chunks[uploads[u].manifest])
  PROVE  \A i \in Nat, c \in Ciphertexts :
           <<u, i, c>> \in staged <=> <<i, c>> \in Listed(uploads[u].manifest)
<1>. DEFINE m == uploads[u].manifest
            rows == {row \in staged : row[1] = u}
<1>1. m \in Manifests
  BY Zenon DEF TablesType, Upload
<1>2. /\ IsFiniteSet(ListedRows(u, m)) /\ rows \in SUBSET ListedRows(u, m)
      /\ Cardinality(rows) = Cardinality(ListedRows(u, m))
  BY <1>1, ListedCount, StagedRows, Zenon
<1>3. rows = ListedRows(u, m)
  <2>. HIDE DEF rows
  <2>. QED  BY <1>2, FS_Subset, Zenon
<1>4. ASSUME NEW i \in Nat, NEW c \in Ciphertexts
      PROVE  <<u, i, c>> \in staged <=> <<i, c>> \in Listed(m)
  <2>1. <<u, i, c>> \in staged <=> <<u, i, c>> \in ListedRows(u, m)
    BY <1>3, Zenon
  <2>2. <<u, i, c>> \in ListedRows(u, m) <=> <<i, c>> \in Listed(m)
    BY Zenon DEF Listed, ListedRows
  <2>. QED  BY <2>1, <2>2, Zenon
<1>. QED  BY <1>4, Zenon DEF m

\* Publishing keeps every object whole, also when another upload of the same
\* ciphertext has published it before.
LEMMA PublishWhole ==
  ASSUME TablesType, TablesInv, NEW r, r.upload \in UploadIds, r.blob \in BlobIds,
         uploads[r.upload] # None, uploads[r.upload].committed = None,
         Identify[uploads[r.upload].manifest] = r.blob,
         Cardinality({row \in staged : row[1] = r.upload})
           = Len(Chunks[uploads[r.upload].manifest]),
         objects[r.blob] \in {None, uploads[r.upload].manifest},
         Publish(r), UNCHANGED staged
  PROVE  TablesType' /\ TablesInv'
<1>. DEFINE u == r.upload
            b == r.blob
            up == uploads[u]
            new == [blob |-> b, caps |-> [role \in GrantRoles |-> up.caps[role]],
                    expires_at |-> up.expires_at, deleted |-> FALSE]
            free(i) == \A c \in Ciphertexts : <<b, i, c>> \notin chunks
            added == {<<b, row[2], row[3]>> :
                        row \in {s \in staged : s[1] = u /\ free(s[2])}}
<1>1. u \in UploadIds /\ b \in BlobIds /\ up \in Upload /\ b # None
  BY BlobAssumption, Zenon DEF TablesType
<1>2. /\ objects' = [objects EXCEPT ![b] = up.manifest]
      /\ chunks' = chunks \cup added
      /\ grants' = [grants EXCEPT ![u] = new]
      /\ uploads' = [uploads EXCEPT ![u].committed = b]
      /\ staged' = staged
  BY Zenon DEF Publish, TablesType
<1>3. new \in Grant /\ new # None /\ new.blob = b
  <2>1. [role \in GrantRoles |-> up.caps[role]] \in [GrantRoles -> CapabilityIds]
    BY <1>1, Zenon DEF Upload, BlobCapabilities, GrantRoles
  <2>2. new \in Grant
    BY <1>1, <2>1, Zenon DEF Grant, Upload
  <2>. QED  BY <2>2, NoneAssumption, Zenon
<1>4. /\ up.manifest \in Manifests /\ up.manifest # None
      /\ [up EXCEPT !.committed = b] \in Upload
      /\ [up EXCEPT !.committed = b].manifest = up.manifest
      /\ [up EXCEPT !.committed = b].committed = b
      /\ [up EXCEPT !.committed = b] # None
  <2>1. up.manifest \in Manifests /\ up.manifest # None
    BY <1>1, BlobAssumption, Zenon DEF Upload
  <2>2. [up EXCEPT !.committed = b] \in Upload
    BY <1>1, Zenon DEF Upload
  <2>3. /\ [up EXCEPT !.committed = b].manifest = up.manifest
        /\ [up EXCEPT !.committed = b].committed = b
    BY <1>1, Zenon DEF Upload
  <2>. QED  BY <2>1, <2>2, <2>3, NoneAssumption, Zenon
<1>5. added \in SUBSET (BlobIds \X Nat \X Ciphertexts)
  BY <1>1 DEF TablesType
<1>6. \A i \in Nat, c \in Ciphertexts :
        <<b, i, c>> \in added <=> <<u, i, c>> \in staged /\ free(i)
  <2>. TAKE i \in Nat, c \in Ciphertexts
  <2>1. ASSUME <<b, i, c>> \in added PROVE <<u, i, c>> \in staged /\ free(i)
    <3>1. PICK row \in staged :
            row[1] = u /\ free(row[2]) /\ <<b, i, c>> = <<b, row[2], row[3]>>
      BY <2>1, Zenon
    <3>2. row = <<row[1], row[2], row[3]>>
      BY DEF TablesType
    <3>. QED  BY <3>1, <3>2, Zenon
  <2>2. ASSUME <<u, i, c>> \in staged, free(i) PROVE <<b, i, c>> \in added
    BY <2>2
  <2>. QED  BY <2>1, <2>2, Zenon
<1>7. \A d \in BlobIds \ {b}, i \in Nat, c \in Ciphertexts : <<d, i, c>> \notin added
  BY Zenon
<1>8. \A i \in Nat, c \in Ciphertexts :
        <<u, i, c>> \in staged <=> <<i, c>> \in Listed(up.manifest)
  BY <1>1, CountIsEnough, Zenon DEF TablesInv
<1>. HIDE DEF new, added, free
<1>9. TablesType'
  <2>1. uploads' \in [UploadIds -> Upload \cup {None}]
    BY <1>2, <1>4, Zenon DEF TablesType
  <2>2. objects' \in [BlobIds -> Manifests \cup {None}]
    BY <1>2, <1>4, Zenon DEF TablesType
  <2>3. grants' \in [UploadIds -> Grant \cup {None}]
    BY <1>2, <1>3, Zenon DEF TablesType
  <2>4. chunks' \subseteq BlobIds \X Nat \X Ciphertexts
    BY <1>2, <1>5, Zenon DEF TablesType
  <2>. QED  BY <1>2, <2>1, <2>2, <2>3, <2>4, Zenon DEF TablesType
<1>10. StagedAsListed'
  <2>1. \A v \in UploadIds : uploads[v] # None =>
          uploads'[v] # None /\ uploads'[v].manifest = uploads[v].manifest
    BY <1>1, <1>2, <1>4, Zenon DEF TablesType
  <2>. QED  BY <1>2, <2>1, Zenon DEF TablesInv, StagedAsListed
<1>11. ObjectsWhole'
  <2>1. ASSUME NEW d \in BlobIds \ {b}, NEW i \in Nat, NEW c \in Ciphertexts
        PROVE  <<d, i, c>> \in chunks' <=> <<d, i, c>> \in chunks
    BY <1>2, <1>7, Zenon
  <2>2. \A d \in BlobIds \ {b} : objects'[d] = objects[d]
    BY <1>2, Zenon DEF TablesType
  <2>3. objects'[b] = up.manifest
    BY <1>1, <1>2, Zenon DEF TablesType
  <2>4. ASSUME NEW i \in Nat, NEW c \in Ciphertexts
        PROVE  <<b, i, c>> \in chunks' <=> <<i, c>> \in Listed(up.manifest)
    <3>1. <<b, i, c>> \in chunks' <=>
            <<b, i, c>> \in chunks \/ (<<i, c>> \in Listed(up.manifest) /\ free(i))
      BY <1>2, <1>6, <1>8, Zenon
    <3>2. CASE objects[b] = None
      <4>1. \A e \in Ciphertexts : <<b, i, e>> \notin chunks
        BY <1>1, <3>2, Zenon DEF TablesInv, ObjectsWhole
      <4>. QED  BY <3>1, <4>1, Zenon DEF free
    <3>3. CASE objects[b] = up.manifest
      <4>1. <<b, i, c>> \in chunks <=> <<i, c>> \in Listed(up.manifest)
        BY <1>1, <1>4, <3>3, Zenon DEF TablesInv, ObjectsWhole
      <4>. QED  BY <3>1, <4>1, Zenon
    <3>. QED  BY <3>2, <3>3, Zenon
  <2>. SUFFICES ASSUME NEW d \in BlobIds
                PROVE  /\ objects'[d] # None => Identify[objects'[d]] = d
                       /\ \A i \in Nat, c \in Ciphertexts : <<d, i, c>> \in chunks' <=>
                            objects'[d] # None /\ <<i, c>> \in Listed(objects'[d])
    BY Zenon DEF ObjectsWhole
  <2>5. CASE d = b
    BY <1>4, <2>3, <2>4, <2>5, Zenon
  <2>6. CASE d # b
    BY <2>1, <2>2, <2>6 DEF TablesInv, ObjectsWhole
  <2>. QED  BY <2>5, <2>6, Zenon
<1>12. GrantsCommitted'
  <2>1. /\ grants'[u] = new /\ uploads'[u] = [up EXCEPT !.committed = b]
        /\ objects'[b] = up.manifest
    BY <1>1, <1>2, Zenon DEF TablesType
  <2>2. ASSUME NEW v \in UploadIds \ {u}
        PROVE  grants'[v] = grants[v] /\ uploads'[v] = uploads[v]
    BY <1>2, Zenon DEF TablesType
  <2>3. \A v \in UploadIds : grants[v] # None => grants[v].blob \in BlobIds
    BY Zenon DEF TablesType, Grant
  <2>4. \A d \in BlobIds : objects[d] # None => objects'[d] = objects[d]
    BY <1>1, <1>2, Zenon DEF TablesType
  <2>5. \A v \in UploadIds : grants[v] # None => objects[grants[v].blob] # None
    <3>1. \A v \in UploadIds : grants[v] # None => uploads[v] \in Upload
      BY DEF TablesInv, GrantsCommitted, TablesType
    <3>2. \A v \in UploadIds : grants[v] # None => uploads[v].manifest # None
      BY <3>1, BlobAssumption, Zenon DEF Upload
    <3>. QED  BY <3>2, Zenon DEF TablesInv, GrantsCommitted
  <2>. SUFFICES ASSUME NEW v \in UploadIds
                PROVE  /\ grants'[v] # None <=>
                            uploads'[v] # None /\ uploads'[v].committed # None
                       /\ grants'[v] # None =>
                            /\ grants'[v].blob = uploads'[v].committed
                            /\ objects'[grants'[v].blob] = uploads'[v].manifest
    BY Zenon DEF GrantsCommitted
  <2>6. CASE v = u
    BY <1>1, <1>3, <1>4, <2>1, <2>6, Zenon
  <2>7. CASE v # u
    <3>1. grants'[v] = grants[v] /\ uploads'[v] = uploads[v]
      BY <2>2, <2>7, Zenon
    <3>2. grants[v] # None => objects'[grants[v].blob] = uploads[v].manifest
      BY <2>3, <2>4, <2>5, Zenon DEF TablesInv, GrantsCommitted
    <3>. QED  BY <3>1, <3>2 DEF TablesInv, GrantsCommitted
  <2>. QED  BY <2>6, <2>7, Zenon
<1>. QED  BY <1>9, <1>10, <1>11, <1>12, Zenon DEF TablesInv

-----------------------------------------------------------------------------
(* The commands.                                                           *)

\* Every refusal is one of the error statuses.
LEMMA RefusalTypes ==
  ASSUME NEW r, NEW at
  PROVE  /\ BeginRefusal(r, at) \in SUBSET BlobErrors
         /\ PutRefusal(r, at) \in SUBSET BlobErrors
         /\ CommitRefusal(r, at) \in SUBSET BlobErrors
         /\ TtlRefusal(r, at) \in SUBSET BlobErrors
         /\ \A role : GrantRefusal(r, role, at) \in SUBSET BlobErrors
         /\ ObjectRefusal(r) \in SUBSET BlobErrors
<1>1. TtlRefusal(r, at) \in SUBSET BlobErrors
  BY Zenon DEF TtlRefusal, BlobErrors
<1>2. BeginRefusal(r, at) \in SUBSET BlobErrors
  BY <1>1, Zenon DEF BeginRefusal, BlobErrors
<1>3. UploadRefusal(r, at) \in SUBSET BlobErrors
  BY Zenon DEF UploadRefusal, BlobErrors
<1>4. PutRefusal(r, at) \in SUBSET BlobErrors
  BY <1>3, Zenon DEF PutRefusal, BlobErrors
<1>5. \A m : StagingFault(r.upload, m) \in SUBSET BlobErrors
  <2>. TAKE m
  <2>1. \A e \in StagingFault(r.upload, m) : e \in {"ChunkConflict", "Incomplete"}
    BY Zenon DEF StagingFault
  <2>. QED  BY <2>1, Zenon DEF BlobErrors
<1>6. CommitRefusal(r, at) \in SUBSET BlobErrors
  BY <1>3, <1>5, Zenon DEF CommitRefusal, BlobErrors
<1>7. \A role : GrantRefusal(r, role, at) \in SUBSET BlobErrors
  BY Zenon DEF GrantRefusal, BlobErrors
<1>8. ObjectRefusal(r) \in SUBSET BlobErrors
  BY Zenon DEF ObjectRefusal, BlobErrors
<1>. QED  BY <1>1, <1>2, <1>4, <1>6, <1>7, <1>8, Zenon

Inv == TablesType /\ ServiceType /\ TablesInv

\* What leaves the tables alone keeps what is true of them.
LEMMA TablesKept ==
  ASSUME TablesType, TablesInv, UNCHANGED tables
  PROVE  TablesType' /\ TablesInv'
BY Zenon DEF TablesType, TablesInv, StagedAsListed, ObjectsWhole, GrantsCommitted, tables

\* BEGIN_UPLOAD: the new upload has the expiry the TTL check allows.
LEMMA BeginInv ==
  ASSUME Inv, NEW t \in Threads, BeginUpload(t)
  PROVE  Inv'
<1>. DEFINE r == serving[t].frame.request
            at == serving[t].now
            new == [caps |-> r.caps, manifest |-> r.manifest,
                    expires_at |-> at + r.ttl, committed |-> None]
<1>1. serving[t] # None /\ r.command = "BEGIN_UPLOAD"
  BY Zenon DEF BeginUpload, Executes
<1>2. r \in BlobRequest /\ at \in Timestamps
  BY <1>1, ServingFields, Zenon DEF Inv
<1>3. /\ r.upload \in UploadIds /\ r.caps \in BlobCapabilities
      /\ r.manifest \in Manifests /\ r.ttl \in Nat
  BY <1>1, <1>2, RequestFields, Zenon
<1>4. CASE Reject(t, BeginRefusal(r, at))
  BY <1>1, <1>4, RejectKeeps, RefusalTypes, TablesKept, Zenon DEF Inv
<1>5. CASE /\ BeginRefusal(r, at) = {}
           /\ uploads[r.upload] # None
           /\ Record(t, Status("Duplicate"))
           /\ UNCHANGED tables
  <2>1. Status("Duplicate") \in Reply
    BY BlobAssumption DEF Status, Reply, Timestamps
  <2>. QED  BY <1>1, <1>5, <2>1, RecordType, TablesKept, Zenon DEF Inv
<1>6. CASE /\ BeginRefusal(r, at) = {}
           /\ uploads[r.upload] = None
           /\ Record(t, Status("Stored"))
           /\ uploads' = [uploads EXCEPT ![r.upload] = new]
           /\ UNCHANGED <<staged, objects, chunks, grants>>
  <2>1. Status("Stored") \in Reply
    BY BlobAssumption DEF Status, Reply, Timestamps
  <2>2. ServiceType'
    BY <1>1, <1>6, <2>1, RecordType, Zenon DEF Inv
  <2>3. at + r.ttl \in Timestamps
    <3>1. TtlRefusal(r, at) = {}
      BY <1>6, Zenon DEF BeginRefusal
    <3>. QED  BY <1>2, <1>3, <3>1, BlobAssumption DEF TtlRefusal, Timestamps
  <2>4. new \in Upload /\ new.committed = None /\ new.manifest = r.manifest
    BY <1>3, <2>3, Zenon DEF Upload
  <2>. HIDE DEF new, r, at
  <2>5. TablesType'
    BY <1>3, <1>6, <2>4, Zenon DEF Inv, TablesType
  <2>6. \A v \in UploadIds : uploads[v] # None => uploads'[v] = uploads[v]
    BY <1>6, Zenon DEF Inv, TablesType
  <2>7. uploads'[r.upload] = new /\ grants[r.upload] = None
    BY <1>3, <1>6, Zenon DEF Inv, TablesType, TablesInv, GrantsCommitted
  <2>8. StagedAsListed' /\ ObjectsWhole'
    BY <1>6, <2>6, Zenon DEF Inv, TablesInv, StagedAsListed, ObjectsWhole
  <2>9. \A v \in UploadIds \ {r.upload} : uploads'[v] = uploads[v]
    BY <1>6, Zenon DEF Inv, TablesType
  <2>10. GrantsCommitted'
    <3>. SUFFICES ASSUME NEW v \in UploadIds
                  PROVE  /\ grants[v] # None <=>
                              uploads'[v] # None /\ uploads'[v].committed # None
                         /\ grants[v] # None =>
                              /\ grants[v].blob = uploads'[v].committed
                              /\ objects[grants[v].blob] = uploads'[v].manifest
      BY <1>6, Zenon DEF GrantsCommitted
    <3>1. CASE v = r.upload
      BY <2>4, <2>7, <3>1, Zenon
    <3>2. CASE v # r.upload
      BY <2>9, <3>2, Zenon DEF Inv, TablesInv, GrantsCommitted
    <3>. QED  BY <3>1, <3>2, Zenon
  <2>. QED  BY <2>2, <2>5, <2>8, <2>10, Zenon DEF Inv, TablesInv
<1>. QED  BY <1>4, <1>5, <1>6, Zenon DEF BeginUpload, tables

\* PUT_CHUNK: what is staged is what the manifest lists at that index.
LEMMA PutInv ==
  ASSUME Inv, NEW t \in Threads, PutChunk(t)
  PROVE  Inv'
<1>0. PICK r, at : r = serving[t].frame.request /\ at = serving[t].now
  BY Zenon
<1>. DEFINE row == <<r.upload, r.index, r.ciphertext>>
<1>1. serving[t] # None /\ r.command = "PUT_CHUNK"
  BY <1>0, Zenon DEF PutChunk, Executes
<1>2. r \in BlobRequest
  BY <1>0, <1>1, ServingFields, Zenon DEF Inv
<1>3. r.upload \in UploadIds /\ r.index \in Nat /\ r.ciphertext \in Ciphertexts
  BY <1>1, <1>2, RequestFields, Zenon
<1>4. CASE Reject(t, PutRefusal(r, at))
  BY <1>1, <1>4, RejectKeeps, RefusalTypes, TablesKept, Zenon DEF Inv
<1>5. CASE /\ PutRefusal(r, at) = {}
           /\ Record(t, Status(IF row \in staged THEN "Duplicate" ELSE "Stored"))
           /\ staged' = staged \cup {row}
           /\ UNCHANGED <<uploads, objects, chunks, grants>>
  <2>1. Status(IF row \in staged THEN "Duplicate" ELSE "Stored") \in Reply
    BY BlobAssumption DEF Status, Reply, Timestamps
  <2>2. ServiceType'
    BY <1>1, <1>5, <2>1, RecordType, Zenon DEF Inv
  <2>3. UploadRefusal(r, at) = {}
    BY <1>5, Zenon DEF PutRefusal
  <2>4. uploads[r.upload] # None
    BY <2>3, Zenon DEF UploadRefusal
  <2>5. /\ r.index \in DOMAIN Chunks[uploads[r.upload].manifest]
        /\ Chunks[uploads[r.upload].manifest][r.index] = r.ciphertext
    BY <1>5, <2>3, Zenon DEF PutRefusal
  <2>6. <<r.index, r.ciphertext>> \in Listed(uploads[r.upload].manifest)
    BY <2>5, Zenon DEF Listed
  <2>7. \A u \in UploadIds, i \in Nat, c \in Ciphertexts :
          <<u, i, c>> \in staged' =>
            \/ <<u, i, c>> \in staged
            \/ u = r.upload /\ i = r.index /\ c = r.ciphertext
    BY <1>5, Zenon
  <2>8. StagedAsListed'
    BY <1>5, <2>4, <2>6, <2>7, Zenon DEF Inv, TablesInv, StagedAsListed
  <2>9. TablesType'
    BY <1>3, <1>5 DEF Inv, TablesType
  <2>10. ObjectsWhole' /\ GrantsCommitted'
    BY <1>5, Zenon DEF Inv, TablesInv, ObjectsWhole, GrantsCommitted
  <2>. QED  BY <2>2, <2>8, <2>9, <2>10, Zenon DEF Inv, TablesInv
<1>. QED  BY <1>0, <1>4, <1>5, Zenon DEF PutChunk

\* COMMIT: publishes what is staged, once, or repeats its answer.
LEMMA CommitInv ==
  ASSUME Inv, NEW t \in Threads, CommitBlob(t)
  PROVE  Inv'
<1>0. PICK r, at : r = serving[t].frame.request /\ at = serving[t].now
  BY Zenon
<1>1. serving[t] # None /\ r.command = "COMMIT"
  BY <1>0, Zenon DEF CommitBlob, Executes
<1>2. r \in BlobRequest
  BY <1>0, <1>1, ServingFields, Zenon DEF Inv
<1>3. r.upload \in UploadIds /\ r.blob \in BlobIds
  BY <1>1, <1>2, RequestFields, Zenon
<1>4. CASE Reject(t, CommitRefusal(r, at))
  BY <1>1, <1>4, RejectKeeps, RefusalTypes, TablesKept, Zenon DEF Inv
<1>5. CASE /\ CommitRefusal(r, at) = {}
           /\ Record(t, Leased("Committed", uploads[r.upload].expires_at, None))
           /\ \/ /\ uploads[r.upload].committed = None
                 /\ Publish(r)
              \/ /\ uploads[r.upload].committed # None
                 /\ UNCHANGED <<uploads, objects, chunks, grants>>
           /\ UNCHANGED staged
  <2>1. UploadRefusal(r, at) = {}
    BY <1>5, Zenon DEF CommitRefusal
  <2>2. uploads[r.upload] # None
    BY <2>1, Zenon DEF UploadRefusal
  <2>3. uploads[r.upload].expires_at \in Timestamps
    BY <1>3, <2>2, Zenon DEF Inv, TablesType, Upload
  <2>4. Leased("Committed", uploads[r.upload].expires_at, None) \in Reply
    BY <2>3, Zenon DEF Leased, Reply
  <2>5. ServiceType'
    BY <1>1, <1>5, <2>4, RecordType, Zenon DEF Inv
  <2>6. CASE uploads[r.upload].committed # None
    BY <1>5, <2>5, <2>6, TablesKept, Zenon DEF Inv, tables
  <2>7. CASE uploads[r.upload].committed = None
    <3>1. /\ Identify[uploads[r.upload].manifest] = r.blob
          /\ Cardinality({row \in staged : row[1] = r.upload})
               = Len(Chunks[uploads[r.upload].manifest])
          /\ objects[r.blob] \in {None, uploads[r.upload].manifest}
      BY <1>5, <2>1, <2>7, Zenon DEF CommitRefusal
    <3>2. Publish(r) /\ UNCHANGED staged
      BY <1>5, <2>7, Zenon
    <3>3. TablesType' /\ TablesInv'
      BY <1>3, <2>2, <2>7, <3>1, <3>2, PublishWhole, Zenon DEF Inv
    <3>. QED  BY <2>5, <3>3, Zenon DEF Inv
  <2>. QED  BY <2>6, <2>7, Zenon
<1>. QED  BY <1>0, <1>4, <1>5, Zenon DEF CommitBlob

\* The object of a grant is stored.
LEMMA GrantedIsStored ==
  ASSUME TablesType, TablesInv, NEW r, NEW role, NEW g \in Matching(r, role)
  PROVE  /\ g \in UploadIds /\ grants[g] \in Grant /\ grants[g] # None
         /\ objects[r.blob] \in Manifests
<1>1. /\ g \in UploadIds /\ grants[g] # None /\ grants[g].blob = r.blob
  BY Zenon DEF Matching
<1>2. grants[g] \in Grant
  BY <1>1, Zenon DEF TablesType
<1>3. uploads[g] \in Upload /\ objects[r.blob] = uploads[g].manifest
  BY <1>1, Zenon DEF TablesType, TablesInv, GrantsCommitted
<1>. QED  BY <1>1, <1>2, <1>3, Zenon DEF Upload

\* GET_MANIFEST and GET_CHUNK answer with stored content.
LEMMA GetInv ==
  ASSUME Inv, NEW t \in Threads, GetBlob(t)
  PROVE  Inv'
<1>0. PICK r, at, manifest : /\ r = serving[t].frame.request /\ at = serving[t].now
                             /\ manifest = objects[r.blob]
  BY Zenon
<1>1. serving[t] # None /\ r.command \in {"GET_MANIFEST", "GET_CHUNK"}
  BY <1>0, Zenon DEF GetBlob, Executes
<1>2. CASE Reject(t, GrantRefusal(r, "download", at))
  BY <1>1, <1>2, RejectKeeps, RefusalTypes, TablesKept, Zenon DEF Inv
<1>3. ASSUME Reject(t, ObjectRefusal(r)) PROVE Inv'
  BY <1>1, <1>3, RejectKeeps, RefusalTypes, TablesKept, Zenon DEF Inv
<1>4. ASSUME NEW g \in Matching(r, "download"), ObjectRefusal(r) = {},
             Record(t, IF r.command = "GET_MANIFEST"
                       THEN Leased("Manifest", grants[g].expires_at, manifest)
                       ELSE Leased("Chunk", grants[g].expires_at,
                                   Chunks[manifest][r.index])),
             UNCHANGED tables
      PROVE  Inv'
  <2>1. manifest \in Manifests /\ grants[g] \in Grant
    BY <1>0, <1>4, GrantedIsStored, Zenon DEF Inv
  <2>2. grants[g].expires_at \in Timestamps
    BY <2>1, Zenon DEF Grant
  <2>3. r.command # "GET_MANIFEST" => Chunks[manifest][r.index] \in Ciphertexts
    <3>1. r.command # "GET_MANIFEST" => r.index \in DOMAIN Chunks[manifest]
      BY <1>0, <1>4, Zenon DEF ObjectRefusal
    <3>2. Chunks[manifest] \in Seq(Ciphertexts)
      BY <2>1, BlobAssumption, Zenon
    <3>. QED  BY <3>1, <3>2
  <2>4. (IF r.command = "GET_MANIFEST"
         THEN Leased("Manifest", grants[g].expires_at, manifest)
         ELSE Leased("Chunk", grants[g].expires_at, Chunks[manifest][r.index])) \in Reply
    BY <2>1, <2>2, <2>3, Zenon DEF Leased, Reply
  <2>5. ServiceType'
    BY <1>1, <1>4, <2>4, RecordType, Zenon DEF Inv
  <2>. QED  BY <1>4, <2>5, TablesKept, Zenon DEF Inv
<1>. QED  BY <1>0, <1>2, <1>3, <1>4, Zenon DEF GetBlob

\* RENEW and DELETE change leases and marks of existing grants, nothing else.
LEMMA GrantsUpdated ==
  ASSUME TablesType, TablesInv, UNCHANGED <<uploads, staged, objects, chunks>>,
         grants' \in [UploadIds -> Grant \cup {None}],
         \A u \in UploadIds : /\ grants'[u] = None <=> grants[u] = None
                              /\ grants[u] # None => grants'[u].blob = grants[u].blob
  PROVE  TablesType' /\ TablesInv'
<1>1. TablesType'
  BY Zenon DEF TablesType
<1>2. StagedAsListed' /\ ObjectsWhole'
  BY Zenon DEF TablesInv, StagedAsListed, ObjectsWhole
<1>3. GrantsCommitted'
  BY Zenon DEF TablesInv, GrantsCommitted
<1>. QED  BY <1>1, <1>2, <1>3, Zenon DEF TablesInv

\* RENEW: the new lease is a timestamp, like the one it extends.
LEMMA RenewInv ==
  ASSUME Inv, NEW t \in Threads, RenewBlob(t)
  PROVE  Inv'
<1>0. PICK r, at : r = serving[t].frame.request /\ at = serving[t].now
  BY Zenon
<1>1. serving[t] # None /\ r.command = "RENEW"
  BY <1>0, Zenon DEF RenewBlob, Executes
<1>2. r \in BlobRequest /\ at \in Timestamps
  BY <1>0, <1>1, ServingFields, Zenon DEF Inv
<1>3. r.ttl \in Nat
  BY <1>1, <1>2, RequestFields, Zenon
<1>4. CASE Reject(t, IF TtlRefusal(r, at) # {} THEN TtlRefusal(r, at)
                     ELSE GrantRefusal(r, "renew", at))
  BY <1>1, <1>4, RejectKeeps, RefusalTypes, TablesKept, Zenon DEF Inv
<1>5. ASSUME NEW g \in Matching(r, "renew"), NEW expiry,
             TtlRefusal(r, at) = {},
             expiry = RenewedTo(grants[g].expires_at, at + r.ttl),
             Record(t, Leased("Renewed", expiry, None)),
             grants' = Renewed(r, expiry),
             UNCHANGED <<uploads, staged, objects, chunks>>
      PROVE  Inv'
  <2>1. grants[g] \in Grant
    BY <1>5, GrantedIsStored, Zenon DEF Inv
  <2>2. expiry \in Timestamps
    <3>1. at + r.ttl \in Timestamps
      BY <1>2, <1>3, <1>5, BlobAssumption DEF TtlRefusal, Timestamps
    <3>2. grants[g].expires_at \in Timestamps
      BY <2>1, Zenon DEF Grant
    <3>. QED  BY <1>5, <3>1, <3>2, Zenon DEF RenewedTo
  <2>3. Leased("Renewed", expiry, None) \in Reply
    BY <2>2, Zenon DEF Leased, Reply
  <2>4. ServiceType'
    BY <1>1, <1>5, <2>3, RecordType, Zenon DEF Inv
  <2>5. ASSUME NEW u \in UploadIds
        PROVE  /\ grants'[u] \in Grant \cup {None}
               /\ grants'[u] = None <=> grants[u] = None
               /\ grants[u] # None => grants'[u].blob = grants[u].blob
    <3>1. CASE u \in Matching(r, "renew") /\ ~grants[u].deleted
      <4>1. grants[u] \in Grant /\ grants[u] # None
        BY <3>1, GrantedIsStored, Zenon DEF Inv
      <4>2. grants'[u] = [grants[u] EXCEPT !.expires_at = expiry]
        BY <1>5, <3>1, Zenon DEF Renewed
      <4>3. grants'[u] \in Grant /\ grants'[u].blob = grants[u].blob
        BY <2>2, <4>1, <4>2, Zenon DEF Grant
      <4>. QED  BY <4>1, <4>3, NoneAssumption, Zenon
    <3>2. CASE ~(u \in Matching(r, "renew") /\ ~grants[u].deleted)
      BY <1>5, <3>2, Zenon DEF Renewed, Inv, TablesType
    <3>. QED  BY <3>1, <3>2, Zenon
  <2>6. grants' \in [UploadIds -> Grant \cup {None}]
    BY <1>5, <2>5, Zenon DEF Renewed
  <2>. QED  BY <1>5, <2>4, <2>5, <2>6, GrantsUpdated, Zenon DEF Inv
<1>. QED  BY <1>0, <1>4, <1>5, Zenon DEF RenewBlob

\* DELETE: sets a mark.
LEMMA DeleteInv ==
  ASSUME Inv, NEW t \in Threads, DeleteBlob(t)
  PROVE  Inv'
<1>0. PICK r, at : r = serving[t].frame.request /\ at = serving[t].now
  BY Zenon
<1>1. serving[t] # None
  BY Zenon DEF DeleteBlob, Executes
<1>2. CASE Reject(t, GrantRefusal(r, "delete", at))
  BY <1>1, <1>2, RejectKeeps, RefusalTypes, TablesKept, Zenon DEF Inv
<1>3. CASE /\ Record(t, Status("Deleted"))
           /\ grants' = Deleted(r)
           /\ UNCHANGED <<uploads, staged, objects, chunks>>
  <2>1. Status("Deleted") \in Reply
    BY BlobAssumption DEF Status, Reply, Timestamps
  <2>2. ServiceType'
    BY <1>1, <1>3, <2>1, RecordType, Zenon DEF Inv
  <2>3. ASSUME NEW u \in UploadIds
        PROVE  /\ grants'[u] \in Grant \cup {None}
               /\ grants'[u] = None <=> grants[u] = None
               /\ grants[u] # None => grants'[u].blob = grants[u].blob
    <3>1. CASE u \in Matching(r, "delete")
      <4>1. grants[u] \in Grant /\ grants[u] # None
        BY <3>1, GrantedIsStored, Zenon DEF Inv
      <4>2. grants'[u] = [grants[u] EXCEPT !.deleted = TRUE]
        BY <1>3, <3>1, Zenon DEF Deleted
      <4>3. grants'[u] \in Grant /\ grants'[u].blob = grants[u].blob
        BY <4>1, <4>2, Zenon DEF Grant
      <4>. QED  BY <4>1, <4>3, NoneAssumption, Zenon
    <3>2. CASE u \notin Matching(r, "delete")
      BY <1>3, <3>2, Zenon DEF Deleted, Inv, TablesType
    <3>. QED  BY <3>1, <3>2, Zenon
  <2>4. grants' \in [UploadIds -> Grant \cup {None}]
    BY <1>3, <2>3, Zenon DEF Deleted
  <2>. QED  BY <1>3, <2>2, <2>3, <2>4, GrantsUpdated, Zenon DEF Inv
<1>. QED  BY <1>0, <1>2, <1>3, Zenon DEF DeleteBlob

\* The steps of a thread outside of the exchange, and the clock.
LEMMA OtherInv ==
  ASSUME Inv
  PROVE  /\ \A t \in Threads, f \in BlobFrames : Accept(t, f) => Inv'
         /\ \A t \in Threads : Replay(t) \/ Respond(t) \/ Fail(t) => Inv'
         /\ Tick \/ UNCHANGED vars => Inv'
<1>1. ASSUME UNCHANGED tables, ServiceType' PROVE Inv'
  BY <1>1, TablesKept, Zenon DEF Inv
<1>2. ASSUME NEW t \in Threads, NEW f \in BlobFrames, Accept(t, f) PROVE Inv'
  <2>1. [frame |-> f, now |-> clock, reply |-> None] \in Serving
    BY Zenon DEF Inv, ServiceType, Serving
  <2>2. ServiceType'
    BY <1>2, <2>1, Zenon DEF Accept, Inv, ServiceType
  <2>. QED  BY <1>1, <1>2, <2>2, Zenon DEF Accept
<1>3. ASSUME NEW t \in Threads, Replay(t) PROVE Inv'
  <2>. DEFINE f == serving[t].frame
              record == replays[KeyOf(f)]
              answer == IF record.request = f THEN record.response ELSE Status("AuthReplay")
  <2>1. serving[t] # None /\ record # None
    BY <1>3, Zenon DEF Replay
  <2>2. serving[t] \in Serving /\ KeyOf(f) \in ReplayKeys
    BY <2>1, ServingFields, Zenon DEF Inv
  <2>3. record \in ReplayRecord
    BY <2>1, <2>2, Zenon DEF Inv, ServiceType
  <2>4. Status("AuthReplay") \in Reply
    BY BlobAssumption DEF Status, Reply, Timestamps
  <2>5. answer \in Reply
    BY <2>3, <2>4, Zenon DEF ReplayRecord
  <2>6. serving' = [serving EXCEPT ![t].reply = answer]
    BY <1>3, Zenon DEF Replay, Answer
  <2>7. UNCHANGED <<replays, clock>> /\ UNCHANGED tables
    BY <1>3, Zenon DEF Replay
  <2>. HIDE DEF answer
  <2>8. [serving[t] EXCEPT !.reply = answer] \in Serving
    BY <2>2, <2>5, Zenon DEF Serving
  <2>9. ServiceType'
    BY <2>6, <2>7, <2>8, Zenon DEF Inv, ServiceType
  <2>. QED  BY <1>1, <2>7, <2>9, Zenon
<1>4. ASSUME NEW t \in Threads, Respond(t) \/ Fail(t) PROVE Inv'
  <2>1. ServiceType' /\ UNCHANGED tables
    BY <1>4, Zenon DEF Respond, Fail, Inv, ServiceType
  <2>. QED  BY <1>1, <2>1, Zenon
<1>5. ASSUME Tick PROVE Inv'
  <2>1. ServiceType' /\ UNCHANGED tables
    BY <1>5, BlobAssumption DEF Tick, Inv, ServiceType, Timestamps
  <2>. QED  BY <1>1, <2>1, Zenon
<1>6. ASSUME UNCHANGED vars PROVE Inv'
  <2>1. ServiceType' /\ UNCHANGED tables
    BY <1>6, Zenon DEF vars, tables, Inv, ServiceType
  <2>. QED  BY <1>1, <2>1, Zenon
<1>. QED  BY <1>2, <1>3, <1>4, <1>5, <1>6, Zenon

\* Every step keeps the invariant.
LEMMA StepInv == Inv /\ [Next]_vars => Inv'
<1>. SUFFICES ASSUME Inv, [Next]_vars PROVE Inv'
  BY Zenon
<1>1. ASSUME NEW t \in Threads, Exchange(t) PROVE Inv'
  BY <1>1, OtherInv, BeginInv, PutInv, CommitInv, GetInv, RenewInv, DeleteInv, Zenon
     DEF Exchange
<1>. QED  BY <1>1, OtherInv, Zenon DEF Next

\* The tables start empty.
LEMMA InitInv == Init => Inv
<1>. SUFFICES ASSUME Init PROVE Inv
  BY Zenon
<1>1. TablesType
  BY Zenon DEF Init, TablesType
<1>2. ServiceType
  BY BlobAssumption DEF Init, ServiceType, Timestamps
<1>3. TablesInv
  BY Zenon DEF Init, TablesInv, StagedAsListed, ObjectsWhole, GrantsCommitted
<1>. QED  BY <1>1, <1>2, <1>3, Zenon DEF Inv

-----------------------------------------------------------------------------

\* The tables keep their types; in particular every lease that BEGIN_UPLOAD or
\* RENEW computes is a 64-bit timestamp.
THEOREM BlobTypeCorrect == Spec => []BlobTypeOK
<1>1. Inv => BlobTypeOK
  BY Zenon DEF Inv, TablesType, ServiceType, BlobTypeOK
<1>. QED  BY <1>1, InitInv, StepInv, PTL DEF Spec

\* CW-BLOB-012, CW-BLOB-013: an upload is committed exactly when its grant
\* exists, and the grant's object then has its own identifier, the manifest the
\* upload began with, and exactly the chunks that manifest lists.
THEOREM PublishedIsWhole == Spec => []PublishedWhole
<1>1. ASSUME Inv PROVE PublishedWhole
  <2>1. \A u \in UploadIds :
          grants[u] # None <=> uploads[u] # None /\ uploads[u].committed # None
    BY <1>1, Zenon DEF Inv, TablesInv, GrantsCommitted
  <2>2. ASSUME NEW u \in UploadIds, grants[u] # None
        PROVE  LET b == grants[u].blob
                   m == objects[b]
               IN  /\ b = uploads[u].committed
                   /\ m = uploads[u].manifest
                   /\ Identify[m] = b
                   /\ {row \in chunks : row[1] = b} =
                        {<<b, i, Chunks[m][i]>> : i \in DOMAIN Chunks[m]}
    <3>. DEFINE b == grants[u].blob
                m == objects[b]
    <3>1. b = uploads[u].committed /\ m = uploads[u].manifest
      BY <1>1, <2>2, Zenon DEF Inv, TablesInv, GrantsCommitted
    <3>2. b \in BlobIds
      BY <1>1, <2>2, Zenon DEF Inv, TablesType, Grant
    <3>3. m \in Manifests /\ m # None
      BY <1>1, <2>1, <2>2, <3>1, BlobAssumption DEF Inv, TablesType, Upload
    <3>4. Chunks[m] \in Seq(Ciphertexts)
      BY <3>3, BlobAssumption, Zenon
    <3>5. /\ Identify[m] = b
          /\ \A i \in Nat, c \in Ciphertexts :
               <<b, i, c>> \in chunks <=> <<i, c>> \in Listed(m)
      BY <1>1, <2>2, <3>2, <3>3, Zenon DEF Inv, TablesInv, ObjectsWhole
    <3>. HIDE DEF b, m
    <3>6. ASSUME NEW row \in chunks, row[1] = b
          PROVE  row \in {<<b, i, Chunks[m][i]>> : i \in DOMAIN Chunks[m]}
      <4>1. PICK i \in Nat, c \in Ciphertexts : row = <<b, i, c>>
        BY <1>1, <3>6 DEF Inv, TablesType
      <4>. QED  BY <3>5, <4>1 DEF Listed
    <3>7. ASSUME NEW i \in DOMAIN Chunks[m]
          PROVE  <<b, i, Chunks[m][i]>> \in {row \in chunks : row[1] = b}
      <4>1. i \in Nat /\ Chunks[m][i] \in Ciphertexts
        BY <3>4
      <4>2. <<i, Chunks[m][i]>> \in Listed(m)
        BY Zenon DEF Listed
      <4>. QED  BY <3>5, <4>1, <4>2, Zenon
    <3>8. {row \in chunks : row[1] = b} =
            {<<b, i, Chunks[m][i]>> : i \in DOMAIN Chunks[m]}
      BY <3>6, <3>7, Zenon
    <3>. QED  BY <3>1, <3>5, <3>8, Zenon DEF b, m
  <2>. QED  BY <2>1, <2>2, Zenon DEF PublishedWhole
<1>. QED  BY <1>1, InitInv, StepInv, PTL DEF Spec

-----------------------------------------------------------------------------
(* Uploads and grants.                                                     *)

Begins(f, u) == f.request.command = "BEGIN_UPLOAD" /\ f.request.upload = u

\* CW-BLOB-001 asks clients to give every upload capabilities of its own; the
\* relay does not check it.  It matters for the renewing one.
OwnCapabilities ==
  \A f, g \in BlobFrames, u, v \in UploadIds :
    Begins(f, u) /\ Begins(g, v) /\ f.request.caps["renew"] = g.request.caps["renew"]
      => u = v

\* An upload, and later its grant, has the capabilities of a BEGIN_UPLOAD.
CapsInv ==
  \A u \in UploadIds :
    /\ uploads[u] # None =>
         \E f \in BlobFrames : Begins(f, u) /\ f.request.caps = uploads[u].caps
    /\ grants[u] # None =>
         \A role \in GrantRoles : grants[u].caps[role] = uploads[u].caps[role]

\* How a step may change the grant of u.
GrantStep(u) ==
  grants[u] # None =>
    /\ grants'[u].caps = grants[u].caps /\ grants'[u].blob = grants[u].blob
    /\ grants'[u].expires_at >= grants[u].expires_at
    /\ grants[u].deleted => grants'[u] = grants[u]
    /\ grants'[u] # grants[u] =>
         \E t \in Threads :
           /\ serving[t] # None
           /\ CapabilityOf(serving[t].frame.request)
                \in {grants[u].caps["renew"], grants[u].caps["delete"]}

\* A grant that is not changed.
LEMMA SameGrant ==
  ASSUME Inv, NEW u \in UploadIds, grants'[u] = grants[u]
  PROVE  GrantStep(u)
<1>1. grants[u] # None => grants[u].expires_at \in Nat
  BY BlobAssumption DEF Inv, TablesType, Grant, Timestamps
<1>2. \A n \in Nat : n >= n
  OBVIOUS
<1>. QED  BY <1>1, <1>2, Zenon DEF GrantStep

\* COMMIT makes a grant where there was none, with its upload's capabilities.
LEMMA CommitGrants ==
  ASSUME Inv, CapsInv, NEW t \in Threads, CommitBlob(t)
  PROVE  CapsInv' /\ \A u \in UploadIds : GrantStep(u)
<1>0. PICK r, at : r = serving[t].frame.request /\ at = serving[t].now
  BY Zenon
<1>1. serving[t] # None /\ r.command = "COMMIT"
  BY <1>0, Zenon DEF CommitBlob, Executes
<1>2. r \in BlobRequest
  BY <1>0, <1>1, ServingFields, Zenon DEF Inv
<1>3. r.upload \in UploadIds /\ r.blob \in BlobIds
  BY <1>1, <1>2, RequestFields, Zenon
<1>4. CASE UNCHANGED <<uploads, grants>>
  <2>1. CapsInv'
    BY <1>4, Zenon DEF CapsInv
  <2>. QED  BY <1>4, <2>1, SameGrant, Zenon
<1>5. CASE /\ CommitRefusal(r, at) = {} /\ uploads[r.upload].committed = None
           /\ Publish(r)
  <2>1. UploadRefusal(r, at) = {}
    BY <1>5, Zenon DEF CommitRefusal
  <2>2. uploads[r.upload] # None /\ grants[r.upload] = None
    BY <1>3, <1>5, <2>1, Zenon DEF UploadRefusal, Inv, TablesInv, GrantsCommitted
  <2>3. \A u \in UploadIds : u # r.upload =>
          grants'[u] = grants[u] /\ uploads'[u] = uploads[u]
    BY <1>5, Zenon DEF Publish, Inv, TablesType
  <2>4. uploads'[r.upload].caps = uploads[r.upload].caps
    BY <1>3, <1>5, <2>2, Zenon DEF Publish, Inv, TablesType, Upload
  <2>5. \A role \in GrantRoles :
          grants'[r.upload].caps[role] = uploads[r.upload].caps[role]
    BY <1>3, <1>5, Zenon DEF Publish, Inv, TablesType
  <2>6. CapsInv'
    BY <1>3, <2>2, <2>3, <2>4, <2>5 DEF CapsInv
  <2>7. ASSUME NEW u \in UploadIds PROVE GrantStep(u)
    <3>1. CASE u = r.upload
      BY <2>2, <3>1, Zenon DEF GrantStep
    <3>2. CASE u # r.upload
      BY <2>3, <3>2, SameGrant, Zenon
    <3>. QED  BY <3>1, <3>2, Zenon
  <2>. QED  BY <2>6, <2>7, Zenon
<1>6. Reject(t, CommitRefusal(r, at)) => UNCHANGED <<uploads, grants>>
  BY Zenon DEF Reject, tables
<1>. QED  BY <1>0, <1>4, <1>5, <1>6, Zenon DEF CommitBlob

\* RENEW extends the one grant that its capability names.
LEMMA RenewGrants ==
  ASSUME OwnCapabilities, Inv, CapsInv, NEW t \in Threads, RenewBlob(t)
  PROVE  CapsInv' /\ \A u \in UploadIds : GrantStep(u)
<1>0. PICK r, at : r = serving[t].frame.request /\ at = serving[t].now
  BY Zenon
<1>1. serving[t] # None /\ r.command = "RENEW"
  BY <1>0, Zenon DEF RenewBlob, Executes
<1>2. r \in BlobRequest /\ at \in Timestamps
  BY <1>0, <1>1, ServingFields, Zenon DEF Inv
<1>3. r.ttl \in Nat /\ CapabilityOf(r) = r.cap
  BY <1>1, <1>2, RequestFields, Zenon DEF CapabilityOf
<1>4. CASE UNCHANGED <<uploads, grants>>
  <2>1. CapsInv'
    BY <1>4, Zenon DEF CapsInv
  <2>. QED  BY <1>4, <2>1, SameGrant, Zenon
<1>5. ASSUME NEW g \in Matching(r, "renew"), NEW expiry,
             expiry = RenewedTo(grants[g].expires_at, at + r.ttl),
             grants' = Renewed(r, expiry), UNCHANGED uploads
      PROVE  CapsInv' /\ \A u \in UploadIds : GrantStep(u)
  <2>1. ASSUME NEW u \in Matching(r, "renew") PROVE u = g
    <3>1. /\ u \in UploadIds /\ grants[u] # None /\ grants[u].caps["renew"] = r.cap
          /\ g \in UploadIds /\ grants[g] # None /\ grants[g].caps["renew"] = r.cap
      BY <1>5, <2>1, Zenon DEF Matching
    <3>2. uploads[u] # None /\ uploads[g] # None
      BY <3>1, Zenon DEF Inv, TablesInv, GrantsCommitted
    <3>3. PICK f \in BlobFrames : Begins(f, u) /\ f.request.caps["renew"] = r.cap
      BY <3>1, <3>2 DEF CapsInv, GrantRoles, Roles
    <3>4. PICK h \in BlobFrames : Begins(h, g) /\ h.request.caps["renew"] = r.cap
      BY <3>1, <3>2, Zenon DEF CapsInv, GrantRoles, Roles
    <3>. QED  BY <3>1, <3>3, <3>4, Zenon DEF OwnCapabilities
  <2>2. ASSUME NEW u \in UploadIds
        PROVE  GrantStep(u) /\ (grants[u] = None => grants'[u] = None)
    <3>1. CASE u \in Matching(r, "renew") /\ ~grants[u].deleted
      <4>1. u = g /\ grants[u] \in Grant /\ grants[u] # None /\ grants[u].caps["renew"] = r.cap
        BY <2>1, <3>1, GrantedIsStored, Zenon DEF Inv, Matching
      <4>2. grants'[u] = [grants[u] EXCEPT !.expires_at = expiry]
        BY <1>5, <3>1, Zenon DEF Renewed
      <4>3. /\ grants'[u].caps = grants[u].caps /\ grants'[u].blob = grants[u].blob
            /\ grants'[u].expires_at = expiry
        BY <4>1, <4>2, Zenon DEF Grant
      <4>4. grants[u].expires_at \in Nat /\ at + r.ttl \in Nat
        BY <1>2, <1>3, <4>1, BlobAssumption DEF Grant, Timestamps
      <4>5. expiry >= grants[u].expires_at
        <5>1. \A x, y \in Nat : RenewedTo(x, y) >= x
          BY DEF RenewedTo
        <5>. QED  BY <1>5, <4>1, <4>4, <5>1, Zenon
      <4>. QED  BY <1>0, <1>1, <1>3, <3>1, <4>1, <4>3, <4>5, Zenon DEF GrantStep
    <3>2. CASE ~(u \in Matching(r, "renew") /\ ~grants[u].deleted)
      <4>1. grants'[u] = grants[u]
        BY <1>5, <3>2, Zenon DEF Renewed
      <4>. QED  BY <4>1, SameGrant, Zenon
    <3>. QED  BY <3>1, <3>2, Zenon
  <2>3. CapsInv'
    BY <1>5, <2>2 DEF CapsInv, GrantStep
  <2>. QED  BY <2>2, <2>3, Zenon
<1>6. ASSUME NEW errors, Reject(t, errors) PROVE UNCHANGED <<uploads, grants>>
  BY <1>6, Zenon DEF Reject, tables
<1>. QED  BY <1>0, <1>4, <1>5, <1>6, Zenon DEF RenewBlob

\* DELETE marks the grants that its capability names.
LEMMA DeleteGrants ==
  ASSUME Inv, CapsInv, NEW t \in Threads, DeleteBlob(t)
  PROVE  CapsInv' /\ \A u \in UploadIds : GrantStep(u)
<1>0. PICK r, at : r = serving[t].frame.request /\ at = serving[t].now
  BY Zenon
<1>1. serving[t] # None /\ r.command = "DELETE"
  BY <1>0, Zenon DEF DeleteBlob, Executes
<1>2. CapabilityOf(r) = r.cap
  BY <1>1, Zenon DEF CapabilityOf
<1>3. CASE UNCHANGED <<uploads, grants>>
  <2>1. CapsInv'
    BY <1>3, Zenon DEF CapsInv
  <2>. QED  BY <1>3, <2>1, SameGrant, Zenon
<1>4. CASE grants' = Deleted(r) /\ UNCHANGED uploads
  <2>1. ASSUME NEW u \in UploadIds
        PROVE  GrantStep(u) /\ (grants[u] = None => grants'[u] = None)
    <3>1. CASE u \in Matching(r, "delete")
      <4>1. grants[u] \in Grant /\ grants[u] # None /\ grants[u].caps["delete"] = r.cap
        BY <3>1, GrantedIsStored, Zenon DEF Inv, Matching
      <4>2. grants'[u] = [grants[u] EXCEPT !.deleted = TRUE]
        BY <1>4, <3>1, Zenon DEF Deleted
      <4>3. /\ grants'[u].caps = grants[u].caps /\ grants'[u].blob = grants[u].blob
            /\ grants'[u].expires_at = grants[u].expires_at
            /\ grants[u].deleted => grants'[u] = grants[u]
        BY <4>1, <4>2, Zenon DEF Grant
      <4>4. grants[u].expires_at \in Nat
        BY <4>1, BlobAssumption DEF Grant, Timestamps
      <4>5. grants'[u].expires_at >= grants[u].expires_at
        BY <4>3, <4>4
      <4>. QED  BY <1>0, <1>1, <1>2, <4>1, <4>3, <4>5, Zenon DEF GrantStep
    <3>2. CASE u \notin Matching(r, "delete")
      <4>1. grants'[u] = grants[u]
        BY <1>4, <3>2, Zenon DEF Deleted
      <4>. QED  BY <4>1, SameGrant, Zenon
    <3>. QED  BY <3>1, <3>2, Zenon
  <2>2. CapsInv'
    BY <1>4, <2>1 DEF CapsInv, GrantStep
  <2>. QED  BY <2>1, <2>2, Zenon
<1>5. ASSUME NEW errors, Reject(t, errors) PROVE UNCHANGED <<uploads, grants>>
  BY <1>5, Zenon DEF Reject, tables
<1>. QED  BY <1>0, <1>3, <1>4, <1>5, Zenon DEF DeleteBlob

\* BEGIN_UPLOAD takes the capabilities from its frame.
LEMMA BeginGrants ==
  ASSUME Inv, CapsInv, NEW t \in Threads, BeginUpload(t)
  PROVE  CapsInv' /\ UNCHANGED grants
<1>0. PICK f, r, at : f = serving[t].frame /\ r = f.request /\ at = serving[t].now
  BY Zenon
<1>1. serving[t] # None /\ r.command = "BEGIN_UPLOAD"
  BY <1>0, Zenon DEF BeginUpload, Executes
<1>2. f \in BlobFrames /\ r \in BlobRequest
  BY <1>0, <1>1, ServingFields, Zenon DEF Inv
<1>3. r.upload \in UploadIds
  BY <1>1, <1>2, RequestFields, Zenon
<1>4. CASE UNCHANGED <<uploads, grants>>
  BY <1>4, Zenon DEF CapsInv
<1>5. ASSUME NEW new, new.caps = r.caps, uploads[r.upload] = None,
             uploads' = [uploads EXCEPT ![r.upload] = new], UNCHANGED grants
      PROVE  CapsInv'
  <2>1. \A u \in UploadIds : u # r.upload => uploads'[u] = uploads[u]
    BY <1>5, Zenon DEF Inv, TablesType
  <2>2. uploads'[r.upload].caps = r.caps
    BY <1>3, <1>5, Zenon DEF Inv, TablesType
  <2>3. Begins(f, r.upload) /\ f.request.caps = r.caps
    BY <1>0, <1>1, Zenon DEF Begins
  <2>4. grants[r.upload] = None
    BY <1>3, <1>5, Zenon DEF Inv, TablesInv, GrantsCommitted
  <2>. QED  BY <1>2, <1>5, <2>1, <2>2, <2>3, <2>4 DEF CapsInv
<1>6. ASSUME NEW errors, Reject(t, errors) PROVE UNCHANGED <<uploads, grants>>
  BY <1>6, Zenon DEF Reject, tables
<1>. QED  BY <1>0, <1>4, <1>5, <1>6, Zenon DEF BeginUpload

\* Every step keeps the capabilities and treats each grant as it should.
LEMMA StepGrants ==
  ASSUME OwnCapabilities, Inv, CapsInv, [Next]_vars
  PROVE  CapsInv' /\ \A u \in UploadIds : GrantStep(u)
<1>1. CASE UNCHANGED <<uploads, grants>>
  <2>1. CapsInv'
    BY <1>1, Zenon DEF CapsInv
  <2>. QED  BY <1>1, <2>1, SameGrant, Zenon
<1>2. ASSUME NEW t \in Threads, PutChunk(t) \/ GetBlob(t) \/ Replay(t)
      PROVE  UNCHANGED <<uploads, grants>>
  <2>1. CASE PutChunk(t)
    BY <2>1, Zenon DEF PutChunk, Reject, tables
  <2>2. CASE GetBlob(t)
    <3>1. UNCHANGED tables
      BY <2>2, Zenon DEF GetBlob, Reject
    <3>. QED  BY <3>1, Zenon DEF tables
  <2>3. CASE Replay(t)
    BY <2>3, Zenon DEF Replay, tables
  <2>. QED  BY <1>2, <2>1, <2>2, <2>3, Zenon
<1>3. ASSUME NEW t \in Threads, BeginUpload(t)
      PROVE  CapsInv' /\ \A u \in UploadIds : GrantStep(u)
  <2>1. CapsInv' /\ UNCHANGED grants
    BY <1>3, BeginGrants, Zenon
  <2>. QED  BY <2>1, SameGrant, Zenon
<1>4. ASSUME NEW t \in Threads, Exchange(t)
      PROVE  CapsInv' /\ \A u \in UploadIds : GrantStep(u)
  BY <1>1, <1>2, <1>3, <1>4, CommitGrants, RenewGrants, DeleteGrants, Zenon DEF Exchange
<1>5. ASSUME NEW t \in Threads, \/ \E f \in BlobFrames : Accept(t, f)
                                \/ Respond(t) \/ Fail(t)
      PROVE  UNCHANGED <<uploads, grants>>
  BY <1>5, Zenon DEF Accept, Respond, Fail, tables
<1>6. Tick \/ UNCHANGED vars => UNCHANGED <<uploads, grants>>
  BY Zenon DEF Tick, vars, tables
<1>. QED  BY <1>1, <1>4, <1>5, <1>6, Zenon DEF Next

\* CW-BLOB-014, CW-BLOB-015: when every upload has a renewing capability of its
\* own, no step shortens a lease, takes a deletion back, or changes a grant that
\* the command's own capability does not name.
THEOREM GrantsAreIndependent == OwnCapabilities => (Spec => GrantsIndependent)
<1>. SUFFICES ASSUME OwnCapabilities PROVE Spec => GrantsIndependent
  BY Zenon
<1>1. Init => Inv /\ CapsInv
  <2>1. Init => CapsInv
    BY Zenon DEF Init, CapsInv
  <2>. QED  BY <2>1, InitInv, Zenon
<1>2. Inv /\ CapsInv /\ [Next]_vars => (Inv /\ CapsInv)'
  BY StepInv, StepGrants, Zenon
<1>3. Inv /\ CapsInv /\ [Next]_vars => [\A u \in UploadIds : GrantStep(u)]_vars
  BY StepGrants, Zenon
<1>4. (\A u \in UploadIds : GrantStep(u)) <=>
      (\A u \in UploadIds : grants[u] # None =>
         /\ grants'[u].caps = grants[u].caps /\ grants'[u].blob = grants[u].blob
         /\ grants'[u].expires_at >= grants[u].expires_at
         /\ grants[u].deleted => grants'[u] = grants[u]
         /\ grants'[u] # grants[u] =>
              \E t \in Threads :
                /\ serving[t] # None
                /\ CapabilityOf(serving[t].frame.request)
                     \in {grants[u].caps["renew"], grants[u].caps["delete"]})
  BY Zenon DEF GrantStep
<1>. QED  BY <1>1, <1>2, <1>3, <1>4, PTL DEF Spec, GrantsIndependent

-----------------------------------------------------------------------------
(* Expiry.                                                                 *)

SoleThread == \A s, t \in Threads : s = t

\* CW-BLOB-001 in full: the capabilities of a grant are those of one upload.
OwnGrantCapabilities ==
  \A f, g \in BlobFrames, u, v \in UploadIds, p, q \in GrantRoles :
    Begins(f, u) /\ Begins(g, v) /\ f.request.caps[p] = g.request.caps[q] => u = v

GrantCommands == {"GET_MANIFEST", "GET_CHUNK", "RENEW", "DELETE"}

\* The record of a command on a grant that was answered EXPIRED.
ExpiredReport(key) ==
  /\ replays[key] # None
  /\ replays[key].response.status = "Expired"
  /\ replays[key].request.request.command \in GrantCommands

Names(r, u) ==
  r.blob = grants[u].blob /\ \E role \in GrantRoles : grants[u].caps[role] = r.cap

\* The lease is over, also for what a thread is serving.
Over(u) ==
  /\ grants[u] # None
  /\ grants[u].expires_at <= clock
  /\ \A t \in Threads : serving[t] # None => grants[u].expires_at <= serving[t].now

\* Relay times are not in the future, and what was reported expired is over.
SampledBefore == \A t \in Threads : serving[t] # None => serving[t].now <= clock
ReportsInv ==
  \A key \in ReplayKeys : ExpiredReport(key) =>
    \E u \in UploadIds : Names(replays[key].request.request, u) /\ Over(u)

\* No two grants go by the same capability.
LEMMA OneGrantNamed ==
  ASSUME OwnGrantCapabilities, Inv, CapsInv, NEW r,
         NEW u \in UploadIds, grants[u] # None, Names(r, u),
         NEW v \in UploadIds, grants[v] # None, Names(r, v)
  PROVE  u = v
<1>1. uploads[u] # None /\ uploads[v] # None
  BY Zenon DEF Inv, TablesInv, GrantsCommitted
<1>2. PICK p \in GrantRoles : grants[u].caps[p] = r.cap
  BY Zenon DEF Names
<1>3. PICK q \in GrantRoles : grants[v].caps[q] = r.cap
  BY Zenon DEF Names
<1>4. PICK f \in BlobFrames : Begins(f, u) /\ f.request.caps[p] = r.cap
  BY <1>1, <1>2, Zenon DEF CapsInv
<1>5. PICK g \in BlobFrames : Begins(g, v) /\ g.request.caps[q] = r.cap
  BY <1>1, <1>3, Zenon DEF CapsInv
<1>. QED  BY <1>4, <1>5, Zenon DEF OwnGrantCapabilities

\* COMMIT, RENEW and DELETE do not touch the lease of a grant that is over.
LEMMA OverKeepsLease ==
  ASSUME OwnGrantCapabilities, Inv, CapsInv, NEW u \in UploadIds, Over(u),
         NEW t \in Threads, CommitBlob(t) \/ RenewBlob(t) \/ DeleteBlob(t)
  PROVE  grants'[u] # None /\ grants'[u].expires_at = grants[u].expires_at
<1>0. PICK r, at : r = serving[t].frame.request /\ at = serving[t].now
  BY Zenon
<1>1. serving[t] # None
  BY Zenon DEF CommitBlob, RenewBlob, DeleteBlob, Executes
<1>2. /\ grants[u] # None /\ grants[u] \in Grant
      /\ grants[u].expires_at \in Nat /\ at \in Nat /\ grants[u].expires_at <= at
  BY <1>0, <1>1, ServingFields, BlobAssumption
     DEF Over, Inv, TablesType, Grant, Timestamps
<1>3. grants'[u] = grants[u] => grants'[u] # None /\ grants'[u].expires_at = grants[u].expires_at
  BY <1>2, Zenon
<1>4. ASSUME NEW errors, Reject(t, errors) PROVE grants'[u] = grants[u]
  BY <1>4, Zenon DEF Reject, tables
<1>5. CASE CommitBlob(t)
  <2>1. CASE CommitRefusal(r, at) = {} /\ uploads[r.upload].committed = None /\ Publish(r)
    <3>1. u # r.upload
      <4>1. UploadRefusal(r, at) = {}
        BY <2>1, Zenon DEF CommitRefusal
      <4>. QED  BY <1>2, <2>1, <4>1, Zenon DEF UploadRefusal, Inv, TablesInv, GrantsCommitted
    <3>2. grants'[u] = grants[u]
      BY <2>1, <3>1, Zenon DEF Publish, Inv, TablesType
    <3>. QED  BY <1>3, <3>2, Zenon
  <2>2. CASE UNCHANGED grants
    BY <1>3, <2>2, Zenon
  <2>. QED  BY <1>0, <1>3, <1>4, <1>5, <2>1, <2>2, Zenon DEF CommitBlob
<1>6. CASE RenewBlob(t)
  <2>1. ASSUME NEW g \in Matching(r, "renew"), LiveAt(g, at), NEW expiry,
               grants' = Renewed(r, expiry)
        PROVE  grants'[u] = grants[u]
    <3>1. CASE u \in Matching(r, "renew")
      <4>1. /\ g \in UploadIds /\ grants[g] # None /\ Names(r, g) /\ Names(r, u)
        BY <2>1, <3>1, Zenon DEF Matching, Names, GrantRoles, Roles
      <4>2. u = g
        BY <1>2, <4>1, OneGrantNamed, Zenon
      <4>. QED  BY <1>2, <2>1, <4>2 DEF LiveAt
    <3>2. CASE u \notin Matching(r, "renew")
      BY <2>1, <3>2, Zenon DEF Renewed
    <3>. QED  BY <3>1, <3>2, Zenon
  <2>. QED  BY <1>0, <1>3, <1>4, <1>6, <2>1, Zenon DEF RenewBlob
<1>7. CASE DeleteBlob(t)
  <2>1. CASE grants' = Deleted(r)
    <3>1. grants'[u] \in {grants[u], [grants[u] EXCEPT !.deleted = TRUE]}
      BY <2>1, Zenon DEF Deleted
    <3>2. [grants[u] EXCEPT !.deleted = TRUE] \in Grant
      BY <1>2, Zenon DEF Grant
    <3>3. [grants[u] EXCEPT !.deleted = TRUE].expires_at = grants[u].expires_at
      BY <1>2, Zenon DEF Grant
    <3>. QED  BY <1>2, <3>1, <3>2, <3>3, NoneAssumption, Zenon
  <2>. QED  BY <1>0, <1>3, <1>4, <1>7, <2>1, Zenon DEF DeleteBlob
<1>. QED  BY <1>5, <1>6, <1>7, Zenon

\* Nor does any other step.
LEMMA LeaseStep ==
  ASSUME OwnGrantCapabilities, Inv, CapsInv, [Next]_vars,
         NEW u \in UploadIds, Over(u)
  PROVE  grants'[u] # None /\ grants'[u].expires_at = grants[u].expires_at
<1>1. CASE UNCHANGED grants
  BY <1>1, Zenon DEF Over
<1>2. ASSUME NEW t \in Threads, PutChunk(t) \/ GetBlob(t) \/ Replay(t) \/ BeginUpload(t)
      PROVE  UNCHANGED grants
  <2>1. CASE PutChunk(t)
    BY <2>1, Zenon DEF PutChunk, Reject, tables
  <2>2. CASE GetBlob(t)
    <3>1. UNCHANGED tables
      BY <2>2, Zenon DEF GetBlob, Reject
    <3>. QED  BY <3>1, Zenon DEF tables
  <2>3. CASE Replay(t)
    BY <2>3, Zenon DEF Replay, tables
  <2>4. CASE BeginUpload(t)
    BY <2>4, BeginGrants, Zenon
  <2>. QED  BY <1>2, <2>1, <2>2, <2>3, <2>4, Zenon
<1>3. ASSUME NEW t \in Threads, Exchange(t)
      PROVE  grants'[u] # None /\ grants'[u].expires_at = grants[u].expires_at
  BY <1>1, <1>2, <1>3, OverKeepsLease, Zenon DEF Exchange
<1>4. ASSUME NEW t \in Threads, \/ \E f \in BlobFrames : Accept(t, f)
                                \/ Respond(t) \/ Fail(t)
      PROVE  UNCHANGED grants
  BY <1>4, Zenon DEF Accept, Respond, Fail, tables
<1>5. Tick \/ UNCHANGED vars => UNCHANGED grants
  BY Zenon DEF Tick, vars, tables
<1>. QED  BY <1>1, <1>3, <1>4, <1>5, Zenon DEF Next

\* A command that names a grant whose lease ends by the command's relay time.
NamesOver(t) ==
  \E u \in UploadIds : /\ grants[u] # None
                       /\ Names(serving[t].frame.request, u)
                       /\ grants[u].expires_at <= serving[t].now

\* authorize_grant answers EXPIRED only when the grant it found is over.
LEMMA ExpiredIsOver ==
  ASSUME Inv, NEW t \in Threads, serving[t] # None, NEW role \in GrantRoles,
         "Expired" \in GrantRefusal(serving[t].frame.request, role, serving[t].now)
  PROVE  NamesOver(t)
<1>0. PICK r, at : r = serving[t].frame.request /\ at = serving[t].now
  BY Zenon
<1>1. PICK g \in Matching(r, role) :
        ~LiveAt(g, at) /\ "Expired" = (IF grants[g].deleted THEN "NotFound" ELSE "Expired")
  BY <1>0, SMT DEF GrantRefusal
<1>2. g \in UploadIds /\ grants[g] # None /\ Names(r, g)
  BY <1>1, Zenon DEF Matching, Names
<1>3. ~(at < grants[g].expires_at)
  BY <1>1, Zenon DEF LiveAt
<1>4. at \in Nat /\ grants[g].expires_at \in Nat
  BY <1>0, <1>2, ServingFields, BlobAssumption DEF Inv, TablesType, Grant, Timestamps
<1>5. grants[g].expires_at <= at
  BY <1>3, <1>4
<1>. QED  BY <1>0, <1>2, <1>5, Zenon DEF NamesOver

\* What a command on a grant records.
Tells(t) ==
  \E reply : /\ Record(t, reply)
             /\ reply.status = "Expired" => UNCHANGED tables /\ NamesOver(t)

\* A refusal is recorded as it is.
LEMMA RefusalTells ==
  ASSUME NEW t \in Threads, NEW errors, Reject(t, errors),
         "Expired" \in errors => NamesOver(t)
  PROVE  Tells(t)
<1>1. PICK error \in errors : Record(t, Status(error))
  BY Zenon DEF Reject
<1>2. UNCHANGED tables
  BY Zenon DEF Reject
<1>3. Status(error).status = error
  BY Zenon DEF Status
<1>. QED  BY <1>1, <1>2, <1>3, Zenon DEF Tells

\* A success is not EXPIRED.
LEMMA LeaseTells ==
  ASSUME NEW t \in Threads, NEW status, status # "Expired", NEW expiry, NEW content,
         Record(t, Leased(status, expiry, content))
  PROVE  Tells(t)
<1>1. Leased(status, expiry, content).status = status
  BY Zenon DEF Leased
<1>. QED  BY <1>1, Zenon DEF Tells

\* GET_MANIFEST, GET_CHUNK, RENEW and DELETE report expiry only when it is so.
LEMMA GrantCommandTells ==
  ASSUME Inv, NEW t \in Threads, GetBlob(t) \/ RenewBlob(t) \/ DeleteBlob(t)
  PROVE  Tells(t)
<1>0. PICK r, at : r = serving[t].frame.request /\ at = serving[t].now
  BY Zenon
<1>1. serving[t] # None
  BY Zenon DEF GetBlob, RenewBlob, DeleteBlob, Executes
<1>2. \A role \in GrantRoles : "Expired" \in GrantRefusal(r, role, at) => NamesOver(t)
  BY <1>0, <1>1, ExpiredIsOver, Zenon
<1>3. "download" \in GrantRoles /\ "renew" \in GrantRoles /\ "delete" \in GrantRoles
  BY Zenon DEF GrantRoles, Roles
<1>4. CASE GetBlob(t)
  <2>1. "Expired" \notin ObjectRefusal(r)
    BY Zenon DEF ObjectRefusal
  <2>2. CASE Reject(t, GrantRefusal(r, "download", at))
    BY <1>2, <1>3, <2>2, RefusalTells, Zenon
  <2>3. CASE Reject(t, ObjectRefusal(r))
    BY <2>1, <2>3, RefusalTells, Zenon
  <2>4. ASSUME NEW expiry, NEW manifest, NEW chunk,
               Record(t, IF r.command = "GET_MANIFEST" THEN Leased("Manifest", expiry, manifest)
                         ELSE Leased("Chunk", expiry, chunk))
        PROVE  Tells(t)
    <3>1. CASE r.command = "GET_MANIFEST"
      BY <2>4, <3>1, LeaseTells, Zenon
    <3>2. CASE r.command # "GET_MANIFEST"
      BY <2>4, <3>2, LeaseTells, Zenon
    <3>. QED  BY <3>1, <3>2, Zenon
  <2>. QED  BY <1>0, <1>4, <2>2, <2>3, <2>4, Zenon DEF GetBlob
<1>5. CASE RenewBlob(t)
  <2>1. "Expired" \notin TtlRefusal(r, at)
    BY Zenon DEF TtlRefusal
  <2>2. ASSUME NEW errors, Reject(t, errors),
               errors = IF TtlRefusal(r, at) # {} THEN TtlRefusal(r, at)
                        ELSE GrantRefusal(r, "renew", at)
        PROVE  Tells(t)
    <3>1. "Expired" \in errors => NamesOver(t)
      BY <1>2, <1>3, <2>1, <2>2, Zenon
    <3>. QED  BY <2>2, <3>1, RefusalTells, Zenon
  <2>3. ASSUME NEW expiry, Record(t, Leased("Renewed", expiry, None)) PROVE Tells(t)
    BY <2>3, LeaseTells, Zenon
  <2>. QED  BY <1>0, <1>5, <2>2, <2>3, Zenon DEF RenewBlob
<1>6. CASE DeleteBlob(t)
  <2>1. CASE Reject(t, GrantRefusal(r, "delete", at))
    BY <1>2, <1>3, <2>1, RefusalTells, Zenon
  <2>2. CASE Record(t, Status("Deleted"))
    <3>1. Status("Deleted").status = "Deleted"
      BY Zenon DEF Status
    <3>. QED  BY <2>2, <3>1, Zenon DEF Tells
  <2>. QED  BY <1>0, <1>6, <2>1, <2>2, Zenon DEF DeleteBlob
<1>. QED  BY <1>4, <1>5, <1>6, Zenon

Records(t) == \E reply : Record(t, reply)

\* The other commands record their own request, which is not about a grant.
LEMMA UploadCommandRecords ==
  ASSUME NEW t \in Threads, BeginUpload(t) \/ PutChunk(t) \/ CommitBlob(t)
  PROVE  /\ serving[t].frame.request.command \notin GrantCommands
         /\ Records(t)
<1>0. PICK r, at : r = serving[t].frame.request /\ at = serving[t].now
  BY Zenon
<1>1. serving[t].frame.request.command \in {"BEGIN_UPLOAD", "PUT_CHUNK", "COMMIT"}
  BY Zenon DEF BeginUpload, PutChunk, CommitBlob, Executes
<1>2. ASSUME NEW errors, Reject(t, errors) PROVE Records(t)
  BY <1>2, Zenon DEF Reject, Records
<1>3. ASSUME NEW reply, Record(t, reply) PROVE Records(t)
  BY <1>3, Zenon DEF Records
<1>4. CASE BeginUpload(t)
  BY <1>0, <1>1, <1>2, <1>3, <1>4, Zenon DEF BeginUpload, GrantCommands
<1>5. CASE PutChunk(t)
  BY <1>0, <1>1, <1>2, <1>3, <1>5, Zenon DEF PutChunk, GrantCommands
<1>6. CASE CommitBlob(t)
  BY <1>0, <1>1, <1>2, <1>3, <1>6, Zenon DEF CommitBlob, GrantCommands
<1>. QED  BY <1>4, <1>5, <1>6, Zenon

\* Time does not run backwards, and a thread keeps the time it sampled.
TimesKept ==
  /\ SampledBefore'
  /\ clock <= clock'
  /\ \A t \in Threads : serving'[t] # None =>
       \/ serving'[t].now = clock'
       \/ serving[t] # None /\ serving'[t].now = serving[t].now

\* Every step keeps the sampled times in order, unless the clock is set back.
LEMMA TimesStep ==
  ASSUME ClockMayStepBack = FALSE, Inv, SampledBefore, [Next]_vars
  PROVE  TimesKept
<1>0. /\ clock \in Nat /\ serving \in [Threads -> Serving \cup {None}]
      /\ \A t \in Threads : serving[t] # None => serving[t] \in Serving /\ serving[t].now \in Nat
  BY BlobAssumption DEF Inv, ServiceType, Serving, Timestamps
<1>1. ASSUME NEW t \in Threads, serving[t] # None, NEW reply, Answer(t, reply), UNCHANGED clock
      PROVE  TimesKept
  <2>1. serving'[t].now = serving[t].now
    BY <1>0, <1>1, Zenon DEF Answer, Serving
  <2>2. \A s \in Threads : s # t => serving'[s] = serving[s]
    BY <1>0, <1>1, Zenon DEF Answer
  <2>. QED  BY <1>0, <1>1, <2>1, <2>2 DEF TimesKept, SampledBefore
<1>2. ASSUME NEW t \in Threads, Exchange(t) PROVE TimesKept
  <2>1. serving[t] # None
    BY <1>2, Zenon DEF Exchange, Replay, BeginUpload, PutChunk, CommitBlob, GetBlob,
                RenewBlob, DeleteBlob, Executes
  <2>2. \E reply : Answer(t, reply) /\ UNCHANGED clock
    <3>1. CASE Replay(t)
      BY <3>1, Zenon DEF Replay
    <3>2. ASSUME NEW reply, Record(t, reply) PROVE Answer(t, reply) /\ UNCHANGED clock
      BY <3>2, Zenon DEF Record
    <3>. QED  BY <1>2, <3>1, <3>2, GrantCommandTells, UploadCommandRecords, Zenon
              DEF Exchange, Tells, Records
  <2>. QED  BY <1>1, <2>1, <2>2, Zenon
<1>3. ASSUME NEW t \in Threads, NEW f \in BlobFrames, Accept(t, f) PROVE TimesKept
  BY <1>0, <1>3 DEF Accept, TimesKept, SampledBefore
<1>4. ASSUME NEW t \in Threads, Respond(t) \/ Fail(t) PROVE TimesKept
  BY <1>0, <1>4 DEF Respond, Fail, TimesKept, SampledBefore
<1>5. CASE Tick
  <2>1. clock' = clock + 1 /\ serving' = serving
    BY <1>5, Zenon DEF Tick
  <2>. QED  BY <1>0, <2>1 DEF TimesKept, SampledBefore
<1>6. CASE UNCHANGED vars
  BY <1>0, <1>6 DEF vars, TimesKept, SampledBefore
<1>. QED  BY <1>2, <1>3, <1>4, <1>5, <1>6, Zenon DEF Next

\* A grant that is over stays over.
LEMMA OverStays ==
  ASSUME ClockMayStepBack = FALSE, OwnGrantCapabilities, Inv, CapsInv, SampledBefore, [Next]_vars,
         NEW u \in UploadIds, Over(u)
  PROVE  Over(u)'
<1>1. grants'[u] # None /\ grants'[u].expires_at = grants[u].expires_at
  BY LeaseStep, Zenon
<1>2. TimesKept /\ Inv'
  BY TimesStep, StepInv, Zenon
<1>3. grants[u].expires_at \in Nat /\ clock \in Nat /\ clock' \in Nat
  BY <1>2, BlobAssumption DEF Over, Inv, TablesType, ServiceType, Grant, Timestamps
<1>. QED  BY <1>1, <1>2, <1>3 DEF TimesKept, Over

\* A grant goes by the same names as long as it exists.
LEMMA NamesStay ==
  ASSUME NEW u \in UploadIds, grants[u] # None, GrantStep(u), NEW r, Names(r, u)
  PROVE  Names(r, u)'
BY Zenon DEF GrantStep, Names

\* With one thread, what is reported expired is over from then on.
LEMMA ReportsStep ==
  ASSUME ClockMayStepBack = FALSE, SoleThread, OwnGrantCapabilities,
         OwnCapabilities, Inv, CapsInv, SampledBefore, ReportsInv, [Next]_vars
  PROVE  ReportsInv'
<1>. SUFFICES ASSUME NEW key \in ReplayKeys, ExpiredReport(key)'
              PROVE  (\E u \in UploadIds :
                        Names(replays[key].request.request, u) /\ Over(u))'
  BY Zenon DEF ReportsInv
<1>1. \A u \in UploadIds : GrantStep(u)
  BY StepGrants, Zenon
<1>2. CASE replays'[key] = replays[key]
  <2>1. ExpiredReport(key)
    BY <1>2, Zenon DEF ExpiredReport
  <2>2. PICK u \in UploadIds : Names(replays[key].request.request, u) /\ Over(u)
    BY <2>1, Zenon DEF ReportsInv
  <2>3. Over(u)'
    BY <2>2, OverStays, Zenon
  <2>4. ASSUME NEW r, Names(r, u) PROVE Names(r, u)'
    BY <1>1, <2>2, <2>4, NamesStay, Zenon DEF Over
  <2>5. Names(replays[key].request.request, u)'
    BY <1>2, <2>2, <2>4, Zenon DEF Names
  <2>. QED  BY <2>3, <2>5, Zenon
<1>3. CASE replays'[key] # replays[key]
  <2>1. PICK t \in Threads : Exchange(t)
    BY <1>3, Zenon DEF Next, Accept, Respond, Fail, Tick, vars
  <2>2. serving[t] # None
    BY <2>1, Zenon DEF Exchange, Replay, BeginUpload, PutChunk, CommitBlob, GetBlob,
                RenewBlob, DeleteBlob, Executes
  <2>3. ASSUME NEW reply, Record(t, reply)
        PROVE  /\ replays'[key].request = serving[t].frame
               /\ replays'[key].response = reply
    BY <1>3, <2>3, Zenon DEF Record, Inv, ServiceType
  <2>4. ~Replay(t)
    BY <1>3, Zenon DEF Replay
  <2>5. ~(BeginUpload(t) \/ PutChunk(t) \/ CommitBlob(t))
    BY <2>3, UploadCommandRecords, Zenon DEF Records, ExpiredReport
  <2>6. Tells(t)
    BY <2>1, <2>4, <2>5, GrantCommandTells, Zenon DEF Exchange
  <2>7. UNCHANGED tables /\ NamesOver(t)
    BY <2>3, <2>6, Zenon DEF Tells, ExpiredReport
  <2>8. PICK u \in UploadIds : /\ grants[u] # None
                               /\ Names(serving[t].frame.request, u)
                               /\ grants[u].expires_at <= serving[t].now
    BY <2>7, Zenon DEF NamesOver
  <2>9. Over(u)
    <3>1. /\ grants[u].expires_at \in Nat /\ serving[t].now \in Nat /\ clock \in Nat
          /\ serving[t].now <= clock
      BY <2>2, <2>8, ServingFields, BlobAssumption
         DEF Inv, TablesType, ServiceType, Grant, Timestamps, SampledBefore
    <3>. QED  BY <2>8, <3>1 DEF Over, SoleThread
  <2>10. replays'[key].request = serving[t].frame
    BY <2>3, <2>6, Zenon DEF Tells
  <2>11. grants' = grants
    BY <2>7, Zenon DEF tables
  <2>12. Names(replays[key].request.request, u)'
    BY <2>8, <2>10, <2>11, Zenon DEF Names
  <2>. QED  BY <2>9, <2>12, OverStays, Zenon
<1>. QED  BY <1>2, <1>3, Zenon

\* CW-BLOB-017: when commands run in the order of their relay times, as they do
\* with one thread and a clock that is not set back, and every upload has
\* capabilities of its own, no step changes the lease of a grant that the relay
\* has reported expired.
THEOREM ExpiredStaysExpired ==
  ClockMayStepBack = FALSE /\ SoleThread /\ OwnGrantCapabilities
    => (Spec => ExpiryIsFinal)
<1>. SUFFICES ASSUME ClockMayStepBack = FALSE, SoleThread, OwnGrantCapabilities
              PROVE  Spec => ExpiryIsFinal
  BY Zenon
<1>0. OwnCapabilities
  BY DEF OwnCapabilities, OwnGrantCapabilities, GrantRoles, Roles
<1>. DEFINE FinalInv == Inv /\ CapsInv /\ SampledBefore /\ ReportsInv
            Final(u) == grants[u] # None /\ grants'[u].expires_at # grants[u].expires_at =>
                          ~ReportedExpired(u)
<1>1. Init => FinalInv
  <2>1. Init => CapsInv /\ SampledBefore /\ ReportsInv
    BY Zenon DEF Init, CapsInv, SampledBefore, ReportsInv, ExpiredReport
  <2>. QED  BY <2>1, InitInv, Zenon
<1>2. FinalInv /\ [Next]_vars => FinalInv'
  BY <1>0, StepInv, StepGrants, TimesStep, ReportsStep, Zenon DEF TimesKept
<1>3. FinalInv /\ [Next]_vars => [\A u \in UploadIds : Final(u)]_vars
  <2>. SUFFICES ASSUME FinalInv, [Next]_vars, NEW u \in UploadIds, grants[u] # None,
                       ReportedExpired(u)
                PROVE  grants'[u].expires_at = grants[u].expires_at
    BY Zenon
  <2>1. PICK key \in ReplayKeys :
          ExpiredReport(key) /\ Names(replays[key].request.request, u)
    BY Zenon DEF ReportedExpired, ExpiredReport, Names, GrantCommands
  <2>2. PICK v \in UploadIds : Names(replays[key].request.request, v) /\ Over(v)
    BY <2>1, Zenon DEF ReportsInv
  <2>3. u = v
    BY <2>1, <2>2, OneGrantNamed, Zenon DEF Over
  <2>. QED  BY <2>2, <2>3, LeaseStep, Zenon
<1>. QED  BY <1>1, <1>2, <1>3, PTL DEF Spec, ExpiryIsFinal
=============================================================================
