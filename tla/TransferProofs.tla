----------------------------- MODULE TransferProofs -----------------------------
(***************************************************************************)
(* An upload that is lost, repeated or half saved on the way stays true,   *)
(* and what is downloaded of it is whole.                                  *)
(***************************************************************************)
EXTENDS BlobDownload, BlobRelayProofs

\* A frame the network may still deliver or the relay has seen.
Sent(f) ==
  \/ f \in wire
  \/ \E t \in Threads : serving[t] # None /\ serving[t].frame = f
  \/ \E key \in ReplayKeys : replays[key] # None /\ replays[key].request = f

OnRecord(f) == replays[KeyOf(f)] # None /\ replays[KeyOf(f)].request = f
Recorded(f) == replays[KeyOf(f)].response

\* Records stand under the keys of their frames, and a thread that is about to
\* report success reports what is on record.
RecordsKeyed ==
  /\ \A key \in ReplayKeys : replays[key] # None => KeyOf(replays[key].request) = key
  /\ \A t \in Threads, f \in BlobFrames :
       /\ serving[t] # None /\ serving[t].frame = f
       /\ serving[t].reply # None /\ Succeeded(serving[t].reply)
       => OnRecord(f) /\ Recorded(f) = serving[t].reply

\* What the relay holds of the upload is what the uploader began, with a lease no
\* shorter than asked for; nothing is deleted.
OwnTables ==
  /\ uploads[Mine] # None =>
       /\ uploads[Mine].caps = MyCaps /\ uploads[Mine].manifest = MyManifest
       /\ uploads[Mine].expires_at >= MyTtl
       /\ \E f \in MyFrames : OnRecord(f) /\ f.request = StageRequest(0)
  /\ grants[Mine] # None =>
       /\ grants[Mine].expires_at >= MyTtl
       /\ grants[Mine].caps["download"] = MyCaps["download"]
  /\ \A u \in UploadIds : grants[u] # None => ~grants[u].deleted

\* A frame is sent when all that comes before it is done.
SentInOrder ==
  /\ \A f \in MyFrames, s \in 0 .. Commit :
       Sent(f) /\ f.request = StageRequest(s) => DoneBefore(s)
  /\ \A f \in DownloadFrames : Sent(f) => DoneBefore(Complete)

\* What the relay has recorded of an upload's frame is true, or that it came too
\* late; what it has recorded of a download's is the part asked for.
RecordsTrue ==
  /\ \A f \in MyFrames, s \in 0 .. Commit :
       OnRecord(f) /\ f.request = StageRequest(s) =>
         IF Succeeded(Recorded(f)) THEN DoneBefore(s + 1) ELSE OutOfTime(Recorded(f))
  /\ \A f \in DownloadFrames, i \in 0 .. Len(Chunks[MyManifest]) :
       OnRecord(f) /\ f.request = GetRequest(i) =>
         IF Succeeded(Recorded(f))
         THEN Recorded(f).content = IF i = 0 THEN MyManifest
                                    ELSE Chunks[MyManifest][i]
         ELSE Recorded(f).status = "Expired"

\* Where the uploader stands, in memory or in its store: every frame sent belongs
\* to an earlier stage or is the pending one.
Standing(state) ==
  /\ Restorable(state)
  /\ DoneBefore(state.stage)
  /\ state.pending # None => state.pending.request_id < nextId
  /\ \A f \in MyFrames : Sent(f) =>
       /\ state.pending # None /\ f.request_id = state.pending.request_id =>
            f = state.pending
       /\ \A s \in 0 .. Commit : f.request = StageRequest(s) =>
            s < state.stage \/ (s = state.stage /\ f = state.pending)

UploadInv ==
  /\ stage \in Nat /\ pending \in MyFrames \cup {None} /\ nextId \in Nat \ {0}
  /\ saved \in [stage : Nat, pending : MyFrames \cup {None}]
  /\ wire \subseteq BlobFrames
  /\ waiting => pending # None
  /\ Standing([stage |-> stage, pending |-> pending]) /\ Standing(saved)
  /\ \A f \in MyFrames : Sent(f) => f.request_id < nextId
  /\ \A f, g \in MyFrames :
       Sent(f) /\ Sent(g) /\ f.request = g.request => f = g

\* What the downloader has is the beginning of the blob, and what it asks for is
\* the next part.
NextPart == IF got.manifest = None THEN 0 ELSE Len(got.chunks) + 1
DownloadInv ==
  /\ nextGet \in Nat \ {0}
  /\ got \in [manifest : {None, MyManifest}, chunks : Seq(Ciphertexts)]
  /\ Len(got.chunks) <= Len(Chunks[MyManifest])
  /\ got.manifest = None => got.chunks = <<>>
  /\ \A i \in DOMAIN got.chunks : got.chunks[i] = Chunks[MyManifest][i]
  /\ asked # None =>
       /\ asked \in DownloadFrames /\ asked.request_id < nextGet
       /\ asked.request = GetRequest(NextPart)
       /\ NextPart \in 0 .. Len(Chunks[MyManifest])
  /\ \A f \in DownloadFrames : Sent(f) =>
       /\ f.request_id < nextGet
       /\ asked # None /\ f.request_id = asked.request_id => f = asked

TransferInv ==
  /\ RecordsKeyed /\ OwnTables /\ SentInOrder /\ RecordsTrue
  /\ UploadInv /\ DownloadInv

-----------------------------------------------------------------------------
(* The frames of one upload and its downloads.                             *)

\* The blob has finitely many chunks, and a stage for each.
LEMMA BlobLength ==
  /\ Chunks[MyManifest] \in Seq(Ciphertexts)
  /\ Len(Chunks[MyManifest]) \in Nat
  /\ DOMAIN Chunks[MyManifest] = 1 .. Len(Chunks[MyManifest])
  /\ \A i \in 1 .. Len(Chunks[MyManifest]) : Chunks[MyManifest][i] \in Ciphertexts
  /\ Commit = Len(Chunks[MyManifest]) + 1 /\ Complete = Len(Chunks[MyManifest]) + 2
<1>1. Chunks[MyManifest] \in Seq(Ciphertexts)
  BY BlobAssumption, UploadAssumption, Zenon
<1>2. Len(Chunks[MyManifest]) \in Nat
  BY <1>1
<1> QED BY <1>1, <1>2 DEF Commit, Complete

\* Each stage has its request.
LEMMA StageFields ==
  ASSUME NEW s \in 0 .. Commit
  PROVE  LET r == StageRequest(s)
         IN  /\ r.upload = Mine
             /\ s = 0 => /\ r.command = "BEGIN_UPLOAD" /\ r.caps = MyCaps
                         /\ r.manifest = MyManifest /\ r.ttl = MyTtl
             /\ s \in 1 .. Len(Chunks[MyManifest]) =>
                  /\ r.command = "PUT_CHUNK" /\ r.cap = MyCaps["upload"]
                  /\ r.index = s /\ r.ciphertext = Chunks[MyManifest][s]
             /\ s = Commit => /\ r.command = "COMMIT" /\ r.cap = MyCaps["upload"]
                              /\ r.blob = Identify[MyManifest]
             /\ s = 0 \/ s = Commit \/ s \in 1 .. Len(Chunks[MyManifest])
             /\ r.command \in {"BEGIN_UPLOAD", "PUT_CHUNK", "COMMIT"}
<1>1. CASE s = 0
  BY <1>1, BlobLength DEF StageRequest
<1>2. CASE s = Commit
  BY <1>2, BlobLength DEF StageRequest
<1>3. CASE s # 0 /\ s # Commit
  BY <1>3, BlobLength DEF StageRequest
<1> QED BY <1>1, <1>2, <1>3, Zenon

\* Different stages have different requests.
LEMMA StageDistinct ==
  ASSUME NEW s \in 0 .. Commit, NEW n \in 0 .. Commit,
         StageRequest(s) = StageRequest(n)
  PROVE  s = n
<1>1. CASE s = 0
  BY <1>1, BlobLength, StageFields, Zenon
<1>2. CASE s = Commit
  BY <1>2, BlobLength, StageFields, Zenon
<1>3. CASE s \in 1 .. Len(Chunks[MyManifest])
  BY <1>3, BlobLength, StageFields, Zenon
<1> QED BY <1>1, <1>2, <1>3, StageFields, Zenon

\* A downloader's request is for the manifest or a chunk.
LEMMA GetFields ==
  ASSUME NEW i \in 0 .. Len(Chunks[MyManifest])
  PROVE  LET r == GetRequest(i)
         IN  /\ r.blob = MyBlob /\ r.cap = MyCaps["download"]
             /\ i = 0 => r.command = "GET_MANIFEST"
             /\ i # 0 => r.command = "GET_CHUNK" /\ r.index = i
BY Zenon DEF GetRequest

\* It is never one of the uploader's.
LEMMA KindsApart ==
  ASSUME NEW s \in 0 .. Commit, NEW i \in 0 .. Len(Chunks[MyManifest])
  PROVE  StageRequest(s) # GetRequest(i)
<1>1. StageRequest(s).command \in {"BEGIN_UPLOAD", "PUT_CHUNK", "COMMIT"}
  BY StageFields, Zenon
<1>2. GetRequest(i).command \in {"GET_MANIFEST", "GET_CHUNK"}
  BY GetFields, Zenon
<1> QED BY <1>1, <1>2, Zenon

\* The frames of the instance.
LEMMA FrameKinds ==
  ASSUME NEW f \in BlobFrames
  PROVE  /\ f.request_id \in Nat
         /\ \/ /\ f \in MyFrames
               /\ \E s \in 0 .. Commit : f.request = StageRequest(s)
               /\ f.request.command \in {"BEGIN_UPLOAD", "PUT_CHUNK", "COMMIT"}
            \/ /\ f \in DownloadFrames
               /\ \E i \in 0 .. Len(Chunks[MyManifest]) : f.request = GetRequest(i)
               /\ f.request.command \in {"GET_MANIFEST", "GET_CHUNK"}
<1>1. CASE f \in MyFrames
  <2>1. PICK id \in 1 .. MaxId, s \in 0 .. Commit :
          f = [request_id |-> id, request |-> StageRequest(s)]
    BY <1>1 DEF MyFrames
  <2> QED BY <1>1, <2>1, UploadAssumption, StageFields
<1>2. CASE f \in DownloadFrames
  <2>1. PICK id \in 1 .. MaxGets, i \in 0 .. Len(Chunks[MyManifest]) :
          f = [request_id |-> id, request |-> GetRequest(i)]
    BY <1>2 DEF DownloadFrames
  <2> QED BY <1>2, <2>1, DownloadAssumption, GetFields
<1> QED BY <1>1, <1>2, DownloadAssumption, Zenon

-----------------------------------------------------------------------------
(* What the relay does to them.                                            *)

\* Nothing the relay has of the upload goes away.
TablesGrow ==
  /\ uploads[Mine] # None => /\ uploads'[Mine] # None
                             /\ uploads'[Mine].caps = uploads[Mine].caps
                             /\ uploads'[Mine].manifest = uploads[Mine].manifest
  /\ staged \subseteq staged'
  /\ grants[Mine] # None => grants'[Mine] = grants[Mine]

\* So what is done stays done.
LEMMA DoneStays ==
  ASSUME TablesGrow
  PROVE  \A s : DoneBefore(s) => DoneBefore(s)'
BY Zenon DEF TablesGrow, DoneBefore

\* The grant of the upload is for its blob, which is stored.
LEMMA OwnGrant ==
  ASSUME Inv, OwnTables, grants[Mine] # None
  PROVE  /\ grants[Mine].blob = MyBlob /\ objects[MyBlob] = MyManifest
         /\ uploads[Mine] # None /\ uploads[Mine].committed = MyBlob
         /\ grants[Mine].expires_at >= MyTtl
<1>1. Mine \in UploadIds /\ grants[Mine] \in Grant
  BY UploadAssumption, Zenon DEF Inv, TablesType
<1>2. /\ uploads[Mine] # None /\ uploads[Mine].committed = grants[Mine].blob
      /\ objects[grants[Mine].blob] = MyManifest
  BY <1>1, Zenon DEF Inv, TablesInv, GrantsCommitted, OwnTables
<1>3. Identify[MyManifest] = grants[Mine].blob
  BY <1>1, <1>2, UploadAssumption, BlobAssumption, Zenon
     DEF Inv, TablesInv, ObjectsWhole, Grant
<1> QED BY <1>2, <1>3, Zenon DEF MyBlob, OwnTables

\* The answer a frame should have.
TrueAnswer(f, reply) ==
  /\ \A s \in 0 .. Commit : f.request = StageRequest(s) =>
       IF Succeeded(reply) THEN DoneBefore(s + 1)' ELSE OutOfTime(reply)
  /\ \A i \in 0 .. Len(Chunks[MyManifest]) : f.request = GetRequest(i) =>
       IF Succeeded(reply)
       THEN reply.content = IF i = 0 THEN MyManifest ELSE Chunks[MyManifest][i]
       ELSE reply.status = "Expired"

\* What the exchange with a frame that is not on record comes to.
Outcome(t, f) ==
  \E reply \in Reply :
    /\ Record(t, reply)
    /\ TablesGrow
    /\ TrueAnswer(f, reply)
    /\ uploads'[Mine] # None =>
         /\ uploads'[Mine].caps = MyCaps /\ uploads'[Mine].manifest = MyManifest
         /\ uploads'[Mine].expires_at >= MyTtl
         /\ uploads[Mine] # None \/ f.request = StageRequest(0)
    /\ grants'[Mine] # None =>
         /\ grants'[Mine].expires_at >= MyTtl
         /\ grants'[Mine].caps["download"] = MyCaps["download"]
    /\ \A u \in UploadIds : grants'[u] # None => ~grants'[u].deleted

\* A refusal for lack of time changes nothing.
LEMMA RefusedLate ==
  ASSUME Inv, OwnTables, NEW t \in Threads, NEW f,
         NEW errors, Reject(t, errors),
         \/ errors \subseteq {"Expired"}
         \/ errors \subseteq {"LimitOutOfRange"} /\ f.request = StageRequest(0)
  PROVE  Outcome(t, f)
<1>1. PICK error \in errors : Record(t, Status(error))
  BY Zenon DEF Reject
<1>2. /\ Status(error) \in Reply /\ Status(error).status = error
      /\ ~Succeeded(Status(error)) /\ OutOfTime(Status(error))
  BY BlobAssumption DEF Status, Reply, Timestamps, Succeeded, OutOfTime, BlobErrors
<1>3. UNCHANGED <<uploads, staged, grants>>
  BY Zenon DEF Reject, tables
<1>4. TrueAnswer(f, Status(error))
  <2>1. 0 \in 0 .. Commit
    BY BlobLength
  <2> QED BY <1>2, <2>1, KindsApart, Zenon DEF TrueAnswer
<1> QED BY <1>1, <1>2, <1>3, <1>4, Zenon DEF Outcome, TablesGrow, OwnTables

\* BEGIN_UPLOAD: there is one such frame, so it finds no upload.
LEMMA BeginOutcome ==
  ASSUME Inv, OwnTables, NEW t \in Threads, NEW f \in MyFrames,
         serving[t] # None, f = serving[t].frame,
         f.request = StageRequest(0), uploads[Mine] = None, BeginUpload(t)
  PROVE  Outcome(t, f)
<1>0. PICK r, at : r = serving[t].frame.request /\ at = serving[t].now
  BY Zenon
<1> DEFINE new == [caps |-> r.caps, manifest |-> r.manifest,
                   expires_at |-> at + r.ttl, committed |-> None]
<1>1. /\ r.upload = Mine /\ r.caps = MyCaps /\ r.manifest = MyManifest
      /\ r.ttl = MyTtl /\ r = StageRequest(0)
  BY <1>0, BlobLength, StageFields
<1>2. at \in Nat /\ Mine \in UploadIds /\ MyTtl \in Nat
  BY <1>0, ServingFields, UploadAssumption, BlobAssumption DEF Inv, Timestamps
<1>3. BeginRefusal(r, at) \subseteq {"LimitOutOfRange"}
  BY <1>1, Zenon DEF BeginRefusal, TtlRefusal
<1>4. CASE Reject(t, BeginRefusal(r, at))
  BY <1>3, <1>4, RefusedLate, Zenon
<1>5. CASE /\ BeginRefusal(r, at) = {}
           /\ Record(t, Status("Stored"))
           /\ uploads' = [uploads EXCEPT ![r.upload] = new]
           /\ UNCHANGED <<staged, objects, chunks, grants>>
  <2>1. /\ Status("Stored") \in Reply /\ Succeeded(Status("Stored"))
    BY BlobAssumption DEF Status, Reply, Timestamps, Succeeded, BlobErrors
  <2>2. uploads'[Mine] = new
    BY <1>1, <1>2, <1>5, Zenon DEF Inv, TablesType
  <2>3. new.caps = MyCaps /\ new.manifest = MyManifest /\ new.expires_at >= MyTtl
    BY <1>1, <1>2
  <2>4. new # None
    <3>1. at + r.ttl \in Timestamps
      BY <1>1, <1>2, <1>5, BlobAssumption DEF BeginRefusal, TtlRefusal, Timestamps
    <3>2. new \in Upload
      BY <1>1, <3>1, UploadAssumption, Zenon DEF Upload
    <3> QED BY <3>2, NoneAssumption, Zenon
  <2> HIDE DEF new
  <2>5. DoneBefore(1)'
    BY <2>2, <2>3, <2>4, BlobLength DEF DoneBefore
  <2>6. TrueAnswer(f, Status("Stored"))
    <3>1. ASSUME NEW s \in 0 .. Commit, f.request = StageRequest(s) PROVE s + 1 = 1
      BY <3>1, BlobLength, StageDistinct
    <3> QED BY <2>1, <2>5, <3>1, BlobLength, KindsApart DEF TrueAnswer
  <2> QED BY <1>1, <1>5, <2>1, <2>2, <2>3, <2>6, Zenon DEF Outcome, TablesGrow, OwnTables
<1> QED BY <1>0, <1>1, <1>4, <1>5, Zenon DEF BeginUpload

\* PUT_CHUNK: the upload is there, and nothing else is staged at the index.
LEMMA PutOutcome ==
  ASSUME Inv, OwnTables, NEW t \in Threads, NEW f \in MyFrames,
         serving[t] # None, f = serving[t].frame,
         NEW s \in 1 .. Len(Chunks[MyManifest]), f.request = StageRequest(s),
         DoneBefore(s), PutChunk(t)
  PROVE  Outcome(t, f)
<1>0. PICK r, at : r = serving[t].frame.request /\ at = serving[t].now
  BY Zenon
<1> DEFINE row == <<r.upload, r.index, r.ciphertext>>
           status == IF row \in staged THEN "Duplicate" ELSE "Stored"
<1>1. /\ r.upload = Mine /\ r.cap = MyCaps["upload"] /\ r.index = s
      /\ r.ciphertext = Chunks[MyManifest][s] /\ r = StageRequest(s)
      /\ r.ciphertext \in Ciphertexts
  BY <1>0, BlobLength, StageFields
<1>2. /\ uploads[Mine] # None /\ uploads[Mine].caps = MyCaps
      /\ uploads[Mine].manifest = MyManifest /\ Mine \in UploadIds
  BY BlobLength, UploadAssumption DEF DoneBefore
<1>3. PutRefusal(r, at) \subseteq {"Expired"}
  <2>1. UploadRefusal(r, at) \subseteq {"Expired"}
    BY <1>1, <1>2, Zenon DEF UploadRefusal
  <2>2. ASSUME NEW c \in Ciphertexts, <<Mine, s, c>> \in staged
        PROVE  c = Chunks[MyManifest][s]
    <3>1. <<s, c>> \in Listed(MyManifest)
      BY <1>2, <2>2, BlobLength DEF Inv, TablesInv, StagedAsListed
    <3> QED BY <3>1, Zenon DEF Listed
  <2>3. \A c \in Ciphertexts \ {r.ciphertext} : <<r.upload, r.index, c>> \notin staged
    BY <1>1, <2>2, Zenon
  <2>4. s \in DOMAIN Chunks[MyManifest]
    BY BlobLength, Zenon
  <2> QED BY <1>1, <1>2, <2>1, <2>3, <2>4, Zenon DEF PutRefusal
<1>4. CASE Reject(t, PutRefusal(r, at))
  BY <1>3, <1>4, RefusedLate, Zenon
<1>5. CASE /\ Record(t, Status(status))
           /\ staged' = staged \cup {row}
           /\ UNCHANGED <<uploads, objects, chunks, grants>>
  <2>1. /\ Status(status) \in Reply /\ Succeeded(Status(status))
    BY BlobAssumption DEF Status, Reply, Timestamps, Succeeded, BlobErrors
  <2> HIDE DEF status
  <2>2. DoneBefore(s + 1)'
    <3>1. <<Mine, s, Chunks[MyManifest][s]>> \in staged'
      BY <1>1, <1>5, Zenon
    <3>2. \A i \in DOMAIN Chunks[MyManifest] : i < s + 1 => i < s \/ i = s
      BY BlobLength
    <3>3. \A i \in DOMAIN Chunks[MyManifest] :
            i < s + 1 => <<Mine, i, Chunks[MyManifest][i]>> \in staged'
      BY <1>5, <3>1, <3>2, Zenon DEF DoneBefore
    <3>4. s + 1 # Complete
      BY BlobLength
    <3> QED BY <1>2, <1>5, <3>3, <3>4, Zenon DEF DoneBefore
  <2>3. TrueAnswer(f, Status(status))
    <3>0. s \in 0 .. Commit
      BY BlobLength
    <3>1. ASSUME NEW n \in 0 .. Commit, f.request = StageRequest(n) PROVE n = s
      BY <3>0, <3>1, StageDistinct, Zenon
    <3> QED BY <2>1, <2>2, <3>0, <3>1, KindsApart, Zenon DEF TrueAnswer
  <2> QED BY <1>2, <1>5, <2>1, <2>3, Zenon DEF Outcome, TablesGrow, OwnTables
<1> QED BY <1>0, <1>4, <1>5, Zenon DEF PutChunk

\* COMMIT: what is staged is all the manifest lists, so nothing but the lease
\* stands in its way; afterwards the upload has its grant.
LEMMA CommitOutcome ==
  ASSUME Inv, OwnTables, NEW t \in Threads, NEW f \in MyFrames,
         serving[t] # None, f = serving[t].frame,
         f.request = StageRequest(Commit), DoneBefore(Commit), CommitBlob(t)
  PROVE  Outcome(t, f)
<1>0. PICK r, at : r = serving[t].frame.request /\ at = serving[t].now
  BY Zenon
<1>1. /\ Commit \in 0 .. Commit /\ r.upload = Mine /\ r.cap = MyCaps["upload"]
      /\ r.blob = MyBlob /\ MyBlob = Identify[MyManifest]
  BY <1>0, BlobLength, StageFields DEF MyBlob
<1>2. /\ uploads[Mine] # None /\ uploads[Mine].caps = MyCaps
      /\ uploads[Mine].manifest = MyManifest
      /\ Mine \in UploadIds /\ MyBlob \in BlobIds
      /\ uploads[Mine] \in Upload /\ uploads[Mine].expires_at >= MyTtl
  BY <1>1, BlobLength, UploadAssumption, BlobAssumption
     DEF DoneBefore, OwnTables, Inv, TablesType
<1>3. UploadRefusal(r, at) \subseteq {"Expired"}
  BY <1>1, <1>2, Zenon DEF UploadRefusal
<1>4. CommitRefusal(r, at) \subseteq {"Expired"}
  <2>1. CASE uploads[Mine].committed # None
    <3>1. grants[Mine] # None
      BY <1>2, <2>1, Zenon DEF Inv, TablesInv, GrantsCommitted
    <3>2. uploads[Mine].committed = MyBlob
      BY <3>1, OwnGrant, Zenon
    <3> QED BY <1>1, <1>3, <2>1, <3>2, Zenon DEF CommitRefusal
  <2>2. CASE uploads[Mine].committed = None
    <3>1. \A i \in DOMAIN Chunks[MyManifest] :
            <<Mine, i, Chunks[MyManifest][i]>> \in staged
      BY BlobLength DEF DoneBefore
    <3>2. {row \in staged : row[1] = Mine} = ListedRows(Mine, MyManifest)
      <4>1. ListedRows(Mine, MyManifest) \subseteq {row \in staged : row[1] = Mine}
        BY <3>1 DEF ListedRows
      <4>2. {row \in staged : row[1] = Mine} \subseteq ListedRows(Mine, MyManifest)
        BY <1>2, StagedRows, Zenon DEF Inv, TablesInv
      <4> QED BY <4>1, <4>2, Zenon
    <3>3. Cardinality({row \in staged : row[1] = r.upload})
            = Len(Chunks[uploads[r.upload].manifest])
      <4>1. {row \in staged : row[1] = r.upload} = ListedRows(Mine, MyManifest)
        BY <1>1, <3>2, Zenon
      <4>2. Cardinality(ListedRows(Mine, MyManifest)) = Len(Chunks[MyManifest])
        BY ListedCount, UploadAssumption, Zenon
      <4> QED BY <1>1, <1>2, <4>1, <4>2, Zenon
    <3>4. StagingFault(Mine, MyManifest) = {}
      BY <3>1, Zenon DEF StagingFault
    <3>5. objects[MyBlob] \in {None, MyManifest}
      <4>1. objects[MyBlob] \in Manifests \cup {None}
        BY <1>2, Zenon DEF Inv, TablesType
      <4>2. objects[MyBlob] # None => Identify[objects[MyBlob]] = MyBlob
        BY <1>2, Zenon DEF Inv, TablesInv, ObjectsWhole
      <4> QED BY <1>1, <4>1, <4>2, BlobAssumption, UploadAssumption, Zenon
    <3> QED BY <1>1, <1>2, <1>3, <2>2, <3>3, <3>4, <3>5, Zenon DEF CommitRefusal
  <2> QED BY <2>1, <2>2, Zenon
<1>5. CASE Reject(t, CommitRefusal(r, at))
  BY <1>4, <1>5, RefusedLate, Zenon
<1>6. CASE /\ Record(t, Leased("Committed", uploads[r.upload].expires_at, None))
           /\ \/ /\ uploads[r.upload].committed = None
                 /\ Publish(r)
              \/ /\ uploads[r.upload].committed # None
                 /\ UNCHANGED <<uploads, objects, chunks, grants>>
           /\ UNCHANGED staged
  <2> DEFINE reply == Leased("Committed", uploads[Mine].expires_at, None)
  <2>1. reply \in Reply /\ Succeeded(reply) /\ Record(t, reply)
    BY <1>1, <1>2, <1>6, Zenon DEF Leased, Reply, Succeeded, BlobErrors, Upload
  <2> HIDE DEF reply
  <2>2. /\ uploads'[Mine] # None /\ uploads'[Mine].caps = MyCaps
        /\ uploads'[Mine].manifest = MyManifest
        /\ uploads'[Mine].expires_at >= MyTtl
        /\ grants'[Mine] # None /\ grants'[Mine].blob = MyBlob
        /\ grants'[Mine].expires_at >= MyTtl
        /\ grants'[Mine].caps["download"] = MyCaps["download"]
        /\ grants[Mine] # None => grants'[Mine] = grants[Mine]
        /\ \A u \in UploadIds : grants'[u] # None => ~grants'[u].deleted
    <3>1. CASE uploads[Mine].committed # None /\ UNCHANGED <<uploads, grants>>
      <4>1. grants[Mine] # None
        BY <1>2, <3>1, Zenon DEF Inv, TablesInv, GrantsCommitted
      <4> QED BY <1>2, <3>1, <4>1, OwnGrant, Zenon DEF OwnTables
    <3>2. CASE uploads[Mine].committed = None /\ Publish(r)
      <4> DEFINE new == [blob |-> MyBlob,
                         caps |-> [role \in GrantRoles |-> MyCaps[role]],
                         expires_at |-> uploads[Mine].expires_at, deleted |-> FALSE]
                 up == [uploads[Mine] EXCEPT !.committed = MyBlob]
      <4>1. /\ grants' = [grants EXCEPT ![Mine] = new]
            /\ uploads' = [uploads EXCEPT ![Mine].committed = MyBlob]
        BY <1>1, <1>2, <3>2, Zenon DEF Publish
      <4>2. grants'[Mine] = new /\ uploads'[Mine] = up
        BY <1>2, <4>1, Zenon DEF Inv, TablesType
      <4>3. /\ new.blob = MyBlob /\ new.expires_at = uploads[Mine].expires_at
            /\ ~new.deleted /\ new.caps["download"] = MyCaps["download"]
        BY Zenon DEF GrantRoles, Roles
      <4>4. /\ up.caps = MyCaps /\ up.manifest = MyManifest
            /\ up.expires_at = uploads[Mine].expires_at
        BY <1>2, Zenon DEF Upload
      <4>5. new # None /\ up # None
        <5>1. up \in Upload
          BY <1>2, Zenon DEF Upload
        <5>2. new \in Grant
          BY <1>2, UploadAssumption, Zenon DEF Grant, Upload, BlobCapabilities, GrantRoles
        <5> QED BY <5>1, <5>2, NoneAssumption, Zenon
      <4>6. grants[Mine] = None
        BY <1>2, <3>2, Zenon DEF Inv, TablesInv, GrantsCommitted
      <4>7. \A u \in UploadIds \ {Mine} : grants'[u] = grants[u]
        BY <4>1, Zenon DEF Inv, TablesType
      <4> HIDE DEF new, up
      <4> QED BY <1>2, <4>2, <4>3, <4>4, <4>5, <4>6, <4>7, Zenon DEF OwnTables
    <3> QED BY <1>1, <1>6, <3>1, <3>2, Zenon
  <2>3. TablesGrow
    BY <1>2, <1>6, <2>2, Zenon DEF TablesGrow
  <2>4. DoneBefore(Commit + 1)'
    <3>1. \A i \in DOMAIN Chunks[MyManifest] :
            <<Mine, i, Chunks[MyManifest][i]>> \in staged'
      BY <1>6, BlobLength DEF DoneBefore
    <3> QED BY <1>1, <2>2, <3>1, Zenon DEF DoneBefore
  <2>5. TrueAnswer(f, reply)
    <3>1. ASSUME NEW n \in 0 .. Commit, f.request = StageRequest(n) PROVE n = Commit
      BY <1>1, <3>1, StageDistinct, Zenon
    <3> QED BY <1>1, <2>1, <2>4, <3>1, KindsApart, Zenon DEF TrueAnswer
  <2> QED BY <1>2, <2>1, <2>2, <2>3, <2>5, Zenon DEF Outcome
<1> QED BY <1>0, <1>5, <1>6, Zenon DEF CommitBlob

\* GET_MANIFEST and GET_CHUNK: the object is whole, and every matching grant lives
\* until its lease runs out.
LEMMA GetOutcome ==
  ASSUME Inv, OwnTables, NEW t \in Threads, NEW f \in DownloadFrames,
         serving[t] # None, f = serving[t].frame,
         NEW i \in 0 .. Len(Chunks[MyManifest]), f.request = GetRequest(i),
         DoneBefore(Complete), GetBlob(t)
  PROVE  Outcome(t, f)
<1>0. PICK r, at : r = serving[t].frame.request /\ at = serving[t].now
  BY Zenon
<1>1. /\ r.blob = MyBlob /\ r.cap = MyCaps["download"]
      /\ i = 0 => r.command = "GET_MANIFEST"
      /\ i # 0 => r.command = "GET_CHUNK" /\ r.index = i
  BY <1>0, GetFields, Zenon
<1>2. /\ Mine \in UploadIds /\ MyBlob \in BlobIds /\ MyManifest \in Manifests
      /\ grants[Mine] # None /\ grants[Mine].blob = MyBlob
      /\ objects[MyBlob] = MyManifest /\ MyManifest # None
  BY OwnGrant, UploadAssumption, BlobAssumption, Zenon DEF DoneBefore, MyBlob
<1>3. Mine \in Matching(r, "download")
  BY <1>1, <1>2, Zenon DEF Matching, OwnTables
<1>4. GrantRefusal(r, "download", at) \subseteq {"Expired"}
  <2>1. \A g \in Matching(r, "download") : ~grants[g].deleted
    BY Zenon DEF Matching, OwnTables
  <2>2. Matching(r, "download") # {}
    BY <1>3, Zenon
  <2> QED BY <2>1, <2>2, Zenon DEF GrantRefusal
<1>5. ObjectRefusal(r) = {}
  <2>1. CASE i = 0
    <3>1. Identify[objects[MyBlob]] = MyBlob
      BY <1>2, Zenon DEF Inv, TablesInv, ObjectsWhole
    <3> QED BY <1>1, <2>1, <3>1, Zenon DEF ObjectRefusal
  <2>2. CASE i # 0
    <3>1. /\ i \in DOMAIN Chunks[MyManifest] /\ i \in Nat
          /\ Chunks[MyManifest][i] \in Ciphertexts
      BY <2>2, BlobLength
    <3>2. <<i, Chunks[MyManifest][i]>> \in Listed(MyManifest)
      BY <3>1, Zenon DEF Listed
    <3>3. <<MyBlob, i, Chunks[MyManifest][i]>> \in chunks
      BY <1>2, <3>1, <3>2, Zenon DEF Inv, TablesInv, ObjectsWhole
    <3> QED BY <1>1, <1>2, <2>2, <3>1, <3>3, Zenon DEF ObjectRefusal
  <2> QED BY <2>1, <2>2, Zenon
<1>6. CASE Reject(t, GrantRefusal(r, "download", at))
  BY <1>4, <1>6, RefusedLate, Zenon
<1>7. CASE Reject(t, ObjectRefusal(r))
  BY <1>5, <1>7, Zenon DEF Reject
<1>8. ASSUME NEW g \in Matching(r, "download"),
             Record(t, IF r.command = "GET_MANIFEST"
                       THEN Leased("Manifest", grants[g].expires_at, MyManifest)
                       ELSE Leased("Chunk", grants[g].expires_at,
                                   Chunks[MyManifest][r.index])),
             UNCHANGED tables
      PROVE  Outcome(t, f)
  <2> DEFINE content == IF i = 0 THEN MyManifest ELSE Chunks[MyManifest][i]
             reply == Leased(IF i = 0 THEN "Manifest" ELSE "Chunk",
                             grants[g].expires_at, content)
  <2>1. Record(t, reply)
    BY <1>1, <1>8, Zenon
  <2>2. grants[g].expires_at \in Timestamps
    BY <1>8, GrantedIsStored, Zenon DEF Inv, Grant
  <2>3. content \in Manifests \cup Ciphertexts
    BY <1>2, BlobLength
  <2>4. reply \in Reply /\ Succeeded(reply) /\ reply.content = content
    BY <2>2, <2>3, Zenon DEF Leased, Reply, Succeeded, BlobErrors
  <2> HIDE DEF reply
  <2>5. TrueAnswer(f, reply)
    <3>1. ASSUME NEW j \in 0 .. Len(Chunks[MyManifest]), f.request = GetRequest(j)
          PROVE  j = i
      BY <1>0, <1>1, <3>1, GetFields, Zenon
    <3> QED BY <2>4, <3>1, KindsApart, Zenon DEF TrueAnswer
  <2> QED BY <1>8, <2>1, <2>4, <2>5, Zenon DEF Outcome, TablesGrow, OwnTables, tables
<1> QED BY <1>0, <1>1, <1>2, <1>6, <1>7, <1>8, Zenon DEF GetBlob

\* A frame on record has been sent.
LEMMA RecordedIsSent ==
  ASSUME NEW f \in BlobFrames, OnRecord(f)
  PROVE  Sent(f)
<1>1. KeyOf(f) \in ReplayKeys
  BY BlobAssumption, RequestFields, Zenon DEF KeyOf, ReplayKeys
<1> QED BY <1>1, Zenon DEF OnRecord, Sent

\* Every exchange answers from the record, or as it should.
LEMMA ExchangeOutcome ==
  ASSUME Inv, OwnTables, SentInOrder, UploadInv, NEW t \in Threads, NEW f,
         serving[t] # None, f = serving[t].frame, Exchange(t)
  PROVE  Replay(t) \/ (replays[KeyOf(f)] = None /\ Outcome(t, f))
<1>1. f \in BlobFrames /\ Sent(f)
  BY ServingFields, Zenon DEF Inv, Sent
<1> SUFFICES ASSUME ~Replay(t)
             PROVE  replays[KeyOf(f)] = None /\ Outcome(t, f)
  BY Zenon
<1>2. replays[KeyOf(f)] = None
  BY Zenon DEF Exchange, BeginUpload, PutChunk, CommitBlob, GetBlob, RenewBlob,
         DeleteBlob, Executes
<1>3. ASSUME f \in MyFrames, NEW s \in 0 .. Commit, f.request = StageRequest(s)
      PROVE  Outcome(t, f)
  <2>1. DoneBefore(s)
    BY <1>1, <1>3, Zenon DEF SentInOrder
  <2>2. CASE s = 0
    <3>1. BeginUpload(t)
      BY <1>3, <2>2, StageFields, Zenon
         DEF Exchange, PutChunk, CommitBlob, GetBlob, RenewBlob, DeleteBlob, Executes
    <3>2. uploads[Mine] = None
      <4> SUFFICES ASSUME uploads[Mine] # None PROVE FALSE
        BY Zenon
      <4>1. PICK g \in MyFrames : OnRecord(g) /\ g.request = StageRequest(0)
        BY Zenon DEF OwnTables
      <4>2. Sent(g)
        BY <4>1, RecordedIsSent, UploadAssumption, Zenon
      <4>3. g = f
        BY <1>1, <1>3, <2>2, <4>1, <4>2, Zenon DEF UploadInv
      <4> QED BY <1>2, <4>1, <4>3, Zenon DEF OnRecord
    <3> QED BY <1>3, <2>2, <3>1, <3>2, BeginOutcome, Zenon
  <2>3. CASE s = Commit
    <3>1. CommitBlob(t)
      BY <1>3, <2>3, StageFields, Zenon
         DEF Exchange, BeginUpload, PutChunk, GetBlob, RenewBlob, DeleteBlob, Executes
    <3> QED BY <1>3, <2>1, <2>3, <3>1, CommitOutcome, Zenon
  <2>4. CASE s \in 1 .. Len(Chunks[MyManifest])
    <3>1. PutChunk(t)
      BY <1>3, <2>4, StageFields, Zenon
         DEF Exchange, BeginUpload, CommitBlob, GetBlob, RenewBlob, DeleteBlob, Executes
    <3> QED BY <1>3, <2>1, <2>4, <3>1, PutOutcome, Zenon
  <2> QED BY <2>2, <2>3, <2>4, StageFields, Zenon
<1>4. ASSUME f \in DownloadFrames, NEW i \in 0 .. Len(Chunks[MyManifest]),
             f.request = GetRequest(i)
      PROVE  Outcome(t, f)
  <2>1. DoneBefore(Complete)
    BY <1>1, <1>4, Zenon DEF SentInOrder
  <2>2. GetBlob(t)
    BY <1>4, GetFields, Zenon
       DEF Exchange, BeginUpload, PutChunk, CommitBlob, RenewBlob, DeleteBlob, Executes
  <2> QED BY <1>4, <2>1, <2>2, GetOutcome, Zenon
<1> QED BY <1>1, <1>2, <1>3, <1>4, FrameKinds, Zenon

\* Everything that is on record and in the tables stays as it should be, and no
\* step of the relay sends a frame.
RelayKeeps ==
  /\ RecordsKeyed' /\ OwnTables' /\ RecordsTrue' /\ TablesGrow
  /\ \A g \in BlobFrames : Sent(g)' => Sent(g) \/ g \in wire'

\* The exchange.
LEMMA OutcomeKeeps ==
  ASSUME Inv, RecordsKeyed, OwnTables, RecordsTrue, NEW t \in Threads, NEW f,
         serving[t] # None, f = serving[t].frame, f \in BlobFrames,
         replays[KeyOf(f)] = None, Outcome(t, f)
  PROVE  RelayKeeps
<1>1. PICK reply \in Reply :
    /\ Record(t, reply)
    /\ TablesGrow
    /\ TrueAnswer(f, reply)
    /\ uploads'[Mine] # None =>
         /\ uploads'[Mine].caps = MyCaps /\ uploads'[Mine].manifest = MyManifest
         /\ uploads'[Mine].expires_at >= MyTtl
         /\ uploads[Mine] # None \/ f.request = StageRequest(0)
    /\ grants'[Mine] # None =>
         /\ grants'[Mine].expires_at >= MyTtl
         /\ grants'[Mine].caps["download"] = MyCaps["download"]
    /\ \A u \in UploadIds : grants'[u] # None => ~grants'[u].deleted
  BY Zenon DEF Outcome
<1>2. KeyOf(f) \in ReplayKeys /\ serving[t] \in Serving
  BY ServingFields, Zenon DEF Inv
<1>3. /\ replays' = [replays EXCEPT ![KeyOf(f)] = [request |-> f, response |-> reply]]
      /\ serving' = [serving EXCEPT ![t].reply = reply]
  BY <1>1, Zenon DEF Record, Answer
<1>4. /\ replays'[KeyOf(f)] = [request |-> f, response |-> reply]
      /\ \A key \in ReplayKeys : key # KeyOf(f) => replays'[key] = replays[key]
  BY <1>2, <1>3, Zenon DEF Inv, ServiceType
<1>5. /\ serving'[t] = [serving[t] EXCEPT !.reply = reply]
      /\ \A u \in Threads : u # t => serving'[u] = serving[u]
  BY <1>3, Zenon DEF Inv, ServiceType
<1>6. serving'[t].frame = f /\ serving'[t].reply = reply
  BY <1>2, <1>5, Zenon DEF Serving
<1>7. [request |-> f, response |-> reply] # None
  BY BlobAssumption DEF ReplayRecord
<1>8. OnRecord(f)' /\ Recorded(f)' = reply
  BY <1>4, <1>7 DEF OnRecord, Recorded
<1>9. ASSUME NEW g \in BlobFrames
      PROVE  /\ OnRecord(g) => OnRecord(g)' /\ Recorded(g)' = Recorded(g)
             /\ OnRecord(g)' => g = f \/ OnRecord(g)
  <2>1. KeyOf(g) \in ReplayKeys
    BY BlobAssumption, RequestFields, Zenon DEF KeyOf, ReplayKeys
  <2>2. CASE KeyOf(g) = KeyOf(f)
    BY <1>4, <2>2 DEF OnRecord
  <2>3. CASE KeyOf(g) # KeyOf(f)
    BY <1>4, <2>1, <2>3, Zenon DEF OnRecord, Recorded
  <2> QED BY <2>2, <2>3, Zenon
<1>10. RecordsKeyed'
  <2>1. ASSUME NEW key \in ReplayKeys, replays'[key] # None
        PROVE  KeyOf(replays'[key].request) = key
    <3>1. CASE key = KeyOf(f)
      BY <1>4, <3>1
    <3>2. CASE key # KeyOf(f)
      BY <1>4, <2>1, <3>2, Zenon DEF RecordsKeyed
    <3> QED BY <3>1, <3>2, Zenon
  <2>2. ASSUME NEW u \in Threads, NEW g \in BlobFrames, serving'[u] # None,
               serving'[u].frame = g, serving'[u].reply # None,
               Succeeded(serving'[u].reply)
        PROVE  OnRecord(g)' /\ Recorded(g)' = serving'[u].reply
    <3>1. CASE u = t
      BY <1>6, <1>8, <2>2, <3>1, Zenon
    <3>2. CASE u # t
      <4>1. OnRecord(g) /\ Recorded(g) = serving[u].reply
        BY <1>5, <2>2, <3>2 DEF RecordsKeyed
      <4> QED BY <1>5, <1>9, <3>2, <4>1, Zenon
    <3> QED BY <3>1, <3>2, Zenon
  <2> QED BY <2>1, <2>2, Zenon DEF RecordsKeyed, Succeeded
<1>11. OwnTables'
  <2>1. ASSUME uploads'[Mine] # None
        PROVE  \E g \in MyFrames : OnRecord(g)' /\ g.request = StageRequest(0)
    <3>1. CASE uploads[Mine] # None
      BY <1>9, <3>1, UploadAssumption, Zenon DEF OwnTables
    <3>2. CASE f.request = StageRequest(0)
      <4>1. f \in MyFrames
        BY <3>2, FrameKinds, BlobLength, KindsApart
      <4> QED BY <1>8, <3>2, <4>1, Zenon
    <3> QED BY <1>1, <2>1, <3>1, <3>2, Zenon
  <2> QED BY <1>1, <2>1, Zenon DEF OwnTables
<1>12. RecordsTrue'
  <2>1. ASSUME NEW g \in MyFrames, OnRecord(g)',
               NEW s \in 0 .. Commit, g.request = StageRequest(s)
        PROVE  IF Succeeded(Recorded(g)') THEN DoneBefore(s + 1)'
               ELSE OutOfTime(Recorded(g)')
    <3>1. CASE g = f
      BY <1>1, <1>8, <2>1, <3>1, Zenon DEF TrueAnswer
    <3>2. CASE OnRecord(g)
      <4>1. IF Succeeded(Recorded(g)) THEN DoneBefore(s + 1) ELSE OutOfTime(Recorded(g))
        BY <2>1, <3>2, Zenon DEF RecordsTrue
      <4> QED BY <1>1, <1>9, <3>2, <4>1, DoneStays, UploadAssumption, Zenon
    <3> QED BY <1>9, <2>1, <3>1, <3>2, UploadAssumption, Zenon
  <2>2. ASSUME NEW g \in DownloadFrames, OnRecord(g)',
               NEW i \in 0 .. Len(Chunks[MyManifest]), g.request = GetRequest(i)
        PROVE  IF Succeeded(Recorded(g)')
               THEN Recorded(g)'.content = IF i = 0 THEN MyManifest
                                           ELSE Chunks[MyManifest][i]
               ELSE Recorded(g)'.status = "Expired"
    <3>1. CASE g = f
      BY <1>1, <1>8, <2>2, <3>1, Zenon DEF TrueAnswer
    <3>2. CASE OnRecord(g)
      BY <1>9, <2>2, <3>2, DownloadAssumption, Zenon DEF RecordsTrue
    <3> QED BY <1>9, <2>2, <3>1, <3>2, DownloadAssumption, Zenon
  <2> QED BY <2>1, <2>2, Zenon DEF RecordsTrue, Succeeded, OutOfTime
<1>13. ASSUME NEW g \in BlobFrames, Sent(g)'
       PROVE  Sent(g) \/ g \in wire'
  <2>1. CASE \E u \in Threads : serving'[u] # None /\ serving'[u].frame = g
    BY <1>5, <1>6, <2>1, Zenon DEF Sent
  <2>2. CASE \E key \in ReplayKeys : replays'[key] # None /\ replays'[key].request = g
    BY <1>4, <2>2 DEF Sent
  <2> QED BY <1>13, <2>1, <2>2, Zenon DEF Sent
<1> QED BY <1>1, <1>10, <1>11, <1>12, <1>13, Zenon DEF RelayKeeps

\* Every other step of the relay.
LEMMA QuietKeeps ==
  ASSUME Inv, RecordsKeyed, OwnTables, RecordsTrue, UNCHANGED <<tables, replays>>,
         \A u \in Threads, g \in BlobFrames :
           serving'[u] # None /\ serving'[u].frame = g =>
             /\ Sent(g)
             /\ serving'[u].reply # None /\ Succeeded(serving'[u].reply) =>
                  OnRecord(g) /\ Recorded(g) = serving'[u].reply
  PROVE  RelayKeeps
<1>1. TablesGrow
  BY Zenon DEF TablesGrow, tables
<1>2. RecordsKeyed'
  BY Zenon DEF RecordsKeyed, OnRecord, Recorded
<1>3. OwnTables'
  BY Zenon DEF OwnTables, OnRecord, tables
<1>4. RecordsTrue'
  BY <1>1, DoneStays, Zenon DEF RecordsTrue, OnRecord, Recorded
<1>5. ASSUME NEW g \in BlobFrames, Sent(g)' PROVE Sent(g) \/ g \in wire'
  BY <1>5, Zenon DEF Sent
<1> QED BY <1>1, <1>2, <1>3, <1>4, <1>5, Zenon DEF RelayKeeps

\* So every step of uploader, network, relay and downloader keeps the records.
LEMMA StepKeeps ==
  ASSUME Inv, RecordsKeyed, OwnTables, RecordsTrue, SentInOrder, UploadInv,
         [TransferNext]_transferVars
  PROVE  RelayKeeps
<1>1. ASSUME NEW u \in Threads, NEW g \in BlobFrames, serving[u] # None,
             serving[u].frame = g
      PROVE  /\ Sent(g)
             /\ serving[u].reply # None /\ Succeeded(serving[u].reply) =>
                  OnRecord(g) /\ Recorded(g) = serving[u].reply
  BY <1>1, Zenon DEF Sent, RecordsKeyed
<1>2. CASE UNCHANGED vars
  BY <1>1, <1>2, QuietKeeps, Zenon DEF vars, tables
<1>3. ASSUME NEW t \in Threads, Respond(t) \/ Fail(t) PROVE RelayKeeps
  <2>1. /\ UNCHANGED <<tables, replays>>
        /\ \A u \in Threads : serving'[u] = serving[u] \/ serving'[u] = None
    BY <1>3, Zenon DEF Respond, Fail, Inv, ServiceType
  <2> QED BY <1>1, <2>1, QuietKeeps, Zenon
<1>4. CASE Tick
  BY <1>1, <1>4, QuietKeeps, Zenon DEF Tick
<1>5. ASSUME NEW t \in Threads, NEW f \in wire, Deliver(t, f) PROVE RelayKeeps
  <2>1. /\ UNCHANGED <<tables, replays>>
        /\ serving'[t] = [frame |-> f, now |-> clock, reply |-> None]
        /\ \A u \in Threads : u # t => serving'[u] = serving[u]
    BY <1>5, Zenon DEF Deliver, Accept, Inv, ServiceType
  <2>2. Sent(f)
    BY Zenon DEF Sent
  <2>3. ASSUME NEW u \in Threads, NEW g \in BlobFrames, serving'[u] # None,
               serving'[u].frame = g
        PROVE  /\ Sent(g)
               /\ serving'[u].reply # None /\ Succeeded(serving'[u].reply) =>
                    OnRecord(g) /\ Recorded(g) = serving'[u].reply
    <3>1. CASE u = t
      BY <2>1, <2>2, <2>3, <3>1
    <3>2. CASE u # t
      BY <1>1, <2>1, <2>3, <3>2, Zenon
    <3> QED BY <3>1, <3>2, Zenon
  <2> QED BY <2>1, <2>3, QuietKeeps, Zenon
<1>6. ASSUME NEW t \in Threads, Replay(t) PROVE RelayKeeps
  <2>1. PICK f, record : f = serving[t].frame /\ record = replays[KeyOf(f)]
    BY Zenon
  <2> DEFINE answer == IF record.request = f THEN record.response
                       ELSE Status("AuthReplay")
  <2>2. /\ UNCHANGED <<tables, replays>> /\ serving[t] # None /\ record # None
        /\ serving' = [serving EXCEPT ![t].reply = answer]
    BY <1>6, <2>1, Zenon DEF Replay, Answer
  <2>3. serving[t] \in Serving /\ f \in BlobFrames
    BY <2>1, <2>2, ServingFields, Zenon DEF Inv
  <2>4. /\ serving'[t].frame = f /\ serving'[t].reply = answer
        /\ \A u \in Threads : u # t => serving'[u] = serving[u]
    BY <2>1, <2>2, <2>3, Zenon DEF Serving, Inv, ServiceType
  <2>5. Sent(f)
    BY <2>1, <2>2, Zenon DEF Sent
  <2>6. ~Succeeded(Status("AuthReplay"))
    BY Zenon DEF Succeeded, Status
  <2>7. Succeeded(answer) => OnRecord(f) /\ Recorded(f) = answer
    BY <2>1, <2>2, <2>6, Zenon DEF OnRecord, Recorded
  <2> HIDE DEF answer
  <2>8. ASSUME NEW u \in Threads, NEW g \in BlobFrames, serving'[u] # None,
               serving'[u].frame = g
        PROVE  /\ Sent(g)
               /\ serving'[u].reply # None /\ Succeeded(serving'[u].reply) =>
                    OnRecord(g) /\ Recorded(g) = serving'[u].reply
    <3>1. CASE u = t
      BY <2>4, <2>5, <2>7, <2>8, <3>1, Zenon
    <3>2. CASE u # t
      BY <1>1, <2>4, <2>8, <3>2, Zenon
    <3> QED BY <3>1, <3>2, Zenon
  <2> QED BY <2>2, <2>8, QuietKeeps, Zenon
<1>7. ASSUME NEW t \in Threads, Exchange(t) PROVE RelayKeeps
  <2>1. PICK f : f = serving[t].frame
    BY Zenon
  <2>2. serving[t] # None
    BY <1>7, Zenon DEF Exchange, Replay, BeginUpload, PutChunk, CommitBlob, GetBlob,
                RenewBlob, DeleteBlob, Executes
  <2>3. f \in BlobFrames
    BY <2>1, <2>2, ServingFields, Zenon DEF Inv
  <2> QED BY <1>6, <1>7, <2>1, <2>2, <2>3, ExchangeOutcome, OutcomeKeeps, Zenon
<1>8. CASE UploadNext
  BY <1>2, <1>3, <1>4, <1>5, <1>7, <1>8, Zenon
     DEF UploadNext, StartAdvance, FinishAdvance, Abandon, Restore
<1>9. CASE Ask \/ GiveUp \/ \E t \in Threads : Take(t)
  BY <1>2, <1>3, <1>9, Zenon DEF Ask, GiveUp, Take
<1>10. CASE UNCHANGED transferVars
  BY <1>2, <1>10, Zenon DEF transferVars, uploadVars
<1> QED BY <1>8, <1>9, <1>10, Zenon DEF TransferNext

-----------------------------------------------------------------------------
(* The uploader.                                                           *)

\* Where the uploader stands does not change while nothing is sent.
LEMMA StandingStays ==
  ASSUME NEW state \in [stage : Nat, pending : MyFrames \cup {None}],
         Standing(state), TablesGrow,
         nextId \in Nat, nextId' \in Nat, nextId <= nextId',
         \A g \in MyFrames : Sent(g)' => Sent(g)
  PROVE  Standing(state)'
<1>1. DoneBefore(state.stage)'
  BY DoneStays, Zenon DEF Standing
<1>2. state.pending # None => state.pending.request_id < nextId'
  <2>1. state.pending # None => state.pending.request_id \in Nat
    BY FrameKinds, UploadAssumption, Zenon
  <2> QED BY <2>1 DEF Standing
<1> QED BY <1>1, <1>2, Zenon DEF Standing, Restorable

\* The frame that advance() sends is the only one of its stage and identifier.
LEMMA NextFrameFacts ==
  ASSUME UploadInv, stage # Complete, pending # None \/ nextId <= MaxId
  PROVE  /\ NextFrame \in MyFrames /\ stage \in 0 .. Commit
         /\ NextFrame.request = StageRequest(stage)
         /\ IF pending = None THEN NextFrame.request_id = nextId
            ELSE NextFrame.request_id < nextId
         /\ \A g \in MyFrames :
              /\ Sent(g)
              /\ g.request_id = NextFrame.request_id \/ g.request = NextFrame.request
              => g = NextFrame
<1> DEFINE memory == [stage |-> stage, pending |-> pending]
<1>1. Standing(memory) /\ memory.stage = stage /\ memory.pending = pending
  BY Zenon DEF UploadInv
<1> HIDE DEF memory
<1>2. stage \in 0 .. Commit
  BY <1>1, BlobLength DEF Standing, Restorable
<1>3. CASE pending # None
  <2>1. /\ NextFrame = pending /\ pending \in MyFrames
        /\ pending.request = StageRequest(stage) /\ pending.request_id < nextId
    BY <1>1, <1>3, Zenon DEF NextFrame, UploadInv, Standing, Restorable
  <2>2. ASSUME NEW g \in MyFrames, Sent(g),
               g.request_id = pending.request_id \/ g.request = pending.request
        PROVE  g = pending
    BY <1>1, <1>2, <1>3, <2>1, <2>2 DEF Standing
  <2> QED BY <1>2, <1>3, <2>1, <2>2, Zenon
<1>4. CASE pending = None
  <2>1. NextFrame = [request_id |-> nextId, request |-> StageRequest(stage)]
    BY <1>4, Zenon DEF NextFrame
  <2>2. nextId \in 1 .. MaxId
    BY <1>4, UploadAssumption DEF UploadInv
  <2>3. NextFrame \in MyFrames
    BY <1>2, <2>1, <2>2 DEF MyFrames
  <2>4. ASSUME NEW g \in MyFrames, Sent(g) PROVE g.request_id # nextId
    <3>1. g.request_id \in Nat /\ g.request_id < nextId
      BY <2>4, FrameKinds, UploadAssumption, Zenon DEF UploadInv
    <3> QED BY <2>2, <3>1
  <2>5. ASSUME NEW g \in MyFrames, Sent(g) PROVE g.request # StageRequest(stage)
    <3>1. None \notin MyFrames
      BY UploadAssumption, Zenon
    <3> QED BY <1>1, <1>2, <1>4, <2>5, <3>1 DEF Standing
  <2> QED BY <1>2, <1>4, <2>1, <2>3, <2>4, <2>5, Zenon
<1> QED BY <1>3, <1>4, Zenon

\* It sends that frame, and only that one, after it was handed to the store.
LEMMA StartUploads ==
  ASSUME UploadInv, StartAdvance, TablesGrow,
         \A g \in MyFrames : Sent(g)' => Sent(g) \/ g \in wire'
  PROVE  UploadInv'
<1>1. PICK f, n, state :
        f = NextFrame /\ n = stage /\ state = [stage |-> n, pending |-> f]
  BY Zenon
<1>2. /\ n # Complete /\ (pending # None \/ nextId <= MaxId)
      /\ nextId' = IF pending = None THEN nextId + 1 ELSE nextId
      /\ pending' = f /\ stage' = n
      /\ saved' = state \/ (saved' = saved /\ wire' = wire)
      /\ wire' \subseteq wire \cup {f}
  BY <1>1, Zenon DEF StartAdvance, Store, StoreFails
<1>3. /\ f \in MyFrames /\ n \in 0 .. Commit
      /\ f.request = StageRequest(n)
      /\ IF pending = None THEN f.request_id = nextId ELSE f.request_id < nextId
      /\ \A g \in MyFrames :
           Sent(g) /\ (g.request_id = f.request_id \/ g.request = f.request) => g = f
  BY <1>1, <1>2, NextFrameFacts, Zenon
<1>4. /\ f.request_id \in Nat /\ nextId \in Nat \ {0} /\ f # None
      /\ f \in BlobFrames
  BY <1>3, FrameKinds, UploadAssumption, Zenon DEF UploadInv
<1>5. nextId' \in Nat \ {0} /\ nextId <= nextId' /\ f.request_id < nextId'
  BY <1>2, <1>3, <1>4
<1>6. /\ state.stage = n /\ state.pending = f
      /\ state \in [stage : Nat, pending : MyFrames \cup {None}]
  BY <1>1, <1>3, BlobLength
<1>7. Restorable(state) /\ DoneBefore(n)
  BY <1>1, <1>3, <1>6, BlobLength DEF UploadInv, Standing, Restorable
<1>8. ASSUME NEW g \in MyFrames, Sent(g), NEW s \in 0 .. Commit,
             g.request = StageRequest(s)
      PROVE  s < n \/ (s = n /\ g = f)
  <2>1. s < n \/ (s = n /\ g = pending)
    BY <1>1, <1>8, Zenon DEF UploadInv, Standing
  <2> QED BY <1>3, <1>8, <2>1, Zenon
<1>9. ASSUME NEW g \in MyFrames, Sent(g)'
      PROVE  /\ Sent(g) \/ g = f
             /\ g.request_id = f.request_id => g = f
             /\ \A s \in 0 .. Commit : g.request = StageRequest(s) =>
                  s < n \/ (s = n /\ g = f)
  <2>1. CASE g = f
    BY <1>3, <2>1, StageDistinct, Zenon
  <2>2. CASE Sent(g)
    BY <1>3, <1>8, <2>2, Zenon
  <2>3. Sent(g) \/ g = f
    BY <1>2, <1>9, Zenon DEF Sent
  <2> QED BY <2>1, <2>2, <2>3, Zenon
<1>10. Standing(state)'
  <2>1. DoneBefore(n)'
    BY <1>7, DoneStays, Zenon
  <2> QED BY <1>5, <1>6, <1>7, <1>9, <2>1, Zenon DEF Standing, Restorable
<1>11. [stage |-> stage, pending |-> pending]' = state
  BY <1>1, <1>2, Zenon
<1>12. Standing(saved)'
  <2>1. PICK old : old = saved
    BY Zenon
  <2>2. /\ old \in [stage : Nat, pending : MyFrames \cup {None}] /\ Standing(old)
    BY <2>1, Zenon DEF UploadInv
  <2>3. CASE saved' = state
    BY <1>10, <2>3, Zenon
  <2>4. CASE saved' = old /\ wire' = wire
    <3>1. ASSUME NEW g \in MyFrames, Sent(g)' PROVE Sent(g)
      BY <2>4, <3>1, Zenon DEF Sent
    <3>2. Standing(old)'
      BY <1>4, <1>5, <2>2, <3>1, StandingStays, Zenon
    <3> QED BY <2>4, <3>2, Zenon
  <2> QED BY <1>2, <2>1, <2>3, <2>4, Zenon
<1>13. ASSUME NEW g \in MyFrames, Sent(g)' PROVE g.request_id < nextId'
  <2>1. g.request_id \in Nat
    BY FrameKinds, UploadAssumption, Zenon
  <2> QED BY <1>4, <1>5, <1>9, <1>13, <2>1 DEF UploadInv
<1>14. ASSUME NEW g \in MyFrames, NEW h \in MyFrames, Sent(g)', Sent(h)',
              g.request = h.request
       PROVE  g = h
  BY <1>3, <1>9, <1>14, Zenon DEF UploadInv
<1>15. /\ stage' \in Nat /\ pending' \in MyFrames \cup {None} /\ pending' # None
       /\ saved' \in [stage : Nat, pending : MyFrames \cup {None}]
       /\ wire' \subseteq BlobFrames
  BY <1>2, <1>3, <1>4, <1>6, Zenon DEF UploadInv
<1> QED BY <1>5, <1>10, <1>11, <1>12, <1>13, <1>14, <1>15, Zenon DEF UploadInv

\* The other steps of the uploader send nothing.
LEMMA UploadKept ==
  ASSUME UploadInv, TablesGrow, wire' \subseteq BlobFrames, nextId' = nextId,
         \A g \in MyFrames : Sent(g)' => Sent(g),
         NEW memory \in [stage : Nat, pending : MyFrames \cup {None}],
         NEW store \in [stage : Nat, pending : MyFrames \cup {None}],
         stage' = memory.stage, pending' = memory.pending, saved' = store,
         Standing(memory), Standing(store), waiting' => pending' # None
  PROVE  UploadInv'
<1>1. nextId \in Nat \ {0} /\ nextId' \in Nat /\ nextId <= nextId'
  BY DEF UploadInv
<1>2. Standing(memory)' /\ Standing(store)'
  BY <1>1, StandingStays, Zenon
<1>3. [stage |-> stage, pending |-> pending]' = memory
  BY Zenon
<1>4. /\ \A g \in MyFrames : Sent(g)' => g.request_id < nextId'
      /\ \A g, h \in MyFrames :
           Sent(g)' /\ Sent(h)' /\ g.request = h.request => g = h
  BY Zenon DEF UploadInv
<1>5. stage' \in Nat /\ pending' \in MyFrames \cup {None}
  BY Zenon
<1> QED BY <1>1, <1>2, <1>3, <1>4, <1>5, Zenon DEF UploadInv

\* A success the uploader waits for means that the stage is done.
LEMMA AdvancesTruly ==
  ASSUME Inv, RecordsKeyed, RecordsTrue, UploadInv, waiting,
         NEW t \in Threads, serving[t] # None, serving[t].frame \in MyFrames,
         serving[t].reply # None, Advances(t)
  PROVE  Standing([stage |-> stage + 1, pending |-> None])
<1> DEFINE memory == [stage |-> stage, pending |-> pending]
<1>1. Standing(memory) /\ memory.stage = stage /\ memory.pending = pending
  BY Zenon DEF UploadInv
<1> HIDE DEF memory
<1>2. PICK f \in MyFrames : f = serving[t].frame
  BY Zenon
<1>3. Sent(f) /\ f.request_id = pending.request_id /\ Succeeded(serving[t].reply)
  BY <1>2, Zenon DEF Sent, Advances
<1>4. pending # None /\ f = pending
  BY <1>1, <1>3, Zenon DEF UploadInv, Standing
<1>5. f.request = StageRequest(stage) /\ stage \in 0 .. Commit
  BY <1>1, <1>4, BlobLength DEF Standing, Restorable
<1>6. OnRecord(f) /\ Recorded(f) = serving[t].reply
  BY <1>2, <1>3, UploadAssumption, Zenon DEF RecordsKeyed
<1>7. DoneBefore(stage + 1)
  BY <1>3, <1>5, <1>6, Zenon DEF RecordsTrue
<1>8. PICK next : next = [stage |-> stage + 1, pending |-> None]
  BY Zenon
<1>9. /\ next.stage = stage + 1 /\ next.pending = None
      /\ next.stage \in 0 .. Complete
  BY <1>5, <1>8, BlobLength
<1>10. ASSUME NEW g \in MyFrames, Sent(g), NEW s \in 0 .. Commit,
              g.request = StageRequest(s)
       PROVE  s < stage + 1
  BY <1>1, <1>5, <1>10, BlobLength DEF Standing
<1>11. Standing(next)
  BY <1>7, <1>9, <1>10, Zenon DEF Standing, Restorable
<1> QED BY <1>8, <1>11, Zenon

\* A frame of the downloader is not one of the uploader's.
LEMMA FramesApart ==
  ASSUME NEW f \in DownloadFrames
  PROVE  f \in BlobFrames /\ f \notin MyFrames
<1>1. f \in BlobFrames
  BY DownloadAssumption, Zenon
<1>2. PICK i \in 0 .. Len(Chunks[MyManifest]) : f.request = GetRequest(i)
  BY DEF DownloadFrames
<1>3. ASSUME f \in MyFrames PROVE FALSE
  <2>1. PICK s \in 0 .. Commit : f.request = StageRequest(s)
    BY <1>3 DEF MyFrames
  <2> QED BY <1>2, <2>1, KindsApart, Zenon
<1> QED BY <1>1, <1>3, Zenon

\* What download_blob asks for is a part of the blob, which is there.
LEMMA AskFacts ==
  ASSUME UploadInv, DownloadInv, Ask
  PROVE  /\ NextPart \in 0 .. Len(Chunks[MyManifest])
         /\ asked' \in DownloadFrames /\ asked'.request_id = nextGet
         /\ asked'.request = GetRequest(NextPart)
         /\ wire' = wire \cup {asked'} /\ got' = got /\ nextGet' = nextGet + 1
         /\ UNCHANGED <<vars, stage, pending, saved, waiting, nextId>>
         /\ DoneBefore(Complete)
<1>1. /\ asked' = [request_id |-> nextGet, request |-> GetRequest(NextPart)]
      /\ wire' = wire \cup {asked'} /\ got' = got /\ nextGet' = nextGet + 1
      /\ UNCHANGED <<vars, stage, pending, saved, waiting, nextId>>
      /\ stage = Complete /\ ~Assembled /\ nextGet <= MaxGets
  BY Zenon DEF Ask, NextPart
<1>2. DoneBefore(Complete)
  BY <1>1, Zenon DEF UploadInv, Standing
<1>3. Len(got.chunks) \in Nat
  BY DEF DownloadInv
<1>4. NextPart \in 0 .. Len(Chunks[MyManifest])
  <2>1. CASE got.manifest = None
    BY <2>1, BlobLength DEF NextPart
  <2>2. CASE got.manifest # None
    <3>1. Len(got.chunks) # Len(Chunks[MyManifest])
      BY <1>1, <2>2, Zenon DEF Assembled, DownloadInv
    <3> QED BY <1>3, <2>2, <3>1, BlobLength DEF NextPart, DownloadInv
  <2> QED BY <2>1, <2>2, Zenon
<1>5. nextGet \in 1 .. MaxGets
  BY <1>1, DownloadAssumption DEF DownloadInv
<1> QED BY <1>1, <1>2, <1>4, <1>5 DEF DownloadFrames

\* Every step keeps the uploader's account of itself.
LEMMA UploadStep ==
  ASSUME Inv, RecordsKeyed, RecordsTrue, UploadInv, DownloadInv, RelayKeeps,
         [TransferNext]_transferVars
  PROVE  UploadInv'
<1>1. PICK memory, store, next :
        /\ memory = [stage |-> stage, pending |-> pending] /\ store = saved
        /\ next = [stage |-> stage + 1, pending |-> None]
  BY Zenon
<1> DEFINE States == [stage : Nat, pending : MyFrames \cup {None}]
<1>2. /\ memory \in States /\ store \in States /\ next \in States
      /\ Standing(memory) /\ Standing(store) /\ wire \subseteq BlobFrames
      /\ memory.stage = stage /\ memory.pending = pending
      /\ next.stage = stage + 1 /\ next.pending = None
  BY <1>1 DEF UploadInv
<1>3. TablesGrow /\ \A g \in MyFrames : Sent(g)' => Sent(g) \/ g \in wire'
  BY UploadAssumption, Zenon DEF RelayKeeps
<1>4. ASSUME wire' \subseteq wire, NEW g \in MyFrames, Sent(g)' PROVE Sent(g)
  BY <1>3, <1>4, Zenon DEF Sent
<1>5. CASE UNCHANGED <<stage, pending, saved, waiting, nextId>> /\ wire' \subseteq wire
  BY <1>1, <1>2, <1>3, <1>4, <1>5, UploadKept, Zenon DEF UploadInv
<1>6. CASE StartAdvance
  BY <1>3, <1>6, StartUploads, Zenon
<1>7. ASSUME NEW t \in Threads, FinishAdvance(t) PROVE UploadInv'
  <2>1. /\ waiting /\ ~waiting' /\ nextId' = nextId /\ wire' = wire
        /\ serving[t] # None /\ serving[t].frame \in MyFrames
        /\ serving[t].reply # None
    BY <1>7, Zenon DEF FinishAdvance, Respond
  <2>2. CASE ~Advances(t)
    <3>1. stage' = stage /\ pending' = pending /\ saved' = saved
      BY <1>7, <2>2, Zenon DEF FinishAdvance
    <3> QED BY <1>1, <1>2, <1>3, <1>4, <2>1, <3>1, UploadKept, Zenon
  <2>3. CASE Advances(t)
    <3>1. Standing(next)
      BY <1>1, <2>1, <2>3, AdvancesTruly, Zenon
    <3>2. /\ saved' \in {store, next}
          /\ \/ stage' = next.stage /\ pending' = next.pending
             \/ stage' = memory.stage /\ pending' = memory.pending
      BY <1>1, <1>2, <1>7, <2>3, Zenon DEF FinishAdvance, Store, StoreFails
    <3> QED BY <1>2, <1>3, <1>4, <2>1, <3>1, <3>2, UploadKept, Zenon
  <2> QED BY <2>2, <2>3, Zenon
<1>8. CASE Abandon
  BY <1>1, <1>2, <1>3, <1>4, <1>8, UploadKept, Zenon DEF Abandon
<1>9. CASE Restore
  <2>1. /\ stage' = store.stage /\ pending' = store.pending /\ ~waiting'
        /\ nextId' = nextId /\ wire' = wire /\ saved' = store
    BY <1>1, <1>9, Zenon DEF Restore
  <2> QED BY <1>2, <1>3, <1>4, <2>1, UploadKept
<1>10. CASE Ask
  <2>1. PICK f : f = asked'
    BY Zenon
  <2>2. /\ UNCHANGED <<stage, pending, saved, waiting, nextId>>
        /\ wire' = wire \cup {f} /\ f \in BlobFrames /\ f \notin MyFrames
    BY <1>10, <2>1, AskFacts, FramesApart, Zenon
  <2>3. ASSUME NEW g \in MyFrames, Sent(g)' PROVE Sent(g)
    BY <1>3, <2>2, <2>3, Zenon DEF Sent
  <2> QED BY <1>1, <1>2, <1>3, <2>2, <2>3, UploadKept, Zenon DEF UploadInv
<1>11. CASE UploadNext
  BY <1>5, <1>6, <1>7, <1>8, <1>9, <1>11 DEF UploadNext, Deliver, client
<1>12. CASE GiveUp \/ \E t \in Threads : Take(t)
  BY <1>5, <1>12, Zenon DEF GiveUp, Take, client
<1>13. CASE UNCHANGED transferVars
  BY <1>5, <1>13, Zenon DEF transferVars, uploadVars, client
<1> QED BY <1>10, <1>11, <1>12, <1>13, Zenon DEF TransferNext

\* Every step keeps the order of what is sent.
LEMMA OrderStep ==
  ASSUME UploadInv, DownloadInv, SentInOrder, RelayKeeps,
         [TransferNext]_transferVars
  PROVE  SentInOrder'
<1>1. TablesGrow /\ \A g \in BlobFrames : Sent(g)' => Sent(g) \/ g \in wire'
  BY Zenon DEF RelayKeeps
<1>2. \A s : DoneBefore(s) => DoneBefore(s)'
  BY <1>1, DoneStays, Zenon
<1>3. MyFrames \subseteq BlobFrames /\ DownloadFrames \subseteq BlobFrames
  BY UploadAssumption, DownloadAssumption, Zenon
<1>4. CASE wire' \subseteq wire
  <2>1. ASSUME NEW g \in BlobFrames, Sent(g)' PROVE Sent(g)
    BY <1>1, <1>4, <2>1, Zenon DEF Sent
  <2> QED BY <1>2, <1>3, <2>1, Zenon DEF SentInOrder
<1>5. CASE StartAdvance
  <2>1. PICK f, n : f = NextFrame /\ n = stage
    BY Zenon
  <2>2. /\ stage # Complete /\ (pending # None \/ nextId <= MaxId)
        /\ wire' \subseteq wire \cup {f}
    BY <1>5, <2>1, Zenon DEF StartAdvance
  <2>3. f \in MyFrames /\ n \in 0 .. Commit /\ f.request = StageRequest(n)
    BY <2>1, <2>2, NextFrameFacts, Zenon
  <2>4. DoneBefore(n)
    BY <2>1, Zenon DEF UploadInv, Standing
  <2>5. ASSUME NEW g \in BlobFrames, Sent(g)' PROVE Sent(g) \/ g = f
    BY <1>1, <2>2, <2>5, Zenon DEF Sent
  <2>6. ASSUME NEW g \in MyFrames, NEW s \in 0 .. Commit, Sent(g)',
               g.request = StageRequest(s)
        PROVE  DoneBefore(s)'
    <3>1. CASE Sent(g)
      BY <1>2, <2>6, <3>1, Zenon DEF SentInOrder
    <3>2. CASE g = f
      BY <1>2, <2>3, <2>4, <2>6, <3>2, StageDistinct, Zenon
    <3> QED BY <1>3, <2>5, <2>6, <3>1, <3>2, Zenon
  <2>7. ASSUME NEW g \in DownloadFrames, Sent(g)' PROVE DoneBefore(Complete)'
    BY <1>2, <1>3, <2>3, <2>5, <2>7, FramesApart, Zenon DEF SentInOrder
  <2> QED BY <2>6, <2>7, Zenon DEF SentInOrder
<1>6. CASE Ask
  <2>1. PICK f : f = asked'
    BY Zenon
  <2>2. /\ wire' = wire \cup {f} /\ f \notin MyFrames /\ DoneBefore(Complete)'
    BY <1>2, <1>6, <2>1, AskFacts, FramesApart, Zenon
  <2>3. ASSUME NEW g \in MyFrames, Sent(g)' PROVE Sent(g)
    BY <1>1, <1>3, <2>2, <2>3, Zenon DEF Sent
  <2> QED BY <1>2, <2>2, <2>3, Zenon DEF SentInOrder
<1>7. CASE UploadNext
  BY <1>4, <1>5, <1>7, Zenon
     DEF UploadNext, FinishAdvance, Abandon, Restore, Deliver, client
<1>8. CASE GiveUp \/ \E t \in Threads : Take(t)
  BY <1>4, <1>8, Zenon DEF GiveUp, Take, client
<1>9. CASE UNCHANGED transferVars
  BY <1>4, <1>9, Zenon DEF transferVars, uploadVars, client
<1> QED BY <1>6, <1>7, <1>8, <1>9, Zenon DEF TransferNext

-----------------------------------------------------------------------------
(* The downloader.                                                         *)

\* While it asks nothing new, what it has and what it waits for stay as they are.
LEMMA DownloadKept ==
  ASSUME DownloadInv, nextGet' = nextGet, got' \in {got, Nothing},
         asked' = None \/ (asked' = asked /\ got' = got),
         \A g \in DownloadFrames : Sent(g)' => Sent(g)
  PROVE  DownloadInv'
<1>1. CASE got' = got /\ asked' = asked
  BY <1>1, Zenon DEF DownloadInv, NextPart
<1>2. CASE got' = got /\ asked' = None
  BY <1>2, Zenon DEF DownloadInv
<1>3. CASE got' = Nothing /\ asked' = None
  <2>1. /\ got' \in [manifest : {None, MyManifest}, chunks : Seq(Ciphertexts)]
        /\ got'.manifest = None /\ got'.chunks = <<>> /\ Len(got'.chunks) = 0
        /\ DOMAIN got'.chunks = {}
    BY <1>3 DEF Nothing
  <2>2. Len(got'.chunks) <= Len(Chunks[MyManifest])
    BY <2>1, BlobLength
  <2> QED BY <1>3, <2>1, <2>2, Zenon DEF DownloadInv
<1> QED BY <1>1, <1>2, <1>3, Zenon

\* The answer it takes is the part it asked for.
LEMMA AnswerIsPart ==
  ASSUME Inv, RecordsKeyed, RecordsTrue, DownloadInv, asked # None,
         NEW t \in Threads, serving[t] # None, serving[t].frame \in DownloadFrames,
         serving[t].reply # None, Answers(t)
  PROVE  /\ NextPart \in 0 .. Len(Chunks[MyManifest])
         /\ asked.request = GetRequest(NextPart)
         /\ serving[t].reply.content = IF NextPart = 0 THEN MyManifest
                                       ELSE Chunks[MyManifest][NextPart]
<1>1. PICK f \in DownloadFrames : f = serving[t].frame
  BY Zenon
<1>2. Sent(f) /\ f.request_id = asked.request_id /\ Succeeded(serving[t].reply)
  BY <1>1, Zenon DEF Sent, Answers
<1>3. f = asked
  BY <1>2, Zenon DEF DownloadInv
<1>4. f.request = GetRequest(NextPart) /\ NextPart \in 0 .. Len(Chunks[MyManifest])
  BY <1>3, Zenon DEF DownloadInv
<1>5. OnRecord(f) /\ Recorded(f) = serving[t].reply
  BY <1>1, <1>2, FramesApart, Zenon DEF RecordsKeyed
<1> QED BY <1>2, <1>3, <1>4, <1>5, Zenon DEF RecordsTrue

\* So the blob grows by that part.
LEMMA TakeDownloads ==
  ASSUME Inv, RecordsKeyed, RecordsTrue, DownloadInv, NEW t \in Threads, Take(t),
         \A g \in DownloadFrames : Sent(g)' => Sent(g)
  PROVE  DownloadInv'
<1>1. /\ asked # None /\ serving[t] # None /\ serving[t].frame \in DownloadFrames
      /\ serving[t].reply # None
      /\ got' = IF Answers(t) THEN Body(t) ELSE Nothing
      /\ asked' = None /\ nextGet' = nextGet
  BY Zenon DEF Take, Respond
<1>2. CASE ~Answers(t)
  BY <1>1, <1>2, DownloadKept, Zenon
<1>3. CASE Answers(t)
  <2>1. PICK part, content : part = NextPart /\ content = serving[t].reply.content
    BY Zenon
  <2>2. /\ part \in 0 .. Len(Chunks[MyManifest]) /\ asked.request = GetRequest(part)
        /\ content = IF part = 0 THEN MyManifest ELSE Chunks[MyManifest][part]
    BY <1>1, <1>3, <2>1, AnswerIsPart, Zenon
  <2>3. /\ got \in [manifest : {None, MyManifest}, chunks : Seq(Ciphertexts)]
        /\ Len(got.chunks) \in Nat
        /\ Len(got.chunks) <= Len(Chunks[MyManifest])
        /\ got.manifest = None => got.chunks = <<>>
        /\ \A i \in DOMAIN got.chunks : got.chunks[i] = Chunks[MyManifest][i]
    BY DEF DownloadInv
  <2>4. /\ nextGet' \in Nat \ {0}
        /\ \A f \in DownloadFrames : Sent(f)' => f.request_id < nextGet'
    BY <1>1, Zenon DEF DownloadInv
  <2>5. CASE part = 0
    <3>1. got.manifest = None
      BY <2>1, <2>3, <2>5 DEF NextPart
    <3>2. asked.request.command = "GET_MANIFEST"
      BY <2>2, <2>5, GetFields, Zenon
    <3>3. got' = [got EXCEPT !.manifest = MyManifest]
      BY <1>1, <1>3, <2>1, <2>2, <2>5, <3>2, Zenon DEF Body
    <3>4. got'.manifest = MyManifest /\ got'.chunks = got.chunks
          /\ got' \in [manifest : {None, MyManifest}, chunks : Seq(Ciphertexts)]
      BY <2>3, <3>3, Zenon
    <3>5. MyManifest # None
      BY BlobAssumption, UploadAssumption, Zenon
    <3> QED BY <1>1, <2>3, <2>4, <3>4, <3>5, Zenon DEF DownloadInv
  <2>6. CASE part # 0
    <3>1. got.manifest # None /\ part = Len(got.chunks) + 1
      BY <2>1, <2>6, Zenon DEF NextPart
    <3>2. asked.request.command = "GET_CHUNK"
      BY <2>2, <2>6, GetFields, Zenon
    <3>3. content = Chunks[MyManifest][part] /\ content \in Ciphertexts
      BY <2>2, <2>6, BlobLength
    <3>4. got' = [got EXCEPT !.chunks = Append(@, content)]
      BY <1>1, <1>3, <2>1, <3>2, Zenon DEF Body
    <3>5. PICK old : old = got.chunks /\ old \in Seq(Ciphertexts)
      BY <2>3, Zenon
    <3>6. /\ got'.manifest = got.manifest /\ got'.chunks = Append(old, content)
          /\ got' \in [manifest : {None, MyManifest}, chunks : Seq(Ciphertexts)]
      <4>0. Append(old, content) \in Seq(Ciphertexts)
        <5>1. content \in Ciphertexts /\ old \in Seq(Ciphertexts)
          BY <3>3, <3>5, Zenon
        <5> QED BY <5>1
      <4>1. PICK new : new = Append(old, content) /\ new \in Seq(Ciphertexts)
        BY <4>0, Zenon
      <4>2. got' = [got EXCEPT !.chunks = new]
        BY <3>4, <3>5, <4>1, Zenon
      <4> QED BY <2>3, <4>1, <4>2, Zenon
    <3>7. /\ Len(Append(old, content)) = part
          /\ \A i \in DOMAIN Append(old, content) :
               Append(old, content)[i] = Chunks[MyManifest][i]
      BY <2>3, <3>1, <3>3, <3>5
    <3>8. Len(got'.chunks) <= Len(Chunks[MyManifest])
      BY <2>2, <3>6, <3>7, BlobLength
    <3> QED BY <1>1, <2>4, <3>1, <3>6, <3>7, <3>8, Zenon DEF DownloadInv
  <2> QED BY <2>5, <2>6, Zenon
<1> QED BY <1>2, <1>3, Zenon

\* Every step keeps the beginning of the blob a beginning.
LEMMA DownloadStep ==
  ASSUME Inv, RecordsKeyed, RecordsTrue, UploadInv, DownloadInv, RelayKeeps,
         [TransferNext]_transferVars
  PROVE  DownloadInv'
<1>1. \A g \in DownloadFrames : Sent(g)' => Sent(g) \/ g \in wire'
  BY DownloadAssumption, Zenon DEF RelayKeeps
<1>2. ASSUME wire' \subseteq wire, NEW g \in DownloadFrames, Sent(g)' PROVE Sent(g)
  BY <1>1, <1>2, Zenon DEF Sent
<1>3. CASE UploadNext /\ UNCHANGED download
  <2>1. ASSUME NEW g \in DownloadFrames, Sent(g)' PROVE Sent(g)
    <3>1. CASE wire' \subseteq wire
      BY <1>2, <2>1, <3>1, Zenon
    <3>2. CASE StartAdvance
      <4>1. PICK f : f = NextFrame
        BY Zenon
      <4>2. /\ wire' \subseteq wire \cup {f}
            /\ stage # Complete /\ (pending # None \/ nextId <= MaxId)
        BY <3>2, <4>1, Zenon DEF StartAdvance
      <4>3. f \in MyFrames
        BY <4>1, <4>2, NextFrameFacts, Zenon
      <4> QED BY <1>1, <2>1, <4>2, <4>3, FramesApart, Zenon DEF Sent
    <3> QED BY <1>3, <3>1, <3>2, Zenon
           DEF UploadNext, FinishAdvance, Abandon, Restore, Deliver, client
  <2> QED BY <1>3, <2>1, DownloadKept, Zenon DEF download
<1>4. CASE Ask
  <2>1. PICK f, id, part : f = asked' /\ id = nextGet /\ part = NextPart
    BY Zenon
  <2>2. /\ part \in 0 .. Len(Chunks[MyManifest]) /\ f \in DownloadFrames
        /\ f.request_id = id /\ f.request = GetRequest(part)
        /\ wire' = wire \cup {f} /\ got' = got /\ nextGet' = id + 1
    BY <1>4, <2>1, AskFacts, Zenon
  <2>3. NextPart' = part /\ id \in Nat \ {0}
    BY <2>1, <2>2, Zenon DEF NextPart, DownloadInv
  <2>4. ASSUME NEW g \in DownloadFrames, Sent(g)'
        PROVE  g.request_id < id + 1 /\ (g.request_id = id => g = f)
    <3>1. Sent(g) \/ g = f
      BY <1>1, <2>2, <2>4, Zenon DEF Sent
    <3>2. g.request_id \in Nat
      BY FramesApart, FrameKinds, Zenon
    <3> QED BY <2>1, <2>2, <2>3, <3>1, <3>2 DEF DownloadInv
  <2> QED BY <2>1, <2>2, <2>3, <2>4 DEF DownloadInv
<1>5. ASSUME NEW t \in Threads, Take(t) PROVE DownloadInv'
  BY <1>2, <1>5, TakeDownloads, Zenon DEF Take, client
<1>6. CASE GiveUp
  BY <1>2, <1>6, DownloadKept, Zenon DEF GiveUp
<1>7. CASE UNCHANGED transferVars
  BY <1>2, <1>7, DownloadKept, Zenon DEF transferVars, uploadVars, client, download
<1> QED BY <1>3, <1>4, <1>5, <1>6, <1>7, Zenon DEF TransferNext

-----------------------------------------------------------------------------
(* The theorems.                                                           *)

\* At the start nothing is sent, recorded or stored.
LEMMA TransferStart ==
  ASSUME TransferInit
  PROVE  Inv /\ TransferInv
<1>1. /\ Init /\ stage = 0 /\ pending = None /\ waiting = FALSE /\ nextId = 1
      /\ saved = [stage |-> 0, pending |-> None] /\ wire = {}
      /\ got = Nothing /\ asked = None /\ nextGet = 1
  BY Zenon DEF TransferInit, UploadInit
<1>2. Inv
  BY <1>1, InitInv, Zenon
<1>3. /\ \A t \in Threads : serving[t] = None
      /\ \A key \in ReplayKeys : replays[key] = None
      /\ uploads[Mine] = None /\ \A u \in UploadIds : grants[u] = None
      /\ grants[Mine] = None
  BY <1>1, UploadAssumption, Zenon DEF Init
<1>4. \A f : ~Sent(f)
  BY <1>1, <1>3, Zenon DEF Sent
<1>5. \A f \in BlobFrames : ~OnRecord(f)
  BY <1>4, RecordedIsSent, Zenon
<1>6. MyFrames \subseteq BlobFrames /\ DownloadFrames \subseteq BlobFrames
  BY UploadAssumption, DownloadAssumption, Zenon
<1>7. RecordsKeyed /\ OwnTables /\ SentInOrder /\ RecordsTrue
  BY <1>3, <1>4, <1>5, <1>6, Zenon DEF RecordsKeyed, OwnTables, SentInOrder, RecordsTrue
<1>8. DoneBefore(0)
  <2>1. \A i \in DOMAIN Chunks[MyManifest] : ~(i < 0)
    BY BlobLength
  <2> QED BY <2>1, BlobLength DEF DoneBefore
<1>9. Standing([stage |-> 0, pending |-> None])
  BY <1>4, <1>8, BlobLength DEF Standing, Restorable
<1>10. UploadInv
  BY <1>1, <1>4, <1>9 DEF UploadInv
<1>11. DownloadInv
  BY <1>1, <1>4, BlobLength DEF DownloadInv, Nothing
<1> QED BY <1>2, <1>7, <1>10, <1>11, Zenon DEF TransferInv

\* A step of the composition is a step of the relay, or none.
LEMMA TransferStep ==
  ASSUME Inv, TransferInv, [TransferNext]_transferVars
  PROVE  Inv' /\ TransferInv'
<1>1. wire \subseteq BlobFrames
  BY Zenon DEF TransferInv, UploadInv
<1>2. [Next]_vars
  <2>1. CASE UploadNext
    BY <1>1, <2>1, Zenon DEF UploadNext, StartAdvance, FinishAdvance, Abandon, Restore,
                      Deliver, Next
  <2>2. CASE Ask \/ GiveUp \/ \E t \in Threads : Take(t)
    BY <2>2, Zenon DEF Ask, GiveUp, Take, Next
  <2>3. CASE UNCHANGED transferVars
    BY <2>3, Zenon DEF transferVars, uploadVars
  <2> QED BY <2>1, <2>2, <2>3, Zenon DEF TransferNext
<1>3. Inv'
  BY <1>2, StepInv, Zenon
<1>4. RelayKeeps
  BY StepKeeps, Zenon DEF TransferInv
<1>5. UploadInv'
  BY <1>4, UploadStep, Zenon DEF TransferInv
<1>6. SentInOrder'
  BY <1>4, OrderStep, Zenon DEF TransferInv
<1>7. DownloadInv'
  BY <1>4, DownloadStep, Zenon DEF TransferInv
<1> QED BY <1>3, <1>4, <1>5, <1>6, <1>7, Zenon DEF TransferInv, RelayKeeps

\* The invariant of the composition.
LEMMA TransferInvariant == TransferSpec => [](Inv /\ TransferInv)
BY TransferStart, TransferStep, PTL DEF TransferSpec

\* The uploader's stage, in memory and in its store, is never ahead of what the
\* relay holds, for every blob, any number of faults and any interleaving.
THEOREM StagesAreTrue == TransferSpec => []StageIsTrue
<1>1. TransferInv => StageIsTrue
  BY Zenon DEF TransferInv, UploadInv, Standing, StageIsTrue
<1> QED BY <1>1, TransferInvariant, PTL

\* What a failing save leaves in the store can always be restored.
THEOREM StoresAreRestorable == TransferSpec => []SavedIsRestorable
<1>1. TransferInv => SavedIsRestorable
  BY Zenon DEF TransferInv, UploadInv, Standing, SavedIsRestorable
<1> QED BY <1>1, TransferInvariant, PTL

\* The relay refuses no frame of the upload but for its lease.
THEOREM OwnFramesAccepted == TransferSpec => []OwnUploadAccepted
<1>1. ASSUME Inv, TransferInv, NEW key \in ReplayKeys, replays[key] # None,
             replays[key].request \in MyFrames
      PROVE  Succeeded(replays[key].response) \/ OutOfTime(replays[key].response)
  <2>1. PICK f \in MyFrames : f = replays[key].request
    BY <1>1, Zenon
  <2>2. KeyOf(f) = key
    BY <1>1, <2>1, Zenon DEF TransferInv, RecordsKeyed
  <2>3. OnRecord(f) /\ Recorded(f) = replays[key].response
    BY <1>1, <2>1, <2>2, Zenon DEF OnRecord, Recorded
  <2>4. PICK s \in 0 .. Commit : f.request = StageRequest(s)
    BY DEF MyFrames
  <2> QED BY <1>1, <2>3, <2>4, Zenon DEF TransferInv, RecordsTrue
<1>2. Inv /\ TransferInv => OwnUploadAccepted
  BY <1>1, Zenon DEF OwnUploadAccepted
<1> QED BY <1>2, TransferInvariant, PTL

\* What download_blob assembles is the blob that was uploaded.
THEOREM DownloadsAreWhole == TransferSpec => []DownloadIsWhole
<1>1. ASSUME TransferInv, Assembled PROVE OpenBlob(got.manifest, got.chunks)
  <2>1. /\ got.manifest = MyManifest /\ got.chunks \in Seq(Ciphertexts)
        /\ Len(got.chunks) = Len(Chunks[MyManifest])
        /\ \A i \in DOMAIN got.chunks : got.chunks[i] = Chunks[MyManifest][i]
    BY <1>1, Zenon DEF TransferInv, DownloadInv, Assembled
  <2>2. got.chunks = Chunks[MyManifest]
    BY <2>1, BlobLength
  <2> QED BY <2>1, <2>2, Zenon DEF OpenBlob, MyBlob
<1>2. TransferInv => DownloadIsWhole
  BY <1>1, Zenon DEF DownloadIsWhole
<1> QED BY <1>2, TransferInvariant, PTL

\* A part of a completed upload is refused only when its lease has run out.
THEOREM CompletedBlobsAreReadable == TransferSpec => []CompletedIsReadable
<1>1. ASSUME Inv, TransferInv, NEW key \in ReplayKeys, replays[key] # None,
             replays[key].request \in DownloadFrames
      PROVE  \/ Succeeded(replays[key].response)
             \/ replays[key].response.status = "Expired"
  <2>1. PICK f \in DownloadFrames : f = replays[key].request
    BY <1>1, Zenon
  <2>2. KeyOf(f) = key
    BY <1>1, <2>1, Zenon DEF TransferInv, RecordsKeyed
  <2>3. OnRecord(f) /\ Recorded(f) = replays[key].response
    BY <1>1, <2>1, <2>2, Zenon DEF OnRecord, Recorded
  <2>4. PICK i \in 0 .. Len(Chunks[MyManifest]) : f.request = GetRequest(i)
    BY DEF DownloadFrames
  <2> QED BY <1>1, <2>3, <2>4, Zenon DEF TransferInv, RecordsTrue
<1>2. Inv /\ TransferInv => CompletedIsReadable
  BY <1>1, Zenon DEF CompletedIsReadable
<1> QED BY <1>2, TransferInvariant, PTL
=============================================================================
