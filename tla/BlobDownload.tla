----------------------------- MODULE BlobDownload -----------------------------
(***************************************************************************)
(* download_blob of crates/cofferwire-client/src/blob.rs, composed with    *)
(* the uploader and the blob relay.                                        *)
(*                                                                         *)
(* download_blob asks for the manifest and then for one chunk after the    *)
(* other, each under a fresh request identifier, and fails as a whole at   *)
(* the first answer that is late, refused or missing; the application may  *)
(* call it again.  It is called for blobs whose upload is complete.        *)
(***************************************************************************)
EXTENDS BlobUpload

CONSTANT MaxGets     \* bound on the downloader's request identifiers

VARIABLES
  got,        \* the manifest and the chunks of the running call
  asked,      \* the frame inside transport.exchange(), or None
  nextGet     \* RequestIdSource

download == <<got, asked, nextGet>>
transferVars == <<uploadVars, download>>

MyBlob == Identify[MyManifest]
Nothing == [manifest |-> None, chunks |-> <<>>]

GetRequest(index) ==
  IF index = 0
  THEN [command |-> "GET_MANIFEST", blob |-> MyBlob, cap |-> MyCaps["download"]]
  ELSE [command |-> "GET_CHUNK", blob |-> MyBlob, cap |-> MyCaps["download"],
        index |-> index]

DownloadFrames ==
  {[request_id |-> id, request |-> GetRequest(i)] :
     id \in 1 .. MaxGets, i \in 0 .. Len(Chunks[MyManifest])}

ASSUME DownloadAssumption ==
  /\ MaxGets \in Nat
  /\ BlobFrames = MyFrames \cup DownloadFrames

TransferInit ==
  /\ UploadInit
  /\ got = Nothing
  /\ asked = None
  /\ nextGet = 1

\* Every chunk the manifest lists has been asked for and answered.
Assembled ==
  got.manifest # None /\ Len(got.chunks) = Len(Chunks[got.manifest])

\* open_blob: identity, count, order and digests.
OpenBlob(manifest, ciphertexts) ==
  Identify[manifest] = MyBlob /\ ciphertexts = Chunks[manifest]

\* exchange() up to the answer.
Ask ==
  LET index == IF got.manifest = None THEN 0 ELSE Len(got.chunks) + 1
      f == [request_id |-> nextGet, request |-> GetRequest(index)]
  IN  /\ stage = Complete
      /\ asked = None
      /\ ~Assembled
      /\ nextGet <= MaxGets
      /\ asked' = f
      /\ nextGet' = nextGet + 1
      /\ wire' = wire \cup {f}
      /\ UNCHANGED <<vars, stage, pending, saved, waiting, nextId, faults, got>>

\* The body of a response to the frame asked.
Body(t) ==
  IF asked.request.command = "GET_MANIFEST"
  THEN [got EXCEPT !.manifest = serving[t].reply.content]
  ELSE [got EXCEPT !.chunks = Append(@, serving[t].reply.content)]

\* The response answers the frame asked, and is a success.
AnswersAny(t) ==   \* variant: compares the command only
  /\ serving[t].frame.request.command = asked.request.command
  /\ Succeeded(serving[t].reply)
Answers(t) ==
  /\ serving[t].frame.request_id = asked.request_id
  /\ serving[t].frame.request.command = asked.request.command
  /\ Succeeded(serving[t].reply)

\* exchange() returns and download_blob goes on or fails.
Take(t) ==
  /\ asked # None
  /\ serving[t] # None /\ serving[t].frame \in DownloadFrames
  /\ Respond(t)
  /\ got' = IF Answers(t) THEN Body(t) ELSE Nothing
  /\ asked' = None
  /\ UNCHANGED <<nextGet, client>>

\* The transport gives up, and download_blob with it.
GiveUp ==
  /\ asked # None
  /\ asked' = None
  /\ got' = Nothing
  /\ Fault
  /\ UNCHANGED <<vars, stage, pending, saved, waiting, nextId, wire, nextGet>>

TransferNext ==
  \/ UploadNext /\ UNCHANGED download
  \/ Ask
  \/ \E t \in Threads : Take(t)
  \/ GiveUp

TransferSpec == TransferInit /\ [][TransferNext]_transferVars

\* The application keeps calling advance(), and the transport's deadline ends a
\* wait for nothing.  Deliveries are not put off for ever.  Exchanges may fail and
\* answers be lost any number of times, but not every time.
Fairness ==
  /\ WF_transferVars(StartAdvance /\ UNCHANGED download)
  /\ WF_transferVars(Abandon /\ UNCHANGED download)
  /\ \A t \in Threads :
       /\ WF_transferVars(\E f \in wire : Deliver(t, f) /\ UNCHANGED download)
       /\ SF_transferVars(Exchange(t) /\ UNCHANGED <<client, download>>)
       /\ SF_transferVars(FinishAdvance(t) /\ UNCHANGED download)

FairTransfer == TransferSpec /\ Fairness

-----------------------------------------------------------------------------
(* What a download promises.                                               *)

\* What download_blob has assembled opens (open_blob at its end cannot fail for
\* what an honest relay served): no answer to an earlier call, and no chunk of
\* another index, finds its way into it.
DownloadIsWhole == Assembled => OpenBlob(got.manifest, got.chunks)

\* Once the uploader has seen its upload complete, the relay refuses to serve no
\* part of it, unless the lease has run out.
CompletedIsReadable ==
  \A key \in ReplayKeys :
    /\ replays[key] # None
    /\ replays[key].request \in DownloadFrames
    => \/ Succeeded(replays[key].response)
       \/ replays[key].response.status = "Expired"
=============================================================================
