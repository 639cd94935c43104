------------------------------- MODULE MCWire -------------------------------
(***************************************************************************)
(* Instances for TLC of what crosses between the parties: the frames of    *)
(* WireExchange, receipts and offline bundles.  Identifiers have one byte, *)
(* and the other sizes are such that the longest SEND fills a frame        *)
(* exactly, as it does in the code.                                        *)
(***************************************************************************)
EXTENDS WireExchange, Receipts, Bundles

MCWidths == <<1, 2, 3>>
MCSignature == <<7, 24>>

A == <<1>>
B == <<2>>
C == <<3>>
Full == [i \in 1 .. MaxMessageBytes |-> 64]
Sealed == [i \in 1 .. MaxChunkBytes + TagBytes |-> 64]

\* Numbers on both sides of every change of width.
Numbers == {0, 1, 23, 24, 255, 256, 65535, 65536, U64Max}

Request(profile, command, fields) ==
  [profile |-> profile, request_id |-> C, command |-> command, fields |-> fields]

OneChunk == <<ManifestMark, 2, 2, 1, 5>>
TwoChunks == <<ManifestMark, 4, 2, 2, 5, 24>>

QueueRequests ==
  {Request(Queue, 1, <<A, B, C, n, MaxMessageBytes>>) : n \in {1, U64Max}} \cup
  {Request(Queue, 2, <<A, B, C, <<1>>, n>>) : n \in Numbers} \cup
  {Request(Queue, 2, <<A, B, C, Full, U64Max>>),
   Request(Queue, 2, <<A, B, C, <<>>, 1>>),
   Request(Queue, 3, <<A, B>>),
   Request(Queue, 4, <<A, B, C>>),
   Request(Queue, 5, <<A, B>>)}

BlobRequests ==
  {Request(Blob, 1, <<A, B, C, A, B, m, n>>) :
     m \in {OneChunk, TwoChunks}, n \in {1, U64Max}} \cup
  {Request(Blob, 2, <<A, B, n, c>>) : n \in {0, U32Max}, c \in {<<>>, Sealed}} \cup
  {Request(Blob, 5, <<A, B, n>>) : n \in {23, 256, U32Max}} \cup
  {Request(Blob, 6, <<A, B, n>>) : n \in {24, U64Max}} \cup
  {Request(Blob, 3, <<A, B, C>>),
   Request(Blob, 4, <<A, B>>),
   Request(Blob, 7, <<A, B>>)}

MCRequests == QueueRequests \cup BlobRequests

MCBodies(profile, command) ==
  IF profile = Queue
    THEN CASE command \in {1, 2} -> {<<0>>, <<1>>}
           [] command = 3 -> {<<>>, <<A, <<>>, 24>>, <<A, Full, U64Max>>}
           [] command \in {4, 5} -> {<<>>}
    ELSE CASE command \in {1, 2} -> {<<0>>, <<1>>}
           [] command \in {3, 6} -> {<<n>> : n \in {1, 255, U64Max}}
           [] command = 4 -> {<<TwoChunks, U64Max>>}
           [] command = 5 -> {<<Sealed, 65536>>}
           [] command = 7 -> {<<>>}

\* Nothing, small numbers, empty and short byte strings and arrays, each also in
\* a form that is wider than needed, and the extremes.
MCGarble ==
  {<<>>, <<0>>, <<1>>, <<2>>, <<3>>, <<4>>, <<6>>, <<24>>, <<24, 1>>, <<24, 24>>,
   <<25, 0, 255>>, <<64>>, <<65>>, <<66>>, <<88, 1>>, <<128>>, <<129>>, <<130>>,
   <<131>>, <<152, 2>>, <<255>>}

\* The sizes of the code.
Code == INSTANCE WireCodec WITH
  Widths <- <<1, 2, 4, 8>>, RequestIdBytes <- 16, IdBytes <- 32,
  MaxFrameBytes <- 65536, MaxAuthBytes <- 1024, MaxMessageBytes <- 64374,
  MaxBlobFrameBytes <- 1049600, BlobAuthBytes <- 68, TagBytes <- 16,
  MinChunkBytes <- 32, MaxChunkBytes <- 1048576, MinPaddedBytes <- 64,
  MaxPaddedBytes <- 1073741824, MaxChunks <- 32768,
  MaxManifestBytes <- 1048616

\* With them the longest SEND fills a frame to the last byte, as it does here.
ASSUME SizeAssumption ==
  /\ Code!LongestSend = 65536
  /\ LongestSend = MaxFrameBytes
  /\ Code!LongestBegin <= 1049600
  /\ Code!LongestPut <= 1049600

-----------------------------------------------------------------------------
(* Receipts: messages that differ in the queue, the direction or the       *)
(* identifier only.                                                        *)

CONSTANTS alice, bob, hello, goodbye

ObjectOf(queue, sender, recipient, message) ==
  [queue_id |-> queue, sender |-> sender, recipient |-> recipient,
   message_id |-> message]
MCObjects ==
  {ObjectOf(1, alice, bob, 1), ObjectOf(2, alice, bob, 1), ObjectOf(1, bob, alice, 1)}

-----------------------------------------------------------------------------
(* Bundles: invitations and recoveries for two devices on two queues, with *)
(* no hints, the most and the longest ones, and too many or too long ones. *)

ExportOf(from, to, queue, bundle, role, peer, own, hints) ==
  [exporter |-> from, importer |-> to, queue_id |-> queue, bundle_id |-> bundle,
   fields |-> [role |-> role, peer |-> peer, peer_key |-> <<9>>, created |-> <<255>>,
               own |-> own, hints |-> hints]]
MCDevices == {A, B}
Seeds == <<<<4>>, <<5>>>>
LongHint == [i \in 1 .. MaxRelayHintBytes |-> 1]

MCExports ==
  {ExportOf(A, B, 1, 1, 0, A, <<>>, <<>>),
   ExportOf(A, B, 1, 2, 1, A, <<>>, [i \in 1 .. MaxRelayHints |-> LongHint]),
   ExportOf(A, B, 2, 3, 0, C, <<>>, <<LongHint, <<>>>>),
   ExportOf(A, B, 2, 4, 0, C, <<>>, [i \in 1 .. MaxRelayHints + 1 |-> <<1>>]),
   ExportOf(A, B, 2, 4, 0, C, <<>>, <<Append(LongHint, 1)>>),
   ExportOf(B, B, 1, 1, 0, A, Seeds, <<LongHint>>),
   ExportOf(B, A, 1, 2, 1, B, <<>>, <<<<>>>>)}

-----------------------------------------------------------------------------
(* The three share no state, so the instance follows one of them at a time.*)

FramesUntouched == leg = "idle"
ReceiptsUntouched == applied = {}
BundlesUntouched == envelopes = {}

WireInit == Init /\ ReceiptsInit /\ BundlesInit
WireNext ==
  \/ Next /\ ReceiptsUntouched /\ BundlesUntouched
     /\ UNCHANGED <<receiptVars, bundleVars>>
  \/ ReceiptsNext /\ FramesUntouched /\ BundlesUntouched
     /\ UNCHANGED <<vars, bundleVars>>
  \/ BundlesNext /\ FramesUntouched /\ ReceiptsUntouched
     /\ UNCHANGED <<vars, receiptVars>>

WireSpec == WireInit /\ [][WireNext]_<<vars, receiptVars, bundleVars>>
=============================================================================
