------------------------------ MODULE WireCodec ------------------------------
(***************************************************************************)
(* Frames as bytes: crates/cofferwire-codec/src/lib.rs for the queue       *)
(* profile, crates/cofferwire-codec/src/blob.rs for the blob profile, and  *)
(* the answers of apps/cofferwired/src/lib.rs to frames that do not decode.*)
(*                                                                         *)
(* A request is [request_id, command, fields, auth]; a response is         *)
(* [request_id, command, status, body].  Fields and bodies are the values  *)
(* of the body array in wire order, command 0 is `no command'.  Encoders   *)
(* and decoders are separate definitions, as they are separate functions   *)
(* in the code.  The sizes are parameters.  Of a manifest, the magic and   *)
(* version words are one byte, the three numbers one byte each and the     *)
(* salt is left out.                                                       *)
(***************************************************************************)
EXTENDS Cbor

CONSTANTS
  RequestIdBytes,     \* 16 in the code
  IdBytes,            \* 32: identifiers and public keys
  MaxFrameBytes,      \* 65,536
  MaxAuthBytes,       \* 1,024
  MaxMessageBytes,    \* 64,374
  MaxBlobFrameBytes,  \* 1,049,600
  BlobAuthBytes,      \* 68
  TagBytes,           \* 16: what encryption adds to a chunk
  MaxManifestBytes,   \* 1,048,616
  MinChunkBytes, MaxChunkBytes,
  MinPaddedBytes, MaxPaddedBytes,
  MaxChunks           \* 32,768

Version == 1
PreambleBytes == 1 + RequestIdBytes
NoCommand == 0

Ok == 0
UnsupportedVersion == 1
MalformedFrame == 2
FrameTooLarge == 3
UnknownCommand == 4
Commands == 1 .. 5         \* CREATE_QUEUE, SEND, FETCH, ACK, DELETE_QUEUE
Statuses == 0 .. 16
BlobCommands == 1 .. 7     \* BEGIN_UPLOAD, PUT_CHUNK, COMMIT, GET_MANIFEST,
                           \* GET_CHUNK, RENEW, DELETE
BlobStatuses == 0 .. 14

EncodePreamble(id) == <<Version>> \o id

\* The error of a preamble: too long a frame, too short a frame, or a version
\* other than 1.
PreambleError(bytes, max) ==
  IF Len(bytes) > max THEN "FrameTooLarge"
  ELSE IF Len(bytes) < PreambleBytes THEN "Truncated"
  ELSE IF bytes[1] = 0 THEN "ReservedVersion"
  ELSE IF bytes[1] # Version THEN "UnsupportedVersion"
  ELSE NoError

RequestIdOf(bytes) == SubSeq(bytes, 2, PreambleBytes)

Start(bytes, max) == Failed(DecoderAt(PreambleBytes), PreambleError(bytes, max))

\* Nothing may follow the last item.
Finish(bytes, d) ==
  IF d.error = NoError /\ d.at # Len(bytes) THEN Failed(d, "TrailingBytes") ELSE d

Refuse(error) == [error |-> error]

\* What a decoded request is: the proof is the last value read, and it covers
\* everything up to the end of the body.
DecodedRequest(bytes, body, end) ==
  IF end.error # NoError THEN Refuse(end.error)
  ELSE [error |-> NoError,
        request_id |-> RequestIdOf(bytes),
        command |-> Head(end.read),
        fields |-> Tail(body.read),
        auth |-> Last(end.read),
        authenticated |-> SubSeq(bytes, 1, body.at)]

DecodeProof(bytes, body, auth) ==
  DecodedRequest(bytes, body, Finish(bytes, ReadItem(bytes, body, auth)))

DecodedResponse(bytes, end) ==
  IF end.error # NoError THEN Refuse(end.error)
  ELSE [error |-> NoError,
        request_id |-> RequestIdOf(bytes),
        command |-> end.read[1],
        status |-> end.read[2],
        body |-> SubSeq(end.read, 3, Len(end.read))]

Within(S) == Unsigned(Min(S), Max(S))
Id == Bytes(IdBytes, IdBytes)
AnyNumber == Unsigned(0, U64Max)
Outcome == Unsigned(0, 1)
Proof == Bytes(0, MaxAuthBytes)
BlobProof == Bytes(BlobAuthBytes, BlobAuthBytes)

-----------------------------------------------------------------------------
(* Queue requests.                                                         *)

EncodeRequestPayload(command, f) ==
  EncodeArray(3) \o EncodeUnsigned(0) \o EncodeUnsigned(command) \o
  CASE command = 1 ->
         EncodeArray(5) \o EncodeBytes(f[1]) \o EncodeBytes(f[2])
           \o EncodeBytes(f[3]) \o EncodeUnsigned(f[4]) \o EncodeUnsigned(f[5])
    [] command = 2 ->
         EncodeArray(5) \o EncodeBytes(f[1]) \o EncodeBytes(f[2])
           \o EncodeBytes(f[3]) \o EncodeBytes(f[4]) \o EncodeUnsigned(f[5])
    [] command = 4 ->
         EncodeArray(3) \o EncodeBytes(f[1]) \o EncodeBytes(f[2]) \o EncodeBytes(f[3])
    [] command \in {3, 5} ->
         EncodeArray(2) \o EncodeBytes(f[1]) \o EncodeBytes(f[2])

EncodeAuthenticatedRequest(id, command, fields) ==
  EncodePreamble(id) \o EncodeRequestPayload(command, fields)
EncodeRequest(r) ==
  EncodeAuthenticatedRequest(r.request_id, r.command, r.fields) \o EncodeBytes(r.auth)

\* The longest payload that SEND may carry and FETCH may deliver.
PayloadShort == Bytes(0, MaxMessageBytes - 1)   \* variant: one byte less
Payload == Bytes(0, MaxMessageBytes)

\* The limits that QueueLimits::new accepts.
QueueLimits == <<Unsigned(1, U64Max), Unsigned(1, MaxMessageBytes)>>

\* What decode_request_body reads.
RequestBody(command) ==
  CASE command = 1 -> <<Array(5), Id, Id, Id>> \o QueueLimits
    [] command = 2 -> <<Array(5), Id, Id, Id, Payload, AnyNumber>>
    [] command = 4 -> <<Array(3), Id, Id, Id>>
    [] command \in {3, 5} -> <<Array(2), Id, Id>>

DecodeRequestBody(bytes, head) ==
  IF head.error # NoError THEN Refuse(head.error)
  ELSE DecodeProof(bytes,
         ReadItems(bytes, head, RequestBody(Head(head.read))), Proof)

DecodeRequest(bytes) ==
  DecodeRequestBody(bytes,
    ReadItems(bytes, Start(bytes, MaxFrameBytes),
              <<Array(3), Expected(0), Within(Commands)>>))

-----------------------------------------------------------------------------
(* Queue responses.                                                        *)

EncodeSuccessBody(command, b) ==
  CASE command \in {1, 2} -> EncodeArray(1) \o EncodeUnsigned(b[1])
    [] command = 3 /\ b = <<>> -> EncodeArray(1) \o EncodeUnsigned(0)
    [] command = 3 /\ b # <<>> ->
         EncodeArray(4) \o EncodeUnsigned(1) \o EncodeBytes(b[1])
           \o EncodeBytes(b[2]) \o EncodeUnsigned(b[3])
    [] command \in {4, 5} -> EncodeArray(0)

EncodeResponse(r) ==
  EncodePreamble(r.request_id) \o EncodeArray(4) \o EncodeUnsigned(1)
    \o EncodeUnsigned(r.command) \o EncodeUnsigned(r.status)
    \o IF r.status = Ok THEN EncodeSuccessBody(r.command, r.body) ELSE EncodeArray(0)

\* What decode_response_body reads: FETCH has two forms.
ResponseBodies(command) ==
  CASE command \in {1, 2} -> {<<Array(1), Outcome>>}
    [] command = 3 -> {<<Array(1), Expected(0)>>,
                       <<Array(4), Expected(1), Id, Payload, AnyNumber>>}
    [] command \in {4, 5} -> {<<Array(0)>>}

Best(readings) ==
  IF \E r \in readings : r.error = NoError
    THEN CHOOSE r \in readings : r.error = NoError
    ELSE CHOOSE r \in readings : TRUE
ReadOneOf(bytes, d, forms) == Best({ReadItems(bytes, d, form) : form \in forms})

\* A success is read by its command; an error has an empty body, and a command
\* or none.
DecodeResponseBody(bytes, head) ==
  LET command == head.read[1]
      ok == head.read[2] = Ok
      forms == IF ok THEN ResponseBodies(command) ELSE {<<Array(0)>>}
  IN  IF head.error # NoError THEN Refuse(head.error)
      ELSE IF command \notin Commands \cup (IF ok THEN {} ELSE {NoCommand})
        THEN Refuse("InvalidValue")
      ELSE DecodedResponse(bytes, Finish(bytes, ReadOneOf(bytes, head, forms)))

DecodeResponse(bytes) ==
  DecodeResponseBody(bytes,
    ReadItems(bytes, Start(bytes, MaxFrameBytes),
              <<Array(4), Expected(1), AnyNumber, Within(Statuses)>>))

-----------------------------------------------------------------------------
(* Manifests, as BlobManifest::parse accepts them.                         *)

ManifestMark == 67
ManifestHeader == 4

PowerOfTwo(n) == \E k \in 0 .. n : n = 2 ^ k

Parses(manifest) ==
  LET padded == manifest[2]
      chunk == manifest[3]
      count == manifest[4]
  IN  /\ Len(manifest) >= ManifestHeader + IdBytes
      /\ manifest[1] = ManifestMark
      /\ chunk \in MinChunkBytes .. MaxChunkBytes /\ PowerOfTwo(chunk)
      /\ padded \in MinPaddedBytes .. MaxPaddedBytes /\ PowerOfTwo(padded)
      /\ padded % chunk = 0
      /\ count \in 1 .. MaxChunks
      /\ padded \div chunk = count
      /\ Len(manifest) = ManifestHeader + IdBytes * count

Manifest == Bytes(0, MaxManifestBytes)

\* The body `d' was read from is refused when its k-th value should be a
\* manifest, for k # 0, and is none.
ParseManifest(d, k) ==
  IF k # 0 /\ d.error = NoError /\ ~Parses(d.read[k])
    THEN Failed(d, "InvalidValue") ELSE d

-----------------------------------------------------------------------------
(* Blob requests.                                                          *)

EncodeBlobRequestBody(command, f) ==
  CASE command = 1 ->
         EncodeArray(7) \o EncodeBytes(f[1]) \o EncodeBytes(f[2])
           \o EncodeBytes(f[3]) \o EncodeBytes(f[4]) \o EncodeBytes(f[5])
           \o EncodeBytes(f[6]) \o EncodeUnsigned(f[7])
    [] command = 2 ->
         EncodeArray(4) \o EncodeBytes(f[1]) \o EncodeBytes(f[2])
           \o EncodeUnsigned(f[3]) \o EncodeBytes(f[4])
    [] command = 3 ->
         EncodeArray(3) \o EncodeBytes(f[1]) \o EncodeBytes(f[2]) \o EncodeBytes(f[3])
    [] command \in {4, 7} ->
         EncodeArray(2) \o EncodeBytes(f[1]) \o EncodeBytes(f[2])
    [] command \in {5, 6} ->
         EncodeArray(3) \o EncodeBytes(f[1]) \o EncodeBytes(f[2]) \o EncodeUnsigned(f[3])

EncodeBlobAuthenticatedRequest(id, command, fields) ==
  EncodePreamble(id) \o EncodeArray(3) \o EncodeUnsigned(0) \o EncodeUnsigned(command)
    \o EncodeBlobRequestBody(command, fields)
EncodeBlobRequest(r) ==
  EncodeBlobAuthenticatedRequest(r.request_id, r.command, r.fields)
    \o EncodeBytes(r.auth)

Ttl == Unsigned(1, U64Max)
ChunkIndex == Unsigned(0, U32Max)
Chunk == Bytes(0, MaxChunkBytes + TagBytes)

BlobRequestBody(command) ==
  CASE command = 1 -> <<Array(7), Id, Id, Id, Id, Id, Manifest, Ttl>>
    [] command = 2 -> <<Array(4), Id, Id, ChunkIndex, Chunk>>
    [] command = 3 -> <<Array(3), Id, Id, Id>>
    [] command \in {4, 7} -> <<Array(2), Id, Id>>
    [] command = 5 -> <<Array(3), Id, Id, ChunkIndex>>
    [] command = 6 -> <<Array(3), Id, Id, Ttl>>

\* The position of the manifest among the values of a request or a response.
ManifestOfRequest(command) == IF command = 1 THEN 7 ELSE 0
ManifestOfResponse(command, status) == IF command = 4 /\ status = Ok THEN 3 ELSE 0

DecodeBlobRequestBody(bytes, head) ==
  IF head.error # NoError THEN Refuse(head.error)
  ELSE DecodeProof(bytes,
         ParseManifest(ReadItems(bytes, head, BlobRequestBody(Head(head.read))),
                       ManifestOfRequest(Head(head.read))),
         BlobProof)

DecodeBlobRequest(bytes) ==
  DecodeBlobRequestBody(bytes,
    ReadItems(bytes, Start(bytes, MaxBlobFrameBytes),
              <<Array(3), Expected(0),
                [Within(BlobCommands) EXCEPT !.fault = "InvalidCommand"]>>))

-----------------------------------------------------------------------------
(* Blob responses.                                                         *)

EncodeBlobResponseBody(command, b) ==
  CASE command \in {1, 2, 3, 6} -> EncodeArray(1) \o EncodeUnsigned(b[1])
    [] command \in {4, 5} -> EncodeArray(2) \o EncodeBytes(b[1]) \o EncodeUnsigned(b[2])
    [] command = 7 -> EncodeArray(0)

EncodeBlobResponse(r) ==
  EncodePreamble(r.request_id) \o EncodeArray(4) \o EncodeUnsigned(1)
    \o EncodeUnsigned(r.command) \o EncodeUnsigned(r.status)
    \o IF r.status = Ok THEN EncodeBlobResponseBody(r.command, r.body) ELSE EncodeArray(0)

BlobResponseBodyItems(command) ==
  CASE command \in {1, 2} -> <<Array(1), Outcome>>
    [] command \in {3, 6} -> <<Array(1), AnyNumber>>
    [] command = 4 -> <<Array(2), Manifest, AnyNumber>>
    [] command = 5 -> <<Array(2), Chunk, AnyNumber>>
    [] command = 7 -> <<Array(0)>>

DecodeBlobResponseBody(bytes, head) ==
  LET command == head.read[1]
      ok == head.read[2] = Ok
      items == IF ok THEN BlobResponseBodyItems(command) ELSE <<Array(0)>>
  IN  IF head.error # NoError THEN Refuse(head.error)
      ELSE IF ok /\ command = NoCommand THEN Refuse("InvalidValue")
      ELSE DecodedResponse(bytes, Finish(bytes,
             ParseManifest(ReadItems(bytes, head, items),
                           ManifestOfResponse(command, head.read[2]))))

DecodeBlobResponse(bytes) ==
  DecodeBlobResponseBody(bytes,
    ReadItems(bytes, Start(bytes, MaxBlobFrameBytes),
              <<Array(4), Expected(1), Within({NoCommand} \cup BlobCommands),
                Within(BlobStatuses)>>))

-----------------------------------------------------------------------------
(* The frames of every request fit their limit.                            *)

HeadBytes(n) ==
  IF n < 24 THEN 1
  ELSE LET fits(i) == n \div 256 ^ (Widths[i] - 1) < 256
       IN  1 + Widths[CHOOSE i \in DOMAIN Widths : fits(i) /\ \A j \in 1 .. i - 1 : ~fits(j)]
StringBytes(n) == HeadBytes(n) + n
NumberBytes == 1 + Last(Widths)
HeaderBytes == PreambleBytes + 4    \* and the array, direction, command and body array

LongestSend ==
  HeaderBytes + 3 * StringBytes(IdBytes) + StringBytes(MaxMessageBytes)
    + NumberBytes + StringBytes(MaxAuthBytes)
LongestBegin ==
  HeaderBytes + 5 * StringBytes(IdBytes) + StringBytes(MaxManifestBytes)
    + NumberBytes + StringBytes(BlobAuthBytes)
LongestPut ==
  HeaderBytes + 2 * StringBytes(IdBytes) + 1 + Widths[Len(Widths) - 1]
    + StringBytes(MaxChunkBytes + TagBytes) + StringBytes(BlobAuthBytes)

\* MAX_MESSAGE_BYTES is what MAX_FRAME_BYTES leaves for a payload.
ASSUME FrameAssumption ==
  /\ LongestSend <= MaxFrameBytes
  /\ LongestBegin <= MaxBlobFrameBytes
  /\ LongestPut <= MaxBlobFrameBytes
=============================================================================
