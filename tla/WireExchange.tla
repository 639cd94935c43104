----------------------------- MODULE WireExchange -----------------------------
(***************************************************************************)
(* One exchange after another between a client and the relay, at the level *)
(* of bytes: the client encodes and signs a request, the daemon decodes    *)
(* what arrives, verifies the proof and encodes an answer, the client      *)
(* decodes it and checks whether it is the answer to its request.          *)
(*                                                                         *)
(* Signatures are ideal: the key of the signer yields the proof Signature, *)
(* which verifies for the signed bytes under their own profile and for     *)
(* nothing else.  What the relay does with a verified request is not       *)
(* modelled here: any result of its command may come back.  Answers        *)
(* without a frame (overload, storage failure) end in the transport and    *)
(* are modelled in Permits and DurableRelay.                               *)
(***************************************************************************)
EXTENDS WireCodec, TLC

CONSTANTS
  Requests,       \* the requests a client makes: [profile, request_id, command, fields]
  Bodies(_, _),   \* the results of a command of a profile
  Signature,      \* a proof, as bytes
  Garble,         \* what damage may put in the place of a byte
  MaxDamage       \* how often an exchange may be damaged

ASSUME WireAssumption ==
  /\ Len(Signature) = BlobAuthBytes /\ BlobAuthBytes <= MaxAuthBytes
  /\ MaxDamage \in Nat
  /\ \A r \in Requests : r.command # NoCommand

VARIABLES
  leg,       \* where the exchange is: idle, request, response or done
  sent,      \* the request the client made
  bytes,     \* what is on the wire
  intact,    \* whether that is as it was sent
  damage,    \* how often this exchange was damaged
  arrived,   \* the bytes the relay received
  heard,     \* what the relay decoded
  answer,    \* the response the relay encoded
  got        \* what the client made of it

vars == <<leg, sent, bytes, intact, damage, arrived, heard, answer, got>>

Blob == "blob"
Queue == "queue"
AuthInvalid(profile) == IF profile = Queue THEN 14 ELSE 13
StatusesOf(profile) == IF profile = Queue THEN Statuses ELSE BlobStatuses

Response(id, command, status, body) ==
  [request_id |-> id, command |-> command, status |-> status, body |-> body]

\* The bytes that are signed, and the frame.
AuthenticatedBytes(r) ==
  IF r.profile = Queue
    THEN EncodeAuthenticatedRequest(r.request_id, r.command, r.fields)
    ELSE EncodeBlobAuthenticatedRequest(r.request_id, r.command, r.fields)
EncodeFrame(profile, r) ==
  IF profile = Queue THEN EncodeRequest(r) ELSE EncodeBlobRequest(r)
SignedFrame(r) == EncodeFrame(r.profile, [auth |-> Signature] @@ r)

Decode(profile, frame) ==
  IF profile = Queue THEN DecodeRequest(frame) ELSE DecodeBlobRequest(frame)
EncodeAnswer(profile, response) ==
  IF profile = Queue THEN EncodeResponse(response) ELSE EncodeBlobResponse(response)
DecodeAnswer(profile, frame) ==
  IF profile = Queue THEN DecodeResponse(frame) ELSE DecodeBlobResponse(frame)

Init ==
  /\ leg = "idle" /\ sent = <<>> /\ bytes = <<>> /\ intact = TRUE /\ damage = 0
  /\ arrived = <<>> /\ heard = <<>> /\ answer = <<>> /\ got = <<>>

SendRequest(r) ==
  /\ leg = "idle"
  /\ leg' = "request"
  /\ sent' = r
  /\ bytes' = SignedFrame(r)
  /\ UNCHANGED <<intact, damage, arrived, heard, answer, got>>

\* Damage to what is on the wire: the byte at a place is replaced, by nothing or
\* by other bytes, or everything from there on is lost.
Altered(place, g) ==
  SubSeq(bytes, 1, place - 1) \o g \o SubSeq(bytes, place + 1, Len(bytes))
Damage ==
  /\ leg \in {"request", "response"}
  /\ damage < MaxDamage
  /\ \E place \in 1 .. Len(bytes) :
       bytes' \in {Altered(place, g) : g \in Garble}
                    \cup {SubSeq(bytes, 1, place - 1)}
  /\ bytes' # bytes
  /\ intact' = FALSE
  /\ damage' = damage + 1
  /\ UNCHANGED <<leg, sent, arrived, heard, answer, got>>

\* The daemon answers what it cannot decode with the identifier it finds where
\* one should be.
PrefixFromVersion(frame) ==   \* variant: starts one byte early
  IF Len(frame) >= PreambleBytes THEN SubSeq(frame, 1, RequestIdBytes)
  ELSE [i \in 1 .. RequestIdBytes |-> 0]
RequestIdFromPrefix(frame) ==
  IF Len(frame) >= PreambleBytes THEN RequestIdOf(frame)
  ELSE [i \in 1 .. RequestIdBytes |-> 0]

DecodeErrorResponse(frame, error) ==
  Response(RequestIdFromPrefix(frame), NoCommand,
    CASE error = "UnsupportedVersion" -> UnsupportedVersion
      [] error = "FrameTooLarge" -> FrameTooLarge
      [] OTHER -> MalformedFrame, <<>>)
BlobDecodeErrorResponse(frame, error) ==
  Response(RequestIdFromPrefix(frame), NoCommand,
    CASE error = "UnsupportedVersion" -> UnsupportedVersion
      [] error = "FrameTooLarge" -> FrameTooLarge
      [] error = "InvalidCommand" -> UnknownCommand
      [] OTHER -> MalformedFrame, <<>>)

VerifiedPayload(decoded) ==   \* variant: the proof leaves the preamble out
  /\ decoded.auth = Signature
  /\ LET payload(b) == SubSeq(b, PreambleBytes + 1, Len(b))
     IN  payload(decoded.authenticated) = payload(AuthenticatedBytes(sent))
Verified(decoded) ==
  /\ decoded.auth = Signature
  /\ decoded.authenticated = AuthenticatedBytes(sent)

\* A result of the command, or a refusal by the relay or its replay protection.
Results(decoded) ==
  {Response(decoded.request_id, decoded.command, Ok, b) :
     b \in Bodies(sent.profile, decoded.command)}
    \cup {Response(decoded.request_id, decoded.command, s, <<>>) :
            s \in {s \in StatusesOf(sent.profile) : s > UnknownCommand}
                    \ {AuthInvalid(sent.profile)}}

AnswersTo(decoded) ==
  LET refused == IF sent.profile = Queue
                   THEN DecodeErrorResponse(bytes, decoded.error)
                   ELSE BlobDecodeErrorResponse(bytes, decoded.error)
      unverified == Response(decoded.request_id, decoded.command,
                             AuthInvalid(sent.profile), <<>>)
  IN  IF decoded.error # NoError THEN {refused}
      ELSE IF ~Verified(decoded) THEN {unverified}
      ELSE Results(decoded)

Answer ==
  /\ leg = "request"
  /\ leg' = "response"
  /\ arrived' = bytes
  /\ heard' = Decode(sent.profile, bytes)
  /\ answer' \in AnswersTo(heard')
  /\ bytes' = EncodeAnswer(sent.profile, answer')
  /\ intact' = TRUE
  /\ UNCHANGED <<sent, damage, got>>

\* checked_response, and the same checks in the blob client's exchange: only an
\* answer to this request and this command counts.
CheckedAnyCommand(response) ==   \* variant: the command is not compared
  IF response.error = NoError /\ response.request_id # sent.request_id
    THEN Refuse("ResponseMismatch") ELSE response
Checked(response) ==
  IF /\ response.error = NoError
     /\ \/ response.request_id # sent.request_id
        \/ response.command # sent.command
    THEN Refuse("ResponseMismatch") ELSE response

ReceiveResponse ==
  /\ leg = "response"
  /\ leg' = "done"
  /\ got' = Checked(DecodeAnswer(sent.profile, bytes))
  /\ UNCHANGED <<sent, bytes, intact, damage, arrived, heard, answer>>

\* The call returns; the client keeps nothing of the exchange but its result.
Return ==
  /\ leg = "done"
  /\ leg' = "idle" /\ sent' = <<>> /\ bytes' = <<>> /\ intact' = TRUE /\ damage' = 0
  /\ arrived' = <<>> /\ heard' = <<>> /\ answer' = <<>> /\ got' = <<>>

Next ==
  \/ \E r \in Requests : SendRequest(r)
  \/ Damage
  \/ Answer
  \/ ReceiveResponse
  \/ Return

Spec == Init /\ [][Next]_vars

-----------------------------------------------------------------------------
(* Properties.                                                             *)

Answered == leg \in {"response", "done"}

SameRequest(decoded) ==
  /\ decoded.request_id = sent.request_id
  /\ decoded.command = sent.command
  /\ decoded.fields = sent.fields

\* A response as it is decoded.
Received(a) ==
  [error |-> NoError, request_id |-> a.request_id, command |-> a.command,
   status |-> a.status, body |-> a.body]

\* A frame that arrives as it was sent is understood as it was meant, in both
\* directions and at the largest sizes: the daemon decodes the request that
\* encode_request encoded, and the client decodes every answer of the daemon,
\* those to frames that do not decode included.
RoundTrip ==
  /\ Answered /\ arrived = SignedFrame(sent) =>
       /\ heard.error = NoError
       /\ SameRequest(heard)
       /\ Verified(heard)
  /\ leg = "response" /\ intact =>
       DecodeAnswer(sent.profile, bytes) = Received(answer)

\* decode_request and decode_response accept one encoding of a frame only: what
\* they accept, however it was damaged, is what the encoder makes of the frame
\* they return.  The byte comparison of the replay check relies on it.
Canonical ==
  /\ Answered =>
       (heard.error = NoError => EncodeFrame(sent.profile, heard) = arrived)
  /\ leg = "response" =>
       \A r \in {DecodeAnswer(sent.profile, bytes)} :
         r.error = NoError => EncodeAnswer(sent.profile, r) = bytes

\* What the daemon executes after verify_request is the request that was signed,
\* whatever happened to the bytes on the way.
ExecutedIsSent ==
  Answered /\ heard.error = NoError => (Verified(heard) => SameRequest(heard))

\* An answer the client accepts, and which was not altered on the way back, is
\* about its request: the daemon decoded a frame of that identifier and command,
\* and the very request unless it says AUTH_INVALID.
AcceptedIsAboutSent ==
  leg = "done" /\ intact /\ got.error = NoError =>
    /\ heard.error = NoError
    /\ heard.request_id = sent.request_id
    /\ heard.command = sent.command
    /\ got.status # AuthInvalid(sent.profile) => SameRequest(heard)

\* A client can tell which request an answer is about as long as the identifier
\* itself arrived: request_id_from_prefix finds it in frames of another version,
\* too long, malformed or cut short.
Correlated ==
  /\ Answered
  /\ Len(arrived) >= PreambleBytes
  /\ RequestIdOf(arrived) = sent.request_id
  => answer.request_id = sent.request_id
=============================================================================
