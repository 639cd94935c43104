------------------------------ MODULE WireProofs ------------------------------
(***************************************************************************)
(* What crosses between the parties, for any requests, damage, objects and *)
(* bundles: the daemon answers under the identifier that arrived, a        *)
(* confirmed object was applied, and an imported bundle was exported for   *)
(* the device that holds it.                                               *)
(***************************************************************************)
EXTENDS WireExchange, Receipts, Bundles, TLAPS

-----------------------------------------------------------------------------
(* Frames.                                                                 *)

\* The answer is about the identifier of the frame that arrived.
PrefixAnswered ==
  Answered /\ Len(arrived) >= PreambleBytes => answer.request_id = RequestIdOf(arrived)

\* What decode_request accepts has the identifier of the preamble: whatever the
\* body is, both profiles build the request from the same bytes.
LEMMA DecodedIdentifier ==
  ASSUME NEW profile, NEW frame, Decode(profile, frame).error = NoError
  PROVE  Decode(profile, frame).request_id = RequestIdOf(frame)
<1>1. ASSUME NEW body, NEW auth, DecodeProof(frame, body, auth).error = NoError
      PROVE  DecodeProof(frame, body, auth).request_id = RequestIdOf(frame)
  <2>. DEFINE end == Finish(frame, ReadItem(frame, body, auth))
  <2>1. DecodeProof(frame, body, auth) = DecodedRequest(frame, body, end)
    BY DEF DecodeProof
  <2>. HIDE DEF end
  <2>. QED  BY <1>1, <2>1 DEF DecodedRequest, Refuse
<1>2. ASSUME NEW head, DecodeRequestBody(frame, head).error = NoError
      PROVE  DecodeRequestBody(frame, head).request_id = RequestIdOf(frame)
  BY <1>1, <1>2 DEF DecodeRequestBody, Refuse
<1>3. ASSUME NEW head, DecodeBlobRequestBody(frame, head).error = NoError
      PROVE  DecodeBlobRequestBody(frame, head).request_id = RequestIdOf(frame)
  BY <1>1, <1>3 DEF DecodeBlobRequestBody, Refuse
<1>. QED  BY <1>2, <1>3 DEF Decode, DecodeRequest, DecodeBlobRequest

\* Every answer of the daemon carries the identifier of the frame: the refusal of
\* a frame that does not decode takes it from the preamble, the others from the
\* decoded request.
LEMMA AnswerIdentifier ==
  ASSUME Len(bytes) >= PreambleBytes,
         NEW a \in AnswersTo(Decode(sent.profile, bytes))
  PROVE  a.request_id = RequestIdOf(bytes)
<1>. DEFINE decoded == Decode(sent.profile, bytes)
<1>1. CASE decoded.error # NoError
  <2>1. RequestIdFromPrefix(bytes) = RequestIdOf(bytes)
    BY DEF RequestIdFromPrefix
  <2>2. DecodeErrorResponse(bytes, decoded.error).request_id = RequestIdOf(bytes)
    BY <2>1 DEF DecodeErrorResponse, Response
  <2>3. BlobDecodeErrorResponse(bytes, decoded.error).request_id = RequestIdOf(bytes)
    BY <2>1 DEF BlobDecodeErrorResponse, Response
  <2>. QED  BY <1>1, <2>2, <2>3 DEF AnswersTo
<1>2. CASE decoded.error = NoError
  <2>1. decoded.request_id = RequestIdOf(bytes)
    BY <1>2, DecodedIdentifier
  <2>2. ASSUME NEW r \in Results(decoded) PROVE r.request_id = decoded.request_id
    BY DEF Results, Response
  <2>. QED  BY <1>2, <2>1, <2>2 DEF AnswersTo, Response
<1>. QED  BY <1>1, <1>2

\* Each step keeps it: only Answer changes what arrived and the answer to it.
LEMMA ExchangeStep == PrefixAnswered /\ [Next]_vars => PrefixAnswered'
<1>. SUFFICES ASSUME PrefixAnswered, [Next]_vars PROVE PrefixAnswered'
  OBVIOUS
<1>1. CASE Answer
  <2>1. arrived' = bytes /\ answer' \in AnswersTo(Decode(sent.profile, bytes))
    BY <1>1 DEF Answer
  <2>. QED  BY <2>1, AnswerIdentifier DEF PrefixAnswered
<1>2. ASSUME NEW r \in Requests, SendRequest(r) PROVE PrefixAnswered'
  BY <1>2 DEF SendRequest, PrefixAnswered, Answered
<1>3. CASE Damage
  BY <1>3 DEF Damage, PrefixAnswered, Answered
<1>4. CASE ReceiveResponse
  BY <1>4 DEF ReceiveResponse, PrefixAnswered, Answered
<1>5. CASE Return
  BY <1>5 DEF Return, PrefixAnswered, Answered
<1>6. CASE UNCHANGED vars
  BY <1>6 DEF vars, PrefixAnswered, Answered
<1>. QED  BY <1>1, <1>2, <1>3, <1>4, <1>5, <1>6 DEF Next

\* A client can tell which request an answer of the daemon is about whenever the
\* identifier arrived, whatever else happened to the frame: of any size, damaged
\* in any way, in both profiles.
THEOREM AnswersCorrelated == Spec => []Correlated
<1>1. Init => PrefixAnswered
  BY DEF Init, PrefixAnswered, Answered
<1>2. PrefixAnswered => Correlated
  BY DEF PrefixAnswered, Correlated
<1>. QED  BY <1>1, <1>2, ExchangeStep, PTL DEF Spec

\* What the daemon's answer says of what it decoded: no command when the frame did
\* not decode, and otherwise the request's, which was verified unless the answer is
\* AUTH_INVALID.
AnswerAbout ==
  /\ heard.error # NoError => answer.command = NoCommand
  /\ heard.error = NoError =>
       /\ answer.request_id = heard.request_id
       /\ answer.command = heard.command
       /\ answer.status # AuthInvalid(sent.profile) => Verified(heard)

\* What the client ends with is the check of the answer the daemon gave, unless
\* that was altered on the way.
ExchangeInv ==
  /\ leg # "idle" => sent \in Requests
  /\ Answered => AnswerAbout
  /\ leg = "done" /\ intact => got = Checked(Received(answer))

\* Every answer is about what was decoded.
LEMMA AnswersAbout ==
  ASSUME NEW decoded, NEW a \in AnswersTo(decoded)
  PROVE  /\ decoded.error # NoError => a.command = NoCommand
         /\ decoded.error = NoError =>
              /\ a.request_id = decoded.request_id
              /\ a.command = decoded.command
              /\ a.status # AuthInvalid(sent.profile) => Verified(decoded)
<1>1. ASSUME NEW error
      PROVE  /\ \E s : DecodeErrorResponse(bytes, error)
                        = Response(RequestIdFromPrefix(bytes), NoCommand, s, <<>>)
             /\ \E s : BlobDecodeErrorResponse(bytes, error)
                        = Response(RequestIdFromPrefix(bytes), NoCommand, s, <<>>)
  BY Zenon DEF DecodeErrorResponse, BlobDecodeErrorResponse
<1>2. CASE decoded.error # NoError
  <2>1. PICK s : a = Response(RequestIdFromPrefix(bytes), NoCommand, s, <<>>)
    BY <1>1, <1>2, Zenon DEF AnswersTo
  <2>. QED  BY <1>2, <2>1 DEF Response
<1>3. CASE decoded.error = NoError /\ ~Verified(decoded)
  <2>1. a = Response(decoded.request_id, decoded.command, AuthInvalid(sent.profile), <<>>)
    BY <1>3, Zenon DEF AnswersTo
  <2>. QED  BY <1>3, <2>1 DEF Response
<1>4. CASE decoded.error = NoError /\ Verified(decoded)
  <2>1. a \in Results(decoded)
    BY <1>4, Zenon DEF AnswersTo
  <2>2. PICK s, b : a = Response(decoded.request_id, decoded.command, s, b)
    BY <2>1, Zenon DEF Results
  <2>. QED  BY <1>4, <2>2 DEF Response
<1>. QED  BY <1>2, <1>3, <1>4

\* Each step keeps it: the client receives what the daemon sent when both decode
\* what arrives unaltered.
LEMMA AcceptanceStep == ExchangeInv /\ RoundTrip /\ [Next]_vars => ExchangeInv'
<1>. SUFFICES ASSUME ExchangeInv, RoundTrip, [Next]_vars PROVE ExchangeInv'
  OBVIOUS
<1>1. CASE Answer
  <2>1. /\ leg = "request" /\ leg' = "response" /\ sent' = sent
        /\ answer' \in AnswersTo(heard')
    BY <1>1 DEF Answer
  <2>2. PICK decoded, a : decoded = heard' /\ a = answer'
    OBVIOUS
  <2>3. a \in AnswersTo(decoded)
    BY <2>1, <2>2
  <2>4. /\ decoded.error # NoError => a.command = NoCommand
        /\ decoded.error = NoError =>
             /\ a.request_id = decoded.request_id
             /\ a.command = decoded.command
             /\ a.status # AuthInvalid(sent.profile) => Verified(decoded)
    BY <2>3, AnswersAbout
  <2>5. Verified(decoded) => Verified(heard)'
    BY <2>1, <2>2 DEF Verified
  <2>6. AnswerAbout'
    BY <2>1, <2>2, <2>4, <2>5 DEF AnswerAbout
  <2>. QED  BY <2>1, <2>6 DEF ExchangeInv
<1>2. ASSUME NEW r \in Requests, SendRequest(r) PROVE ExchangeInv'
  BY <1>2 DEF SendRequest, ExchangeInv, Answered
<1>3. CASE Damage
  BY <1>3 DEF Damage, ExchangeInv, Answered, AnswerAbout, Verified
<1>4. CASE ReceiveResponse
  <2>1. /\ leg = "response" /\ leg' = "done"
        /\ UNCHANGED <<sent, intact, heard, answer>>
        /\ got' = Checked(DecodeAnswer(sent.profile, bytes))
    BY <1>4 DEF ReceiveResponse
  <2>2. AnswerAbout'
    BY <2>1 DEF ExchangeInv, Answered, AnswerAbout, Verified
  <2>3. intact => got' = Checked(Received(answer))
    BY <2>1 DEF RoundTrip
  <2>4. Checked(Received(answer)) = Checked(Received(answer))'
    BY <2>1 DEF Checked
  <2>. QED  BY <2>1, <2>2, <2>3, <2>4 DEF ExchangeInv
<1>5. CASE Return
  BY <1>5 DEF Return, ExchangeInv, Answered
<1>6. CASE UNCHANGED vars
  BY <1>6 DEF vars, ExchangeInv, Answered, AnswerAbout, Verified, Checked
<1>. QED  BY <1>1, <1>2, <1>3, <1>4, <1>5, <1>6 DEF Next

\* A client accepts no unaltered answer that is not about its request: to a frame
\* the daemon could not decode, under another identifier or to another command; and
\* only AUTH_INVALID may answer a frame that is not the request it sent.  Of the
\* encoding this takes that what arrives intact decodes to what was sent, and that
\* signed bytes decode to the request they were made from.
THEOREM AnswersAccepted ==
  Spec /\ []RoundTrip /\ []ExecutedIsSent => []AcceptedIsAboutSent
<1>1. Init => ExchangeInv
  BY DEF Init, ExchangeInv, Answered
<1>2. ExchangeInv /\ ExecutedIsSent => AcceptedIsAboutSent
  <2>. SUFFICES ASSUME ExchangeInv, ExecutedIsSent,
                       leg = "done", intact, got.error = NoError
                PROVE  /\ heard.error = NoError
                       /\ heard.request_id = sent.request_id
                       /\ heard.command = sent.command
                       /\ got.status # AuthInvalid(sent.profile) => SameRequest(heard)
    BY DEF AcceptedIsAboutSent
  <2>1. Answered /\ AnswerAbout /\ got = Checked(Received(answer))
        /\ sent.command # NoCommand
    BY WireAssumption DEF ExchangeInv, Answered
  <2>2. "ResponseMismatch" # NoError
    BY DEF NoError
  <2>3. /\ answer.request_id = sent.request_id
        /\ answer.command = sent.command
        /\ got.status = answer.status
    BY <2>1, <2>2 DEF Checked, Received, Refuse
  <2>4. heard.error = NoError
    BY <2>1, <2>3 DEF AnswerAbout
  <2>. QED  BY <2>1, <2>3, <2>4 DEF AnswerAbout, ExecutedIsSent
<1>. QED  BY <1>1, <1>2, AcceptanceStep, PTL DEF Spec

-----------------------------------------------------------------------------
(* Receipts.                                                               *)

ReceiptsSpec == ReceiptsInit /\ [][ReceiptsNext]_receiptVars

\* Every receipt was built for something applied, and applied objects stay.
ReceiptsInv ==
  /\ \A r \in receipts : \E a \in applied, at \in Times : r = BuildAppliedReceipt(a, at)
  /\ ConfirmedIsApplied

\* Whatever arrives in place of a receipt verifies only if its fields are the
\* ones the recipient signed; so it is about the object and content applied.
LEMMA VerifiedIsApplied ==
  ASSUME NEW a, NEW at, NEW r \in Arriving(BuildAppliedReceipt(a, at)),
         NEW o, NEW c, Verdict(o, c, r) = "Verified"
  PROVE  a.object = o /\ c \in {a.content, AnyContent}
<1>. DEFINE made == BuildAppliedReceipt(a, at)
<1>1. made.fields = made.signature.signed /\ made.fields.confirmed = a.object
      /\ made.fields.digest = a.content
  BY DEF BuildAppliedReceipt
<1>2. r.signature.signed = made.signature.signed
  BY DEF BuildAppliedReceipt, Arriving
<1>3. VerifyAppliedReceipt(o.recipient, r) = "Verified"
  BY DEF Verdict
<1>4. r.signature.signed = r.fields
  BY <1>3 DEF VerifyAppliedReceipt
<1>5. r.fields.confirmed = o /\ (c = AnyContent \/ r.fields.digest = c)
  BY DEF Verdict
<1>. HIDE DEF made
<1>. QED  BY <1>1, <1>2, <1>4, <1>5

\* Each step keeps the invariant: only Verify adds to confirmed, and only for
\* what the previous lemma covers.
LEMMA ReceiptsStep == ReceiptsInv /\ [ReceiptsNext]_receiptVars => ReceiptsInv'
<1>. SUFFICES ASSUME ReceiptsInv, [ReceiptsNext]_receiptVars PROVE ReceiptsInv'
  OBVIOUS
<1>1. ASSUME NEW o \in Objects, NEW c \in Contents, Apply(o, c) PROVE ReceiptsInv'
  <2>1. applied \subseteq applied' /\ UNCHANGED <<receipts, confirmed>>
    BY <1>1 DEF Apply
  <2>. QED  BY <2>1 DEF ReceiptsInv, ConfirmedIsApplied
<1>2. ASSUME Build PROVE ReceiptsInv'
  <2>1. PICK a \in applied, at \in Times :
          receipts' = receipts \cup {BuildAppliedReceipt(a, at)}
    BY <1>2 DEF Build
  <2>2. UNCHANGED <<applied, confirmed>>
    BY <1>2 DEF Build
  <2>. QED  BY <2>1, <2>2 DEF ReceiptsInv, ConfirmedIsApplied
<1>3. ASSUME NEW o \in Objects, NEW c \in Contents \cup {AnyContent},
             NEW r \in UNION {Arriving(s) : s \in receipts}, Verify(o, c, r)
      PROVE  ReceiptsInv'
  <2>1. UNCHANGED <<applied, receipts>>
    BY <1>3 DEF Verify
  <2>2. CASE UNCHANGED confirmed
    BY <2>1, <2>2 DEF ReceiptsInv, ConfirmedIsApplied
  <2>3. CASE /\ Verdict(o, c, r) = "Verified"
             /\ confirmed' = confirmed \cup {[object |-> o, content |-> c]}
    <3>1. PICK a \in applied, at \in Times : r \in Arriving(BuildAppliedReceipt(a, at))
      BY DEF ReceiptsInv
    <3>2. a.object = o /\ c \in {a.content, AnyContent}
      BY <2>3, <3>1, VerifiedIsApplied
    <3>. QED  BY <2>1, <2>3, <3>2 DEF ReceiptsInv, ConfirmedIsApplied
  <2>. QED  BY <1>3, <2>2, <2>3 DEF Verify
<1>4. ASSUME UNCHANGED receiptVars PROVE ReceiptsInv'
  BY <1>4 DEF ReceiptsInv, ConfirmedIsApplied, receiptVars
<1>. QED  BY <1>1, <1>2, <1>3, <1>4 DEF ReceiptsNext

\* What a sender records as confirmed its recipient has durably applied, and
\* with the content the sender expected: verify_and_record_applied_receipt
\* takes no receipt for another object, however it was delayed or altered.
THEOREM ConfirmedWasApplied == ReceiptsSpec => []ConfirmedIsApplied
<1>1. ReceiptsInit => ReceiptsInv
  BY DEF ReceiptsInit, ReceiptsInv, ConfirmedIsApplied
<1>2. ReceiptsInv => ConfirmedIsApplied
  BY DEF ReceiptsInv
<1>. QED  BY <1>1, <1>2, ReceiptsStep, PTL DEF ReceiptsSpec

-----------------------------------------------------------------------------
(* Bundles.                                                                *)

BundlesSpec == BundlesInit /\ [][BundlesNext]_bundleVars

\* decode_fields returns what encode_fields encoded, for the exports at hand: a
\* fact about the bytes of a plaintext, which ExportsOpen checks.
FieldsDecode ==
  \A e \in Exports :
    HintsFit(e.fields.hints) =>
      DecodeFields(EncodeFields(e.fields)) = [error |-> "none", fields |-> e.fields]

\* Every envelope is the seal of an export whose hints fit.
Sealed == \A s \in envelopes : \E e \in Exports : HintsFit(e.fields.hints) /\ s = SealBundle(e)

\* Whatever header an envelope has when it arrives, it opens only for the device
\* it was sealed for, under the identifiers it was sealed with, and to the fields
\* that were exported: the seal's context binds the header.
LEMMA OpenedIsSealed ==
  ASSUME FieldsDecode, Sealed, NEW a \in ArrivingEnvelopes, NEW by, NEW from,
         OpenBundle(by, from, a).error = "none"
  PROVE  \E e \in Exports :
           /\ SealBundle(e) \in envelopes
           /\ e.importer = by
           /\ e.queue_id = a.queue_id
           /\ e.bundle_id = a.bundle_id
           /\ OpenBundle(by, from, a).fields = e.fields
<1>1. PICK s \in envelopes :
        a \in {s} \cup Spoilt(s) \/ \E q, b : a = Headed(s, q, b)
  BY DEF ArrivingEnvelopes
<1>2. PICK e \in Exports : HintsFit(e.fields.hints) /\ s = SealBundle(e)
  BY DEF Sealed
<1>3. a.sealed = s.sealed
  BY <1>1, <1>2 DEF SealBundle, Spoilt, Headed
<1>4. /\ s.sealed.to = e.importer
      /\ s.sealed.context.queue_id = e.queue_id
      /\ s.sealed.context.message_id = e.bundle_id
      /\ s.sealed.plaintext = EncodeFields(e.fields)
  BY <1>2 DEF SealBundle, Context
<1>5. /\ a.sealed.to = by
      /\ a.sealed.context = Context(a, from, by)
      /\ OpenBundle(by, from, a) = DecodeFields(a.sealed.plaintext)
  BY DEF OpenBundle
<1>6. a.sealed.context.queue_id = a.queue_id /\ a.sealed.context.message_id = a.bundle_id
  BY <1>5 DEF Context
<1>7. OpenBundle(by, from, a).fields = e.fields
  <2>1. DecodeFields(EncodeFields(e.fields)) = [error |-> "none", fields |-> e.fields]
    BY <1>2, Zenon DEF FieldsDecode
  <2>2. OpenBundle(by, from, a) = [error |-> "none", fields |-> e.fields]
    BY <1>3, <1>4, <1>5, <2>1, Zenon
  <2>. QED  BY <2>2
<1>. QED  BY <1>2, <1>3, <1>4, <1>5, <1>6, <1>7

\* Exports add envelopes only; an import adds what the lemma above describes.
LEMMA BundlesStep ==
  FieldsDecode /\ Sealed /\ ImportedIsExported /\ [BundlesNext]_bundleVars
    => Sealed' /\ ImportedIsExported'
<1>. SUFFICES ASSUME FieldsDecode, Sealed, ImportedIsExported, [BundlesNext]_bundleVars
              PROVE  Sealed' /\ ImportedIsExported'
  OBVIOUS
<1>1. ASSUME NEW e \in Exports, Export(e) PROVE Sealed' /\ ImportedIsExported'
  <2>1. envelopes' = envelopes \cup {SealBundle(e)} /\ UNCHANGED imports
        /\ HintsFit(e.fields.hints)
    BY <1>1 DEF Export
  <2>. QED  BY <2>1 DEF Sealed, ImportedIsExported
<1>2. ASSUME NEW by \in Devices, NEW from \in Devices, NEW a \in ArrivingEnvelopes,
             Import(by, from, a)
      PROVE  Sealed' /\ ImportedIsExported'
  <2>. DEFINE result == OpenBundle(by, from, a)
              import == [by |-> by, queue_id |-> a.queue_id, role |-> result.fields.role,
                         peer |-> result.fields.peer, bundle_id |-> a.bundle_id]
  <2>1. UNCHANGED envelopes
    BY <1>2 DEF Import
  <2>2. \/ UNCHANGED imports
        \/ result.error = "none" /\ imports' = imports \cup {import}
    <3>1. opening'.result = result
      BY <1>2 DEF Import
    <3>. QED  BY <1>2, <3>1 DEF Import
  <2>3. CASE UNCHANGED imports
    BY <2>1, <2>3 DEF Sealed, ImportedIsExported
  <2>4. CASE result.error = "none" /\ imports' = imports \cup {import}
    <3>1. PICK e \in Exports :
            /\ SealBundle(e) \in envelopes
            /\ e.importer = by
            /\ e.queue_id = a.queue_id
            /\ e.bundle_id = a.bundle_id
            /\ result.fields = e.fields
      BY <2>4, OpenedIsSealed
    <3>. HIDE DEF result
    <3>. QED  BY <2>1, <2>4, <3>1 DEF Sealed, ImportedIsExported
  <2>. QED  BY <2>2, <2>3, <2>4
<1>3. CASE UNCHANGED bundleVars
  BY <1>3 DEF bundleVars, Sealed, ImportedIsExported
<1>. QED  BY <1>1, <1>2, <1>3 DEF BundlesNext

\* What open_and_record_bundle records is what some device exported for this one,
\* queue, role, peer and bundle together, for any devices and exports and any
\* exchange of headers, provided plaintexts decode to the fields encoded in them.
THEOREM ImportsExported == FieldsDecode => (BundlesSpec => []ImportedIsExported)
<1>. SUFFICES ASSUME FieldsDecode PROVE BundlesSpec => []ImportedIsExported
  OBVIOUS
<1>. DEFINE Inv == Sealed /\ ImportedIsExported
<1>1. BundlesInit => Inv
  BY DEF BundlesInit, Sealed, ImportedIsExported
<1>2. Inv /\ [BundlesNext]_bundleVars => Inv'
  BY BundlesStep
<1>3. Inv => ImportedIsExported
  OBVIOUS
<1>. HIDE DEF Inv
<1>. QED  BY <1>1, <1>2, <1>3, PTL DEF BundlesSpec
===============================================================================
