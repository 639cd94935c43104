------------------------------- MODULE Bundles -------------------------------
(***************************************************************************)
(* Offline bundles, crates/cofferwire-client/src/offline.rs: a device      *)
(* seals the fields of a queue relationship for another one, the envelope  *)
(* travels out of band, and the importing device opens it against the      *)
(* exporter it expects and records it.                                     *)
(*                                                                         *)
(* Envelopes may arrive twice, in any order, at the wrong device, with     *)
(* another header or around another seal.  Sealing (seal_message,          *)
(* open_message) is ideal: a seal opens for the two keys and the context   *)
(* it was made with.  The plaintext inside is bytes.  The store follows    *)
(* the contract of the BundleStore trait.                                  *)
(***************************************************************************)
EXTENDS Integers, SequencesExt

CONSTANTS
  Devices,             \* principals, as bytes
  Exports,             \* [exporter, importer, queue_id, bundle_id, fields]
  KeyBytes,            \* 32 in the code
  TimeBytes,           \* 8
  MaxRelayHints,       \* 8
  MaxRelayHintBytes    \* 256

VARIABLES
  envelopes,   \* the envelopes sealed so far
  imports,     \* [by, queue_id, role, peer, bundle_id]: what the stores hold
  opening      \* the last attempt to import: by whom, expecting whom, what, result

bundleVars == <<envelopes, imports, opening>>

-----------------------------------------------------------------------------
(* The plaintext.  Fields are [role, peer, peer_key, created, own, hints]; *)
(* `own' holds the two seeds of a recovery bundle and is empty in an       *)
(* invitation.                                                             *)

Invitation == 1
Recovery == 2
Length16(n) == <<n \div 256, n % 256>>

HintsFit(hints) ==
  /\ Len(hints) <= MaxRelayHints
  /\ \A i \in DOMAIN hints : Len(hints[i]) <= MaxRelayHintBytes

EncodeFields(f) ==
  <<IF f.own = <<>> THEN Invitation ELSE Recovery, f.role>>
    \o f.peer \o f.peer_key \o f.created \o FlattenSeq(f.own) \o <<Len(f.hints)>>
    \o FlattenSeq([i \in DOMAIN f.hints |-> Length16(Len(f.hints[i])) \o f.hints[i]])

\* Cursor::bytes: the next n bytes, or failure.
Take(cursor, n) ==
  IF cursor.failed \/ Len(cursor.rest) < n THEN [cursor EXCEPT !.failed = TRUE]
  ELSE [cursor EXCEPT !.read = Append(@, SubSeq(cursor.rest, 1, n)),
                      !.rest = SubSeq(@, n + 1, Len(@))]

\* One relay hint, after its length; the variant refuses the longest one.
TakeHintShorter(cursor, i) ==
  LET length == Take(cursor, 2)
      n == Last(length.read)[1] * 256 + Last(length.read)[2]
  IN  IF length.failed \/ n >= MaxRelayHintBytes THEN [cursor EXCEPT !.failed = TRUE]
      ELSE Take([length EXCEPT !.read = Front(@)], n)
TakeHint(cursor, i) ==
  LET length == Take(cursor, 2)
      n == Last(length.read)[1] * 256 + Last(length.read)[2]
  IN  IF length.failed \/ n > MaxRelayHintBytes THEN [cursor EXCEPT !.failed = TRUE]
      ELSE Take([length EXCEPT !.read = Front(@)], n)

\* Everything is read; the keys, the time and the role are among the first five
\* values and the seeds among the first k.
DecodedFields(end, k) ==
  IF end.failed \/ end.rest # <<>> THEN [error |-> "Malformed"]
  ELSE [error |-> "none",
        fields |-> [role |-> end.read[2][1], peer |-> end.read[3],
                    peer_key |-> end.read[4], created |-> end.read[5],
                    own |-> SubSeq(end.read, 6, k),
                    hints |-> SubSeq(end.read, k + 2, Len(end.read))]]

DecodeHints(counted) ==
  IF counted.failed \/ Last(counted.read)[1] > MaxRelayHints
    THEN [error |-> "Malformed"]
  ELSE DecodedFields(
         FoldLeft(TakeHint, counted, [i \in 1 .. Last(counted.read)[1] |-> i]),
         Len(counted.read) - 1)

DecodeOwn(fixed) ==
  IF \/ fixed.failed
     \/ fixed.read[1][1] \notin {Invitation, Recovery}
     \/ fixed.read[2][1] \notin {0, 1}
    THEN [error |-> "Malformed"]
  ELSE LET seeds == IF fixed.read[1][1] = Recovery THEN <<KeyBytes, KeyBytes>> ELSE <<>>
       IN  DecodeHints(FoldLeft(Take, fixed, Append(seeds, 1)))

DecodeFields(plaintext) ==
  DecodeOwn(FoldLeft(Take, [rest |-> plaintext, read |-> <<>>, failed |-> FALSE],
                     <<1, 1, KeyBytes, KeyBytes, TimeBytes>>))

-----------------------------------------------------------------------------
(* Sealing and opening.                                                    *)

BundleVersion == 1

\* The identifiers in the header are bound to the seal by its context.
Context(header, exporter, importer) ==
  [queue_id |-> header.queue_id, sender |-> exporter, recipient |-> importer,
   message_id |-> header.bundle_id]

SealBundle(e) ==
  [whole |-> TRUE, version |-> BundleVersion, queue_id |-> e.queue_id,
   bundle_id |-> e.bundle_id,
   sealed |-> [from |-> e.exporter, to |-> e.importer,
               context |-> Context(e, e.exporter, e.importer),
               plaintext |-> EncodeFields(e.fields)]]

\* open_bundle by the device `by', which expects the exporter `from'.
OpenBundleLoosely(by, from, e) ==   \* variant: the header is taken as it is
  IF ~e.whole THEN [error |-> "Malformed"]
  ELSE IF e.version # BundleVersion THEN [error |-> "UnsupportedVersion"]
  ELSE IF e.sealed.from # from \/ e.sealed.to # by THEN [error |-> "Crypto"]
  ELSE DecodeFields(e.sealed.plaintext)
OpenBundle(by, from, e) ==
  IF ~e.whole THEN [error |-> "Malformed"]
  ELSE IF e.version # BundleVersion THEN [error |-> "UnsupportedVersion"]
  ELSE IF \/ e.sealed.from # from
          \/ e.sealed.to # by
          \/ e.sealed.context # Context(e, from, by) THEN [error |-> "Crypto"]
  ELSE DecodeFields(e.sealed.plaintext)

-----------------------------------------------------------------------------
(* The steps.                                                              *)

BundlesInit == envelopes = {} /\ imports = {} /\ opening = <<>>

\* Too many or too long hints are refused; a bundle identifier is never reused.
Export(e) ==
  /\ HintsFit(e.fields.hints)
  /\ \A old \in envelopes : old.bundle_id # e.bundle_id
  /\ envelopes' = envelopes \cup {SealBundle(e)}
  /\ UNCHANGED <<imports, opening>>

\* What may arrive as an envelope: one that was sealed, one cut short or of
\* another version, and one with the header of another.
Spoilt(e) == {[e EXCEPT !.whole = FALSE], [e EXCEPT !.version = BundleVersion + 1]}
Headed(e, queue_id, bundle_id) ==
  [e EXCEPT !.queue_id = queue_id, !.bundle_id = bundle_id]
ArrivingEnvelopes ==
  UNION {{e} \cup Spoilt(e)
             \cup {Headed(e, h.queue_id, g.bundle_id) : h \in envelopes, g \in envelopes} :
         e \in envelopes}

\* BundleStore::record: imports are told apart by their bundle, and another peer
\* for the queue and role of an earlier import is refused.
RecordOutcome(import) ==
  LET same == {i \in imports : i.by = import.by /\ i.bundle_id = import.bundle_id}
      rivals == {i \in imports : /\ i.by = import.by
                                 /\ i.queue_id = import.queue_id
                                 /\ i.role = import.role
                                 /\ i.peer # import.peer}
  IN  IF rivals # {} THEN "ConflictingIdentity"
      ELSE IF same # {} THEN "AlreadyImported" ELSE "Imported"

\* open_and_record_bundle.
Import(by, from, e) ==
  /\ opening' = [by |-> by, from |-> from, envelope |-> e,
                 result |-> OpenBundle(by, from, e)]
  /\ LET result == opening'.result
         import == [by |-> by, queue_id |-> e.queue_id, role |-> result.fields.role,
                    peer |-> result.fields.peer, bundle_id |-> e.bundle_id]
     IN  \/ UNCHANGED imports       \* not opened, or the record failed
         \/ /\ result.error = "none"
            /\ RecordOutcome(import) = "Imported"
            /\ imports' = imports \cup {import}
  /\ UNCHANGED envelopes

BundlesNext ==
  \/ \E e \in Exports : Export(e)
  \/ \E by \in Devices, from \in Devices :
       \E e \in ArrivingEnvelopes : Import(by, from, e)

-----------------------------------------------------------------------------
(* Properties.                                                             *)

\* The envelope of an export that arrives as it was sealed, at the device it is
\* meant for, opens to the very fields that were exported, the longest hints
\* included: decode_fields is the inverse of encode_fields.
ExportsOpen ==
  opening # <<>> =>
    \A e \in Exports :
      /\ opening.envelope = SealBundle(e)
      /\ opening.by = e.importer
      /\ opening.from = e.exporter
      => opening.result = [error |-> "none", fields |-> e.fields]

\* What a device has imported is what some device exported for it: the queue,
\* the role, the peer and the bundle belong together, whatever header the
\* envelope carried when it arrived.
ImportedIsExported ==
  \A i \in imports :
    \E e \in Exports :
      /\ SealBundle(e) \in envelopes
      /\ e.importer = i.by
      /\ e.queue_id = i.queue_id
      /\ e.bundle_id = i.bundle_id
      /\ e.fields.role = i.role
      /\ e.fields.peer = i.peer
=============================================================================
