------------------------------- MODULE Receipts -------------------------------
(***************************************************************************)
(* receipt.applied: a recipient that has durably applied a message signs a *)
(* receipt for it (crates/cofferwire-crypto/src/receipt.rs), which reaches *)
(* the sender as any message does, and the sender verifies it and records  *)
(* the confirmed object (crates/cofferwire-client/src/receipt.rs).         *)
(*                                                                         *)
(* Receipts may arrive late, twice, in any order, altered, or when another *)
(* one is expected.  Signatures and digests are ideal: a signature         *)
(* verifies for the signer, the domain and the fields it was made for, and *)
(* the digest of a content is the content.  The inbox and the store of     *)
(* confirmed objects belong to the application: both commit atomically.    *)
(***************************************************************************)
EXTENDS FiniteSets, Integers

CONSTANTS
  Objects,      \* [queue_id, sender, recipient, message_id]
  Contents,     \* plaintexts
  AnyContent,   \* the caller does not say which content it expects
  Times         \* device-local clocks

ASSUME ReceiptsAssumption ==
  /\ AnyContent \notin Contents
  /\ \A o \in Objects : {"sender", "recipient"} \subseteq DOMAIN o

VARIABLES
  applied,     \* [object, content]: what recipients have durably applied
  receipts,    \* the receipts they built
  confirmed,   \* [object, content]: the objects senders recorded, each with the
               \* content it was checked against
  verdict      \* the outcome of the last verification

receiptVars == <<applied, receipts, confirmed, verdict>>

ReceiptsInit ==
  applied = {} /\ receipts = {} /\ confirmed = {} /\ verdict = "none"

\* A message is applied with the content it first came with.
Apply(o, c) ==
  /\ ~\E a \in applied : a.object = o
  /\ applied' = applied \cup {[object |-> o, content |-> c]}
  /\ UNCHANGED <<receipts, confirmed, verdict>>

ReceiptDomain == "cofferwire receipt v1"

BuildAppliedReceipt(a, at) ==
  LET fields == [confirmed |-> a.object, digest |-> a.content, applied_at |-> at]
  IN  [whole |-> TRUE, fields |-> fields,
       signature |-> [signer |-> a.object.recipient, domain |-> ReceiptDomain,
                      signed |-> fields]]

Build ==
  /\ \E a \in applied, at \in Times :
       receipts' = receipts \cup {BuildAppliedReceipt(a, at)}
  /\ UNCHANGED <<applied, confirmed, verdict>>

\* What may arrive where a receipt is expected: a receipt, a receipt of another
\* length or type, one with a field changed, or one signed for another purpose.
Arriving(r) ==
  {r, [r EXCEPT !.whole = FALSE], [r EXCEPT !.signature.domain = "relay request"]}
    \cup {[r EXCEPT !.fields.confirmed = o] : o \in Objects}
    \cup {[r EXCEPT !.fields.digest = c] : c \in Contents}

VerifyAppliedReceipt(signer, r) ==
  CASE ~r.whole -> "Malformed"
    [] r.whole /\ r.signature # [signer |-> signer, domain |-> ReceiptDomain,
                                 signed |-> r.fields] -> "AuthenticationFailed"
    [] OTHER -> "Verified"

\* verify_and_record_applied_receipt up to the store.
VerdictBySigner(o, c, r) ==   \* variant: what the receipt confirms is not compared
  IF VerifyAppliedReceipt(o.recipient, r) # "Verified"
    THEN VerifyAppliedReceipt(o.recipient, r)
  ELSE IF c # AnyContent /\ r.fields.digest # c THEN "ContentMismatch"
  ELSE "Verified"
Verdict(o, c, r) ==
  IF VerifyAppliedReceipt(o.recipient, r) # "Verified"
    THEN VerifyAppliedReceipt(o.recipient, r)
  ELSE IF r.fields.confirmed # o THEN "ObjectMismatch"
  ELSE IF c # AnyContent /\ r.fields.digest # c THEN "ContentMismatch"
  ELSE "Verified"

Verify(o, c, r) ==
  /\ \/ /\ Verdict(o, c, r) # "Verified"
        /\ verdict' = Verdict(o, c, r)
        /\ UNCHANGED confirmed
     \/ /\ Verdict(o, c, r) = "Verified"
        /\ verdict' = "Store"           \* the record failed
        /\ UNCHANGED confirmed
     \/ /\ Verdict(o, c, r) = "Verified"
        /\ verdict' = IF \E k \in confirmed : k.object = o
                        THEN "AlreadyRecorded" ELSE "Recorded"
        /\ confirmed' = confirmed \cup {[object |-> o, content |-> c]}
  /\ UNCHANGED <<applied, receipts>>

ReceiptsNext ==
  \/ \E o \in Objects, c \in Contents : Apply(o, c)
  \/ Build
  \/ \E o \in Objects, c \in Contents \cup {AnyContent} :
       \E r \in UNION {Arriving(r) : r \in receipts} : Verify(o, c, r)

\* What a sender has recorded as confirmed, its recipient has durably applied,
\* and with the content the sender expected when it named one: a receipt for
\* another queue, message, direction or content is never taken for it.
ConfirmedIsApplied ==
  \A k \in confirmed :
    \E a \in applied : a.object = k.object /\ k.content \in {a.content, AnyContent}
=============================================================================
