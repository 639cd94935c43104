--------------------------------- MODULE Cbor ---------------------------------
(***************************************************************************)
(* The canonical CBOR subset of crates/cofferwire-codec/src/cbor.rs: byte  *)
(* strings, arrays and unsigned integers, each introduced by an argument   *)
(* in its shortest form.                                                   *)
(*                                                                         *)
(* Bytes are numbers below 256 and a frame is a sequence of bytes.  The    *)
(* widths of the arguments that follow an initial byte are a parameter:    *)
(* <<1, 2, 4, 8>> in the code.                                             *)
(***************************************************************************)
EXTENDS Integers, SequencesExt

CONSTANT Widths

ASSUME CborAssumption ==
  /\ Len(Widths) \in 2 .. 4
  /\ \A i \in DOMAIN Widths : Widths[i] \in Nat \ {0}
  /\ \A i \in 2 .. Len(Widths) : Widths[i - 1] < Widths[i]

\* The i-th width holds the numbers below Limit(i) and is meant for those that
\* no narrower form holds.
Limit(i) == 256 ^ Widths[i]
MinimumAny(i) == 0   \* variant: a wider form is accepted for any number
Minimum(i) == IF i = 1 THEN 24 ELSE Limit(i - 1)

U64Max == Limit(Len(Widths)) - 1
U32Max == Limit(Len(Widths) - 1) - 1

BigEndian(value, width) ==
  [k \in 1 .. width |-> (value \div 256 ^ (width - k)) % 256]
FromBigEndian(bytes) == FoldLeft(LAMBDA n, byte : n * 256 + byte, 0, bytes)

-----------------------------------------------------------------------------
(* Encoding.                                                               *)

EncodeArgument(major, value) ==
  IF value < 24 THEN <<32 * major + value>>
  ELSE LET i == CHOOSE i \in DOMAIN Widths : value \in Minimum(i) .. Limit(i) - 1
       IN  <<32 * major + 23 + i>> \o BigEndian(value, Widths[i])

EncodeUnsigned(value) == EncodeArgument(0, value)
EncodeArray(length) == EncodeArgument(4, length)
EncodeBytes(bytes) == EncodeArgument(2, Len(bytes)) \o bytes

-----------------------------------------------------------------------------
(* Decoding.  A decoder has read the values `read' from the bytes up to    *)
(* `at', unless it failed.                                                 *)

NoError == "none"
DecoderAt(offset) == [at |-> offset, read |-> <<>>, error |-> NoError]
Failed(d, error) == [d EXCEPT !.error = error]

\* Decoder::argument: its value and the offset after it, or an error.
ArgumentResult(value, at, error) == [value |-> value, at |-> at, error |-> error]
WideArgument(value, i, end) ==
  IF value < Minimum(i) THEN ArgumentResult(0, end, "NonCanonicalArgument")
  ELSE ArgumentResult(value, end, NoError)
ArgumentAfter(bytes, at, i) ==
  IF i > Len(Widths) THEN ArgumentResult(0, at, "UnexpectedType")
  ELSE IF at + Widths[i] > Len(bytes) THEN ArgumentResult(0, at, "Truncated")
  ELSE WideArgument(FromBigEndian(SubSeq(bytes, at + 1, at + Widths[i])),
                    i, at + Widths[i])
Argument(bytes, at, major) ==
  IF at >= Len(bytes) THEN ArgumentResult(0, at, "Truncated")
  ELSE IF bytes[at + 1] \div 32 # major THEN ArgumentResult(0, at, "UnexpectedType")
  ELSE IF bytes[at + 1] % 32 < 24
    THEN ArgumentResult(bytes[at + 1] % 32, at + 1, NoError)
  ELSE ArgumentAfter(bytes, at + 1, (bytes[at + 1] % 32) - 23)

\* What a decoder is asked to read next: an array of exactly n elements, an
\* expected number, a number within bounds, or a byte string within bounds.
Array(n) ==
  [kind |-> "array", major |-> 4, low |-> n, high |-> n,
   fault |-> "WrongArrayLength"]
Expected(n) ==
  [kind |-> "expected", major |-> 0, low |-> n, high |-> n,
   fault |-> "InvalidValue"]
Unsigned(low, high) ==
  [kind |-> "unsigned", major |-> 0, low |-> low, high |-> high,
   fault |-> "InvalidValue"]
Bytes(low, high) ==
  [kind |-> "bytes", major |-> 2, low |-> low, high |-> high,
   fault |-> "WrongByteStringLength"]

\* Decoder::bytes and fixed_bytes, after the length.
TakeBytes(bytes, d, item, length, at) ==
  IF length > item.high THEN Failed(d, "ByteStringTooLarge")
  ELSE IF at + length > Len(bytes) THEN Failed(d, "Truncated")
  ELSE IF length < item.low THEN Failed(d, item.fault)
  ELSE [d EXCEPT !.at = at + length,
                 !.read = Append(@, SubSeq(bytes, at + 1, at + length))]

TakeItem(bytes, d, item, argument) ==
  IF argument.error # NoError THEN Failed(d, argument.error)
  ELSE IF item.kind = "bytes"
    THEN TakeBytes(bytes, d, item, argument.value, argument.at)
  ELSE IF argument.value \notin item.low .. item.high
    THEN Failed(d, item.fault)
  ELSE IF item.kind = "unsigned"
    THEN [d EXCEPT !.at = argument.at, !.read = Append(@, argument.value)]
  ELSE [d EXCEPT !.at = argument.at]

ReadItem(bytes, d, item) ==
  IF d.error # NoError THEN d
  ELSE TakeItem(bytes, d, item, Argument(bytes, d.at, item.major))

ReadItems(bytes, d, items) ==
  FoldLeft(LAMBDA e, item : ReadItem(bytes, e, item), d, items)
=============================================================================
