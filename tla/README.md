# A verification development for cofferwire

cofferwire is a store-and-forward relay for end-to-end encrypted messages. A
sender puts small messages into a device queue of an untrusted relay, a
recipient fetches and acknowledges them, and larger objects travel as encrypted
blobs under leases. This directory holds TLA+ modules translated from the Rust
sources, TLC instances that model-check them, and TLAPS proofs of the properties
that matter most. Paths below are relative to the repository.

## 1. Inventory

| Part | Source | State | Operations | Status |
|---|---|---|---|---|
| In-memory reference relay | `crates/cofferwire-relay/src/lib.rs` | queues with a deque of messages | CREATE_QUEUE, SEND, FETCH, ACK, DELETE_QUEUE | modelled: `Relay` |
| SQLite queue relay | `crates/cofferwire-relay/src/durable.rs` | tables `queues`, `messages` | the same five, each in one transaction | modelled: `DurableRelay` |
| Exact-replay exchange | `crates/cofferwire-relay/src/replay.rs` | tables `queue_replays`, `blob_replays` | lookup, effect and record, record of a rejection, lost insertion race | modelled: `DurableRelay`, `BlobRelay` |
| SQLite blob relay | `crates/cofferwire-relay/src/durable_blob.rs` | tables `blob_uploads`, `blob_upload_chunks`, `blob_objects`, `blob_chunks`, `blob_grants` | BEGIN_UPLOAD, PUT_CHUNK, COMMIT, GET_MANIFEST, GET_CHUNK, RENEW, DELETE | modelled: `BlobRelay` |
| Daemon service | `apps/cofferwired/src/lib.rs` | one relay behind a mutex, command permits | `exchange`, `exchange_at`, `exchange_blob`, `exchange_blob_at` | modelled: in the two above, its permits in `Permits`, its answers to bad frames in `WireExchange` |
| Rate limiter | `apps/cofferwired/src/rate_limit.rs` | a deque of times for each tracked key | `admit` | modelled: `RateLimit` |
| Queue client | `crates/cofferwire-client/src/lib.rs` | outbox frame, inbox store | `Sender::send`, `Recipient::poll` | modelled: `EndToEnd` |
| Blob client | `crates/cofferwire-client/src/blob.rs` | upload stage, pending frame, saved state | `BlobUploader::advance`, `restore`, `download_blob` | modelled: `BlobUpload`, `BlobDownload` |
| Transport bindings | `apps/cofferwired/src/transport.rs`, `connection_limit.rs` | connection, session and command permits | HTTP requests, WebSocket sessions, deadlines | modelled: `Permits` |
| Receipts | `crates/cofferwire-client/src/receipt.rs`, `cofferwire-crypto/src/receipt.rs` | the application's store | build, verify, record | modelled: `Receipts` |
| Offline bundles | `crates/cofferwire-client/src/offline.rs` | the application's store | export, open, record | modelled: `Bundles` |
| Codec | `crates/cofferwire-codec` | none | encoders and decoders of both profiles | modelled: `Cbor`, `WireCodec`, `WireExchange` |
| Types | `crates/cofferwire-types` | none | value types and their limits | as far as the other modules use them |
| Cryptography | `crates/cofferwire-crypto` | none | signing, sealing, digests | what is bound by them; the primitives are ideal |
| Start-up, tools, tests | `apps/cofferwired/src/main.rs`, `bin/`, test crates | none | | not modelled |

How they interact. A frame reaches the daemon over HTTP or a WebSocket; a
blocking thread samples the relay time, verifies the signature, asks the rate
limiter, takes the mutex of the one SQLite connection, looks the request
identifier up in the replay table and runs the exchange. The clients retry the
same bytes until they have an answer. Another process may open the same database
file, which SQLite serialises transaction by transaction.

What is hard about it, and what each part must guarantee:

- *Exactly once over at-least-once.* Effect and replay record commit together; a
  rejection takes two transactions, and another process may get in between. Every
  frame takes effect at most once and every retry gets the same answer
  (`EffectOnce`, `ReplyIsRecorded`, `RecordsPermanent`).
- *Time is sampled early*, from a clock that may be set back. The relay time is
  read before the mutex is taken, so commands run in another order than their
  times (`DeliveredIsHead`, `SameResults`, `ExpiryIsFinal`, `RateBounded`).
- *Expiry, capacity and row identifiers.* Expired rows leave inside the commands
  that meet them, SQLite reuses the largest row identifier once its row is gone,
  and a queue holds rows of several ages (`Integrity`, `DepthBounded`,
  `ImplementsReference`).
- *Nothing accepted is lost* before its time is up, it is acknowledged or its
  queue is deleted (`NoSilentLoss`, `MessageFixed`).
- *Two durable stores.* The recipient's inbox and the relay's queue change
  separately, with crashes in between (`AckedIsCommitted`, `AppliedInOrder`,
  `CompletionIsTrue`, `EventuallyApplied`); so do the uploader's saved state and
  the blob relay (`StageIsTrue`, `SavedIsRestorable`, `OwnUploadAccepted`,
  `CompletedIsReadable`, `DownloadIsWhole`).
- *Shared ciphertext.* Uploads of the same ciphertext share an object and keep
  grants of their own (`PublishedWhole`, `GrantsIndependent`).
- *Work that outlives its request.* A deadline or a disconnect drops a request
  and not the blocking task it spawned; an upgrade moves a connection from one
  owner to another; a panic poisons the mutex (`ConnectionsCounted`,
  `CommandsCounted`, `PoisonIsFinal`, `OverloadEnds`, `SessionReleased`).
- *Bytes.* Replays are recognised by comparing bytes, signatures cover a range of
  bytes, and limits are chosen to fit to the last byte (`RoundTrip`, `Canonical`,
  `ExecutedIsSent`, `AcceptedIsAboutSent`, `Correlated`). Receipts and bundles
  arrive late, twice, altered or where another one is awaited
  (`ConfirmedIsApplied`, `ExportsOpen`, `ImportedIsExported`).

`PROJECT.json` lists these hazards line by line with the properties that cover
each.

## 2. Modules

| Module | Models | Notes |
|---|---|---|
| `QueueProtocol` | requests, frames, replies, errors | shared by the queue modules |
| `Relay` | `Relay` of `lib.rs` | the abstract specification of the queue commands: one atomic command at a time |
| `DurableRelay` | `durable.rs`, `replay.rs`, `exchange_at` | threads with a program counter; one action for each SQLite transaction |
| `RelayRefinement` | | `DurableRelay` with history variables, shown (and in `RefinementProofs` proved) to implement `Relay` |
| `RelayLockstep` | the comparison of the repository's generated-sequence test | both relays run the same commands |
| `EndToEnd` | `Sender`, `Recipient`, `Transport`, `InboxStore` | composed with `DurableRelay` |
| `RateLimit` | `RateLimiter::admit` and the threads calling it | |
| `BlobRelay` | `durable_blob.rs`, `exchange_blob_at` | one action for each command under the mutex |
| `BlobUpload` | `BlobUploader` and its store | composed with `BlobRelay` |
| `BlobDownload` | `download_blob` | composed with `BlobUpload` |
| `Permits` | `connection_limit.rs`, `transport.rs`, the permits and tasks of `exchange` | three semaphores, the connections and tasks that own their permits, and the mutex |
| `Cbor` | `cofferwire-codec/src/cbor.rs` | deterministic CBOR on sequences of bytes |
| `WireCodec` | `cofferwire-codec/src/lib.rs`, `blob.rs`, the manifest and the limits of `cofferwire-types` | every frame of both profiles |
| `WireExchange` | encode and sign, decode and verify, answer, check | exchanges over a line that damages bytes |
| `Receipts` | both `receipt.rs` | |
| `Bundles` | `offline.rs` | |
| `DurableRelayProofs` | | replay records, table constraints and stored messages of `DurableRelay` |
| `RefinementProofs` | | `RelayRefinement` implements `Relay`, step by step |
| `EndToEndProofs`, `QueueProofs` | | `EndToEnd`; the depth and the order of a queue |
| `BlobRelayProofs`, `TransferProofs` | | `BlobRelay`; the composition with uploader and downloader |
| `AdmissionProofs` | | `RateLimit` and `Permits` |
| `WireProofs` | | `WireExchange`, `Receipts` and `Bundles` |
| `MC*` | | instances for TLC |

### DurableRelay

A thread goes through `idle`, `admitted` (the relay time is sampled, the frame is
valid), `execute` (it holds the mutex and found no replay record), and `respond`.
A refused command rolls its transaction back, expiry cleanup included, and passes
through `rejected` to insert the record of the refusal; a thread whose insertion
meets a primary key conflict passes through `conflict` and reads back the record
that won. `queues`, `messages` and `replays` are the tables. A row of `messages`
carries the row identifier that SQLite assigns: one more than the largest in the
table. `Fail` is a storage error or a reply lost to the transport's deadline, at
any point; `Crash` stops all threads of a connection, and the tables survive
because an open transaction rolls back. `applied` is a history variable. Numbers
keep the one bound that matters: `MaxTimestamp` stands for 2^64-1, against which
`checked_add` is modelled.

Left out: frames that do not decode or authenticate (answered before any state is
touched, see `WireExchange`), and the variants of the commands without the replay table (`send`,
`fetch`, ...), which run the same bodies and which the daemon does not call.

### EndToEnd

`wire` holds the copies of each frame in the network, `replies` every response
sent so far, which may arrive late. `StartSend` is the first attempt or a retry of
the same bytes; `poll()` is `StartPoll`, `ReceiveFetch`, `CommitAndAck` and
`ReceiveAck`, with an abandonment (transport error, timeout, crash) possible in
between, after which only the inbox is left. `RequestIdSource` gives fresh
identifiers and `InboxStore::commit` applies each message identifier once: their
documented contracts. A duplicated frame is a fault of the network.

### BlobRelay, BlobUpload and BlobDownload

The exchange of a blob command is one action, since one daemon holds its mutex
from the lookup to the record; the race of two processes through the same
`replay.rs` is explored in `DurableRelay`. SHA-256 is taken to be free of
collisions. `authorize_grant` takes one matching row; SQL leaves open which, so
the model leaves it open too. Nothing deletes uploads, chunks or grants, as in the
code. `relay_time()` reads the system clock, so here, as in `DurableRelay` and
`RateLimit`, `Tick` may also set the clock back; `ClockMayStepBack = FALSE` is the
assumption that it does not.

`BlobUpload` adds the uploader: `StartAdvance` builds or reuses the pending frame,
saves it and sends it; `FinishAdvance` takes the answer and saves the next stage.
A failing save may leave the old or the new state in the store, and `Restore`
resumes from whatever is there at any time. Of the saved bytes the model keeps the
stage and the pending frame; `Restorable` is what `decode_upload_state` and
`validate_pending` demand of them. `BlobDownload` adds `download_blob`, one
`Ask` and one `Take` for each exchange; an answer that does not match, a refusal
or a timeout ends the call with nothing. A wait ends with the answer, with a fault,
or when neither the frame nor its answer is under way any more.

### RateLimit

`Sample` reads the clock, `AdmitKnown` and `AdmitNew` are the two branches of
`admit()`. `admitted` is a history variable.

### Permits

A permit is an owned Rust value, and the model follows its owners. `clones` says
who holds the shared permit of a connection: the HTTP service, the session it is
upgraded to, or both during the upgrade; the last one to drop it gives it back. A
command permit belongs to the blocking task (`task`), which runs on without an
`owner` once a deadline (`RequestTimeout`), a disconnect (`Close`) or the end of a
session drops what awaited it. `Vanish` is a peer that is lost without a sign.
Tasks meet at the mutex: `Lock`, `Unlock`, and `Panic`, after which
`LockPoisoned` is all that is left. The capacities are those of
`docs/spec/09-transport-bindings.md:45-51`, as constants. Nothing under the mutex
is known to panic; `Panic` shows what the code does if something does.

### Cbor, WireCodec and WireExchange

Frames are sequences of bytes. `Widths`, the identifier sizes and the limits are
constants, so that a run can use one-byte identifiers; `MCWire` also instantiates
`WireCodec` with the sizes of the code and checks that there, too, the longest SEND
is exactly `MAX_FRAME_BYTES` long. Integers keep their canonical widths, one per
order of magnitude. Of the codec's errors the model keeps what the daemon's status
depends on. `WireExchange` damages a frame on its way there or back: a byte is
replaced, removed or followed by others, or the rest is cut off. A signature
verifies for the bytes and the profile it was made for and for nothing else.

### Receipts and Bundles

Both are values one device makes and another accepts, with a store of the
application behind them. `Arriving` and its counterpart for envelopes say what may
arrive in place of the awaited value: an earlier one, one for another object,
queue, direction or device, one with a field, header or seal exchanged. Signatures
and seals are ideal and bind exactly what the code puts under them: the domain and
the fields of a receipt, the context and the plaintext of a bundle. The fields of
a bundle are encoded and decoded as bytes.

## 3. What TLC checks

| Run | Instance | Shows |
|---|---|---|
| `race` | two processes, two threads, colliding request identifiers, crashes, a clock that may be set back, time 0..2 | `TypeOK`, `EffectOnce`, `ReplyIsRecorded`, `RecordsPermanent` |
| `refine` | two queues of one place or two that share row identifiers, deleted and created again, refusals of every kind but that of a wrong principal | `ImplementsReference`, `DepthBounded`, `Integrity`, `DeliveredIsHead`, `NoSilentLoss`, `MessageFixed` |
| `end_to_end` | sender, recipient, two messages, three SEND frames, one fault anywhere | `AckedIsCommitted`, `CompletionIsTrue`, `AppliedInOrder` |
| `eventually` | the same with fairness and a payload that cannot be opened | `EventuallyApplied` |
| `rate_in_order` | one thread, two keys, a clock that is not set back | `RateBounded`, `BudgetExact`, `MemoryBounded` |
| `blob` | two uploads of one ciphertext, renewal and deletion | `BlobTypeOK`, `PublishedWhole`, `GrantsIndependent`, `ExpiryIsFinal` |
| `transfer` | an upload of two chunks, then its download, three faults anywhere | `StageIsTrue`, `SavedIsRestorable`, `OwnUploadAccepted`, `DownloadIsWhole`, `CompletedIsReadable`, `UploadCompletes` |
| `permits` | three connections for two connection permits and one session permit, three tasks for two command permits | `ConnectionsCounted`, `CommandsCounted`, `PoisonIsFinal`, `OverloadEnds`, `SessionReleased` |
| `wire` | every command of both profiles with numbers on both sides of every width, one damage per exchange; receipts and bundles of two parties | `RoundTrip`, `Canonical`, `ExecutedIsSent`, `AcceptedIsAboutSent`, `Correlated`, `ConfirmedIsApplied`, `ExportsOpen`, `ImportedIsExported` |
| `lockstep` | two threads, both relays | finding 1 |
| `blob_revived` | two threads, one grant | finding 2 |
| `rate_skewed` | two threads | finding 3 |

Every property of a passing run has a mutant: the operators marked *variant* in
the modules are plausible mistakes in the code, and replacing the definition they
are named after makes TLC report the property.

*Bounds.* Times range over 0..2 and leases over one or two seconds, so that a
message or lease is live, expires at the exact second, is past it, or would
overflow. Two messages are the least that have an order, two threads the least
that race; queues of one and of two places are both at and below capacity. Request
identifiers are few on purpose, so that different frames collide on one. The clock
is set back in `race`. The other runs with a clock check something that needs one
that is not set back, or would be too large otherwise (`transfer`); which properties
need it, and which hold for any clock, the theorems below tell apart. `DepthBounded`,
`Integrity` and `DeliveredIsHead` are checked with one thread and times in order;
that races and clock changes do not break them is what `DepthIsBounded`,
`ConstraintsHold` and `DeliveredStaysHead` prove.
`MaxSequence` is never reached by a run that stores at most two messages. In
`end_to_end` one fault (failure, crash, timeout, late retry or duplicated frame)
may happen at any step and the recipient has identifiers for three full polls;
`eventually` allows for one more. `transfer` has one request identifier more than
an upload needs, five for downloads (enough for a second call to meet a late
answer to the first) and three faults; a fault more or an identifier fewer is what
it takes to run out of identifiers, so none of its uploads ends that way.
`rate_in_order` lets three windows pass. `permits` has one connection and one task
more than there are permits, so every pool is exhausted with someone left to ask.
`wire` has identifiers of one byte and message, manifest and frame sizes in the
same relation as in the code: the longest SEND fills a frame. Its three parts share
no state and are followed one at a time.

*Fairness* is assumed in three runs.

- `eventually`: the recipient keeps calling `poll()` (the API leaves the loop to
  the application, and the property is about recipients that poll), and the
  daemon's blocking threads are scheduled by the operating system. Nothing is
  assumed of the sender, the clock or the faults, which are finite. `poll()` returns
  without an ACK when a payload cannot be opened, so progress is stated for what is
  not behind such a payload.
- `transfer`: the application keeps calling `advance()`, a wait for something that
  was lost ends (the transport reports an error), and the network delivers.
  Exchanges may fail and answers be lost without a bound, as long as they do not
  fail every time (strong fairness of `Exchange` and `FinishAdvance`).
- `permits`: the runtime polls what is ready and its timers fire (weak fairness of
  `Upgraded` and `SessionEnd`), and a task with the mutex ends. That a task which
  waits for the mutex gets it in the end is an assumption (strong fairness of
  `Lock`), since a standard mutex is not a queue. `SessionReleased` takes it that
  sending a response ends: `socket.send` has no deadline of its own and ends with the
  TCP connection. Nothing is assumed of HTTP connections, which have no idle
  deadline between requests.

*Deadlock* is checked everywhere except in `end_to_end`, `eventually` and
`transfer`, whose clients, identifiers, faults and clock come to an end.

### Findings

1. `lockstep`. A refused command rolls its expiry cleanup back in SQLite
   (`replay.rs:92`) and keeps it in the in-memory relay. A FETCH whose time was
   sampled earlier and that runs after such a refusal delivers in one what the
   other has discarded, while the design document asks for consistent results. With
   times in order no difference can be observed: `ImplementsReference`, and the
   theorem `OrderedTimesImplement`.
2. `blob_revived`. `exchange_blob` samples the time before the mutex. A RENEW
   sampled before the expiry, run after another thread has answered EXPIRED,
   extends the grant. The blob specification (CW-BLOB-017) excludes revival. With
   times in order it does not happen: `ExpiryIsFinal` in the run `blob`, and the
   theorem `ExpiredStaysExpired`.
3. `rate_skewed`. `admit()` evicts by the time it is given; a later time evicts
   what still counts for an earlier one that asks next, so a rolling window can
   hold one request too many. With times in order the bound is exact.

All three have the same cause, times used in another order than they were sampled
in, and sampling the relay time after the mutex (or limiter lock) is taken would end
that. It would not help against a clock that is set back, which also brings times out
of order; that takes a time that never decreases, such as the latest one used so far.

Three disagreements were met without a run of their own:

- A queue request with a command that is not in the table is answered
  MALFORMED_FRAME, since `decode_request` fails on it before the daemon could tell;
  `docs/spec/05-wire-format.md:307-309` (CW-WIRE-025) asks for UNKNOWN_COMMAND, which
  is what the blob profile answers.
- Likewise a CREATE_QUEUE with limits out of range is MALFORMED_FRAME, where
  `docs/spec/05-wire-format.md:267` and the comment at
  `crates/cofferwire-types/src/limits.rs:8-9` have LIMIT_OUT_OF_RANGE.
- The store in `crates/cofferwire-client/src/offline/tests.rs:32-65` remembers the
  last bundle for each queue and role only, so an older bundle would be imported
  again; the `BundleStore` trait asks to key by `bundle_id`, and `Bundles` does.

## 4. What is proved

The theorems hold for every value of the constants: any frames, threads,
connections, queue configurations, manifests, keys, windows, budgets, capacities,
numbers of faults and time bounds. They use only the named assumptions about the
constants, which TLC evaluates in every run of these modules: frames carry
well-formed requests, `None` is not a value, bounds are naturals, what is counted is
finite (`ProtocolAssumption`, `DurableAssumption`, `RefinementAssumption`,
`BlobAssumption`, `NoneAssumption`, `RateLimitAssumption`, `PermitsAssumption`,
`ReceiptsAssumption`), every request has a command (`WireAssumption`), and about the
clients what their code and contracts provide: request identifiers are told apart by
number and never shared by two SENDs (`EndToEndAssumption`, `DistinctSends`), and the
frames of a transfer are those of its uploader and its reader (`UploadAssumption`,
`DownloadAssumption`). Eleven theorems have a hypothesis of their own, stated in
them.

| Theorem | Module | States |
|---|---|---|
| `TypeCorrect` | `DurableRelayProofs` | `Spec => []TypeOK` |
| `ExactlyOnce` | `DurableRelayProofs` | `Spec => []EffectOnce` |
| `RepliesAreRecorded` | `DurableRelayProofs` | `Spec => []ReplyIsRecorded` |
| `RecordsArePermanent` | `DurableRelayProofs` | `Spec => RecordsPermanent` |
| `ConstraintsHold` | `DurableRelayProofs` | `Spec => []Integrity` |
| `DeliveredStaysHead` | `DurableRelayProofs` | `Spec => []DeliveredIsHead` |
| `AcceptedIsKept` | `DurableRelayProofs` | `ClockMayStepBack = FALSE => (Spec => []NoSilentLoss)` |
| `MessagesAreFixed` | `DurableRelayProofs` | `ClockMayStepBack = FALSE => (Spec => MessageFixed)` |
| `DepthIsBounded` | `QueueProofs` | `Spec => []DepthBounded` |
| `OrderedTimesImplement` | `RefinementProofs` | `RefinementSpec /\ []TimesInOrder => ImplementsReference` |
| `SerialRelayImplements` | `RefinementProofs` | one thread and `ClockMayStepBack = FALSE` `=> (RefinementSpec => ImplementsReference)` |
| `AcksFollowCommits` | `EndToEndProofs` | `EndToEndSpec => []AckedIsCommitted` |
| `CompletionsAreTrue` | `EndToEndProofs` | `ClockMayStepBack = FALSE => (EndToEndSpec => []CompletionIsTrue)` |
| `InboxIsOrdered` | `QueueProofs` | `EndToEndSpec => []AppliedInOrder` |
| `BlobTypeCorrect` | `BlobRelayProofs` | `Spec => []BlobTypeOK` |
| `PublishedIsWhole` | `BlobRelayProofs` | `Spec => []PublishedWhole` |
| `GrantsAreIndependent` | `BlobRelayProofs` | `OwnCapabilities => (Spec => GrantsIndependent)` |
| `ExpiredStaysExpired` | `BlobRelayProofs` | `ClockMayStepBack = FALSE /\ SoleThread /\ OwnGrantCapabilities => (Spec => ExpiryIsFinal)` |
| `StagesAreTrue` | `TransferProofs` | `TransferSpec => []StageIsTrue` |
| `StoresAreRestorable` | `TransferProofs` | `TransferSpec => []SavedIsRestorable` |
| `OwnFramesAccepted` | `TransferProofs` | `TransferSpec => []OwnUploadAccepted` |
| `DownloadsAreWhole` | `TransferProofs` | `TransferSpec => []DownloadIsWhole` |
| `CompletedBlobsAreReadable` | `TransferProofs` | `TransferSpec => []CompletedIsReadable` |
| `MemoryIsBounded` | `AdmissionProofs` | `Spec => []MemoryBounded` |
| `RateIsBounded` | `AdmissionProofs` | `SamplesInOrder => (Spec => []RateBounded)` |
| `BudgetIsExact` | `AdmissionProofs` | `SamplesInOrder => (Spec => BudgetExact)` |
| `ConnectionsSafe` | `AdmissionProofs` | `PermitsSpec => []ConnectionsCounted` |
| `CommandsSafe` | `AdmissionProofs` | `PermitsSpec => []CommandsCounted` |
| `PoisonSafe` | `AdmissionProofs` | `PermitsSpec => PoisonIsFinal` |
| `AnswersCorrelated` | `WireProofs` | `Spec => []Correlated` |
| `AnswersAccepted` | `WireProofs` | `Spec /\ []RoundTrip /\ []ExecutedIsSent => []AcceptedIsAboutSent` |
| `ConfirmedWasApplied` | `WireProofs` | `ReceiptsSpec => []ConfirmedIsApplied` |
| `ImportsExported` | `WireProofs` | `FieldsDecode => (BundlesSpec => []ImportedIsExported)` |

*The queue relay.* `TypeOK` is not inductive by itself: what a thread holds has a
type only at some points of the exchange. `ThreadInv` says at which, and `Busy` is
their conjunction. `StepKinds` splits a step into the five commands, which end in
a commit or in a rejection, and the rest, which leaves the tables alone
(`QuietStep`); each invariant is then shown for both kinds.

- `ExchangeInv` is `EffectOnce` with `ReplyIsRecorded`. A frame counts as applied
  exactly when its record holds a success; a commit requires that there is no
  record, so the count rises once at most.
- `TablesInv` is the table constraints with `DeliveredIsHead`. A new row has a larger
  sequence than any other, so the delivered row stays at the head of its queue;
  removal breaks nothing (`TablesShrink`).
- `DepthInv` adds to `DepthBounded` that `messages` is finite, which its counting
  needs: SEND counts the rows after its cleanup and adds one to them.
- `LossInv` adds that sampled times are not in the future (`SampledBefore`), which
  is where a clock that is never set back is needed: a cleanup at a sampled time
  then spares everything that is unexpired now (`CleanupSpares`, `Survival`).

*The refinement.* The reference keeps a deque of messages for each queue, the SQLite
relay a set of rows with row identifiers. The mapping lists the rows that the
reference has kept (`Kept`) in ascending order of their identifiers. `Ascending` is
characterised once, by existence and uniqueness for finite sets of numbers
(`AscendingExists`, and lemmas on what becomes of a listing when its last, its first
or any other element comes or goes); after that a listing is any function that
enumerates the rows in order (`IsListing`). The proof then has one lemma for every
outcome of every command: the reference, at the mapped queue, takes the step with the
same result. Passages, failures, crashes and lost races leave the mapped queues alone.
The history variable `cleaned` is what makes it work: a refused command rolls its
cleanup back in the tables and not in the reference, so the mapping leaves out what
had expired by the time of the last look, whether that was rolled back or not. A
command whose time lies before that look would see rows that the reference no longer
has, which is finding 1; hence `TimesInOrder`: no command runs at a time before the
last look at a queue. With any number of threads and processes that is the whole
hypothesis of `OrderedTimesImplement`. `SerialRelayImplements` derives it for a relay
that serves one exchange at a time under a clock that is not set back, from
`CleanedBefore`: no look lies in the future of the clock or of a sampled time.

*End to end.* `RelayMoves` says that a step of the composition is a step of the relay
or leaves it alone, so that the relay's invariants hold in the composition
(`RelayInv`). Around them, `ClientInv` says which frames exist: SENDs of the outbox,
FETCHes and ACKs under identifiers already drawn, and ACKs only of what is in the
inbox (`ClientFrame`), for everything on the wire, at a thread or on record
(`Provenance`). `AckedIsCommitted` follows, since an ACK takes effect only as such a
frame. Every response in the network is the record of its frame (`RepliesTrue`), and a
send that completed is on record (`CompletionRecorded`), so what `send()` returned
is true of the relay whatever order responses arrive in. For the order of the inbox
`log` is the history of accepted messages and `OrderInv` assigns to the inbox, to the
message in hand and to the rows of the queue places in it, ascending in this order: a
FETCH takes the row with the least place, and an older answer can only repeat what is
already in the inbox.

*The blob relay.* `Inv` joins the types with three facts about the tables: what is
staged is what the upload's manifest lists (`StagedAsListed`), a stored object has
exactly the chunks its manifest lists (`ObjectsWhole`), and a grant exists exactly
for a committed upload and names the object of that upload's manifest
(`GrantsCommitted`). COMMIT compares the number of staged rows with the length of
the manifest; `CountIsEnough` shows by counting that with `StagedAsListed` this
alone implies that every listed chunk is staged. For `GrantsIndependent` one also
needs to know whose capabilities a grant carries (`CapsInv`). RENEW finds its grant
by capability, so the theorem needs `OwnCapabilities`: no two uploads begin with the
same renewing capability. CW-BLOB-001 asks clients for that and the relay does not
check it. `ExpiryIsFinal` rests on `ReportsInv`: every recorded EXPIRED is about a
grant that was over when it was recorded, and that is over for the time of every
command still being served. The second half is where `SoleThread` is needed (with
two threads the property fails: finding 2), and that it stays over is where the clock
must not be set back; since no two grants go by the same
capability (`OwnGrantCapabilities`), a RENEW that extends a lease is not about a
grant of which that is true.

*Uploads and downloads.* `TransferInv` joins what the relay holds of the upload
(`OwnTables`, `RecordsKeyed`), which frames exist (`SentInOrder`: a frame of a stage is
sent only when the stages before it are done), what the records say (`RecordsTrue`),
and the two clients. `UploadInv` says the same of the state in memory and of the saved
one (`Standing`): its stage is not ahead of the relay and its pending frame belongs to
the stage. A failed save leaves the old state or the new one and both stand, because
the relay's progress is never taken back. `DownloadInv` says that a download has
gathered a prefix of the manifest's chunks, in spite of late answers to earlier calls.

*The rate limiter.* Eviction pops a prefix, so what remains of a window is a suffix
(`PrefixIsInterval`, `CurrentDrops`), and `MemoryBounded` follows for threads in any
order and any clock. The two exact statements need times in order, which
`SamplesInOrder` provides: one thread (with two `RateBounded` fails: finding 3) and a
clock that is not set back. `HistoryInv` relates the deque to
the history of admissions: the deque is the suffix of the history that is not
evicted, the history is sorted, and what was evicted left every window that can
still end.

*Permits.* The counts are not inductive: that a dropped connection gives its permit
back exactly once depends on which clones exist in each phase (`ClonesMatch`), and
that a panic leaves the database alone on the mutual exclusion of tasks
(`MutualExclusion`). Each action moves at most one connection or task from one
counted set to another (`AddOne`, `DropOne`).

*Frames, receipts and bundles.* `PrefixAnswered` strengthens `Correlated`: whatever
arrived, if it has a whole preamble the answer is about the identifier in it, since the
refusals take it from there and the decoders build a request with it.
`AcceptedIsAboutSent` rests on what the codec guarantees, which is a hypothesis here and
checked by the run `wire` (`RoundTrip`, `ExecutedIsSent`); what is proved is that the
client's two comparisons suffice: an answer to a frame that did not decode has no
command and is never accepted, and any other answer but AUTH_INVALID follows a
verified signature (`AnswerAbout`). For receipts the invariant adds that every receipt
in the world was built for something applied; a verified one has the fields that were
signed. For bundles every envelope in the world is the seal of an export, and one that
opens has the header it was sealed with, because the context of the seal repeats it
(`OpenedIsSealed`); that the plaintext decodes to what was encoded is the hypothesis
`FieldsDecode`, a fact about the encoding that `ExportsOpen` checks for every export of
the run.

*Only model-checked.* `RoundTrip`, `Canonical`, `ExecutedIsSent` and `ExportsOpen`: they
say what folds over a frame or a plaintext compute for every input, which would take
induction over data. And the liveness properties `EventuallyApplied`,
`UploadCompletes`, `OverloadEnds` and `SessionReleased`: liveness under fairness is out
of the prover's reach.

## 5. What is not modelled, and why

- The cryptographic primitives. The models take a signature to identify its signer
  and the bytes it was made for, a seal to open for its keys and context only, and
  digests not to collide. Key generation and the encryption of chunks are part of
  them.
- The byte format of the uploader's saved state: `Restorable` keeps the conditions
  that relate the stage to the pending frame.
- The variants of the relay's commands without the replay table, which the daemon
  does not call; schema creation and the opening of a database.
- Start-up of the daemon (arguments, TLS files), the health probe and media types:
  they change no state that a later step reads.
- The poisoned lock of the rate limiter. Nothing in `admit()` panics below 2^64
  seconds.
- Grants that share a capability. CW-BLOB-001 asks clients for distinct ones; the
  relay does not check. The instances use distinct ones and the theorem says so.
- Benchmarks, interoperability and evidence tools and the test crates: they use the
  parts above and add no behaviour.

## 6. Possible continuations

- Grants that share a capability, once a document says what is meant by them.
- Liveness of a download, for an application that calls `download_blob` again.
