SPECIFICATION WireSpec
CONSTANTS
  Widths <- MCWidths
  RequestIdBytes = 1
  IdBytes = 1
  MaxFrameBytes = 45
  MaxAuthBytes = 2
  MaxMessageBytes = 24
  MaxBlobFrameBytes = 32
  BlobAuthBytes = 2
  TagBytes = 1
  MinChunkBytes = 2
  MaxChunkBytes = 2
  MinPaddedBytes = 2
  MaxPaddedBytes = 4
  MaxChunks = 2
  MaxManifestBytes = 6
  Requests <- MCRequests
  Bodies <- MCBodies
  Signature <- MCSignature
  Garble <- MCGarble
  MaxDamage = 1
  alice = alice
  bob = bob
  hello = hello
  goodbye = goodbye
  Objects <- MCObjects
  Contents = {hello, goodbye}
  AnyContent = AnyContent
  Times = {1}
  Devices <- MCDevices
  Exports <- MCExports
  KeyBytes = 1
  TimeBytes = 1
  MaxRelayHints = 2
  MaxRelayHintBytes = 2
INVARIANTS RoundTrip Canonical ExecutedIsSent AcceptedIsAboutSent Correlated ConfirmedIsApplied ExportsOpen ImportedIsExported
