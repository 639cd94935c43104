SPECIFICATION FairTransfer
CONSTANTS
  u1 = u1
  u2 = u2
  b1 = b1
  x1 = x1
  x2 = x2
  k1 = k1
  k2 = k2
  k3 = k3
  k4 = k4
  n1 = n1
  n2 = n2
  n3 = n3
  n4 = n4
  t1 = t1
  t2 = t2
  manifest1 = manifest1
  None = None
  UploadIds = {u1}
  CapabilityIds = {k1, k2, k3, k4, n1, n2, n3, n4}
  RequestIds = {1, 2, 3, 4, 5}
  BlobIds = {b1}
  Manifests = {manifest1}
  Ciphertexts = {x1, x2}
  Chunks <- TwoChunks
  Identify <- MCIdentify
  BlobFrames <- TransferFrames
  Threads = {t1}
  MaxTimestamp = 2
  ClockMayStepBack = FALSE
  Mine = u1
  MyCaps <- Caps1
  MyManifest = manifest1
  MyTtl = 1
  MaxId = 5
  MaxGets = 5
  MaxFaults = 3
CHECK_DEADLOCK FALSE
INVARIANTS StageIsTrue SavedIsRestorable OwnUploadAccepted DownloadIsWhole CompletedIsReadable
PROPERTY UploadCompletes
