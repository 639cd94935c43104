SPECIFICATION Spec
CONSTANTS
  u1 = u1
  u2 = u2
  b1 = b1
  x1 = x1
  x2 = x2
  k1 = k1
  k2 = k2
  k3 = k3
  k4 = k4
  n1 = n1
  n2 = n2
  n3 = n3
  n4 = n4
  t1 = t1
  t2 = t2
  manifest1 = manifest1
  None = None
  UploadIds = {u1, u2}
  CapabilityIds = {k1, k2, k3, k4, n1, n2, n3, n4}
  RequestIds = {1, 2, 3}
  BlobIds = {b1}
  Manifests = {manifest1}
  Ciphertexts = {x1, x2}
  Chunks <- OneChunk
  Identify <- MCIdentify
  BlobFrames <- GrantFrames
  Threads = {t1}
  MaxTimestamp = 2
  ClockMayStepBack = FALSE
INVARIANTS BlobTypeOK PublishedWhole
PROPERTIES GrantsIndependent ExpiryIsFinal
