SPECIFICATION RefinementSpec
CONSTANTS
  q1 = q1
  q2 = q2
  alice = alice
  bob = bob
  m1 = m1
  m2 = m2
  p1 = p1
  p2 = p2
  t1 = t1
  t2 = t2
  c1 = c1
  c2 = c2
  None = None
  QueueIds = {q1, q2}
  Principals = {alice, bob}
  MessageIds = {m1, m2}
  Payloads = {p1, p2}
  RequestIds = {1, 2, 3, 4}
  PayloadLen <- MCPayloadLen
  Configs <- MCConfigs
  MaxTimestamp = 2
  Frames <- QueueFrames
  Threads = {t1}
  Connections = {c1}
  ConnectionOf <- MCConnectionOf
  MaxSequence = 3
  ClockMayStepBack = FALSE
INVARIANTS DepthBounded Integrity DeliveredIsHead NoSilentLoss
PROPERTIES MessageFixed ImplementsReference
