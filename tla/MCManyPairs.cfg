\* Signaling without transfers: three devices, each on its socket, with three
\* requests between any of them; no time passes (Quiet).
CONSTANTS
  a = a
  b = b
  c = c
  None = None
  Segment <- Segments
  Device <- ThreeDevices
  Rank <- ThreeRanks
  Socket = {s1, s2, s3}
  HeartbeatTimeout = 1
  KickOutcomes = {TRUE, FALSE}
  Request = {r1, r2, r3}
  RequestTimeout = 1
  SessionId = {i1, i2, i3}
  Transfer = {}
SPECIFICATION Spec
SYMMETRY QuietSymmetry
CONSTRAINT Quiet
INVARIANTS
  IndexExact
  OneLiveSessionPerPair
  ConsentBeforeSession
PROPERTIES
  AcceptedRequestOpensSession
  ImplementsPairLinks
  EndedStaysEnded
