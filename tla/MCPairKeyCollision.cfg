\* Two pairs of devices whose ids join to the same key, one request in each.
CONSTANTS
  a = a
  b = b
  c = c
  None = None
  Segment <- Segments
  Device <- CollidingDevices
  Rank <- CollidingRanks
  Socket = {s1, s2, s3, s4}
  HeartbeatTimeout = 1
  KickOutcomes = {TRUE, FALSE}
  Request = {r1, r2}
  RequestTimeout = 1
  SessionId = {i1, i2}
  Transfer = {}
SPECIFICATION Spec
SYMMETRY QuietSymmetry
CONSTRAINT Quiet
PROPERTY AcceptedRequestOpensSession
