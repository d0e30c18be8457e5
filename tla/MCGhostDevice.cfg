\* Two devices may register on the same socket, which then closes.
CONSTANTS
  a = a
  b = b
  c = c
  None = None
  Segment <- Segments
  Device <- TwoDevices
  Rank <- TwoRanks
  Socket = {s1, s2}
  HeartbeatTimeout = 1
  KickOutcomes = {TRUE, FALSE}
  Request = {}
  RequestTimeout = 1
  SessionId = {}
  Transfer = {}
SPECIFICATION Spec
INVARIANT PresentMeansConnected
