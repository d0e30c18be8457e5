\* Signaling without transfers under the fairness of the clock and the timers:
\* two devices on two sockets and a request between them.
CONSTANTS
  a = a
  b = b
  c = c
  None = None
  Segment <- Segments
  Device <- TwoDevices
  Rank <- TwoRanks
  Socket = {s1, s2}
  HeartbeatTimeout = 2
  KickOutcomes = {TRUE, FALSE}
  Request = {r1}
  RequestTimeout = 2
  SessionId = {i1}
  Transfer = {}
SPECIFICATION FairSpec
PROPERTIES
  SilenceIsNoticed
  RequestsAreDecided
