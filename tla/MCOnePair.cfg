\* Signaling without transfers: two devices on three sockets, so that they
\* register again, replace each other's sockets, share one, and fall silent; with what
\* the gateway pushes to them.
CONSTANTS
  a = a
  b = b
  c = c
  None = None
  Segment <- Segments
  Device <- TwoDevices
  Rank <- TwoRanks
  Socket = {s1, s2, s3}
  HeartbeatTimeout = 1
  KickOutcomes = {TRUE, FALSE}
  Request = {r1}
  RequestTimeout = 1
  SessionId = {i1}
  Transfer = {}
SPECIFICATION NotifySpec
SYMMETRY IdSymmetry
INVARIANTS
  TypeOK
  RegistryCoherent
  StaleMeansSilent
  ActivePartiesAreConnected
  NotifyTypeOK
  PartiesAreUpToDate
  ListedAreOnline
PROPERTIES
  DecidedOnce
