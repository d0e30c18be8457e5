\* Signaling with one transfer, in either direction, between two devices on two
\* sockets; its parties may fall silent or leave while it goes on, and its record may
\* be hidden and deleted; with what the gateway pushes to them and what they read.
CONSTANTS
  a = a
  b = b
  c = c
  None = None
  Segment <- Segments
  Device <- TwoDevices
  Rank <- TwoRanks
  Socket = {s1, s2}
  HeartbeatTimeout = 1
  KickOutcomes = {TRUE, FALSE}
  Request = {r1}
  RequestTimeout = 1
  SessionId = {i1}
  Transfer = {t1}
SPECIFICATION NotifySpec
CONSTRAINT Unshared
SYMMETRY IdSymmetry
INVARIANTS
  TransferInsideSession
  HandshakeOrder
  OutcomeFieldsAgree
  PartiesAreUpToDate
PROPERTIES
  OutcomeIsFinal
