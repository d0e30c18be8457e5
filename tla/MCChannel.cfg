\* Three files, two channels, a pause after every second chunk.
CONSTANTS
  x = x
  y = y
  z = z
  None = None
  Click <- Files
  TotalChunks <- ChunkCounts
  PauseEvery = 2
  Channel = {c1, c2}
SPECIFICATION FairChannelSpec
INVARIANTS
  ChannelTypeOK
  AloneIsIntact
  DownloadedOnce
PROPERTY AloneArrives
CHECK_DEADLOCK FALSE
