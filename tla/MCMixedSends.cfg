\* Files on one channel that nobody closes: the second is begun before the first is sent.
CONSTANTS
  x = x
  y = y
  z = z
  None = None
  Click <- Files
  TotalChunks <- ChunkCounts
  PauseEvery = 32
  Channel = {c1}
SPECIFICATION ChannelSpec
INVARIANT PutTogetherWhole
CHECK_DEADLOCK FALSE
