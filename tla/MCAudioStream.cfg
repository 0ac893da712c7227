SPECIFICATION FairSpec
CONSTANTS
  CAPACITY = 3
  Samples <- MCSamples
  Silence = 0
  PREROLL = 2
  ChunkLengths <- MCChunkLengths
  BLOCK = 2
  LAST_SAMPLE = 6
INVARIANTS RingConsistent NothingLost
PROPERTIES DropsOldest Drains
CHECK_DEADLOCK TRUE
