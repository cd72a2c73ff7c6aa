SPECIFICATION LiveSpec
CONSTANTS
  Workers = {w1, w2}
  Samples = 5
  BatchSize = 2
  ChannelCapacity = 1
  FatalErrors = 2
INVARIANTS
  NoSampleTwice
  EpochAccounted
  SilentLossIsIsolated
PROPERTIES
  NobodyWaitsForever
