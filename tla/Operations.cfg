SPECIFICATION PartsSpec
CONSTANTS
  FlushRecords = 2
  FlushInterval = 2
  FastCadence = 1
  DiskCadence = 2
  MaxClock = 2
  MaxRecords = 5
  MaxCrashes = 1
  MaxFaults = 1
  Embeddings <- McRows
  NotFinite = NotFinite
  BatchFrames = 2
  Dim = 2
  TripsRequired = 2
  Percent <- McPercent
  MaxProbes = 5
  JobList <- McJobs
  Wall <- McWall
  Price = 500
  Cap = 30
  Backfill = "backfill"
  Garbled = "garbled"
  MaxDeaths = 1
CHECK_DEADLOCK FALSE
INVARIANTS
  RecordsAreKept
  CollapseIsReported
  LedgerIsConsistent
PROPERTIES
  FlushedStays
  SamplesAreSpaced
  EventuallyBilled
