SPECIFICATION PartsSpec
CONSTANTS
  ConfigFiles <- McFiles
  Environments <- McEnvironments
  SetOptions <- McOptions
  WrongType = WrongType
  SeedMax = 7
  HeldOut = HeldOut
  Spread = Spread
  Disks <- McDisks
  EvalEpisodes <- McEval
  Horizons = {0, 1, 2}
  TargetSize = 2
  HighBits = 4
  ExponentBits = 2
  LowBits = 2
  HiddenDim = 2
  EmbDim = 2
  RawActionDim = 1
  Frameskip = 2
  History = 2
  Channels = 2
  ActionScale = 2
  Lambda = 1
  Fills <- McFills
  Windows <- McWindows
  Targets = {2, 3, 5}
  WarmupSteps = 2
  BatchSize = 2
  DatasetLen = 5
  WordBits = 4
  Word <- McWord
  ConfigSeed = 0
  CliSeeds = {3}
  Norms = {1, 6, 40, 99}
  Overflow = 99
  ClipNorm = 2
  ExplosionNorm = 10
  MaxReplaced = 1
  MaxSources = 1
  MaxKills = 1
  Batch = 2
  EncoderDepth = 1
  PredictorDepth = 2
  NumFrames = 3
  HistorySize = 2
  Horizon = 4
  MaxSteps = 2
  PosEmbeddings <- McEmbeddings
  PatchCounts = {0, 1, 3, 4, 9, 16}
  SeqLens = {0, 1, 3}
  Devices = {"cpu", "cuda"}
  MaxCalls = 2
  WordPeriod = 300
  SeedLen = 4
  PosLen = 2
  StreamSeed <- McStreamSeed
  Specs <- McSpecs
  SourceSpecs <- McSourceSpecs
  InitialModel <- McInitialModel
  SourceModels <- McSourceModels
  TransferNames <- McTransferNames
  Ulps = 4
  F32Len = 2
  CounterMax = 1
  Drawn = 200
  ParamValues = {6}
  EditedStreams = {"data_shuffle", "cem"}
  EditedChars = {61, 65}
  MaxUpdates = 2
  MaxJobs = 2
  MaxEdits = 1
  MaxDrifts = 1
CHECK_DEADLOCK FALSE
INVARIANTS
  NonFiniteNeverSaved
