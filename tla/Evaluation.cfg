SPECIFICATION EvaluationSpec
CONSTANTS
  NextLatent <- McPredict
  NotFiniteLatent = NotFiniteLatent
  MaxFiniteCost = 300
  SampledActions <- McActions
  CemConfigs <- McConfigs
  Requests <- McRequests
  Inputs <- McInputs
  HistorySizes = {0, 1, 2}
  Floors <- McFloors
  MaxEvals = 2
  NaN = NaN
  Infinity = Infinity
  Values = {0, 1, 3, NaN, Infinity}
  ExportTolerance = 1
  Tolerances = {0, 2}
  Features = {"onnx", "nnef", "burn-cpu"}
  StepFiles = {9, 10, 100}
  Latencies = {1, 2, 3}
  Clients = {c1, c2, c3}
  MaxExports = 2
  MaxWeights = 2
  EncoderDepth = 2
  PredictorDepth = 1
  NumFrames = 2
  NumPatches = 1
  HiddenSize = 2
  InnerSize = 3
  ActionSize = 1
  HiddenAct = "erf"
  MaxRuns = 3
  MaxReplaced = 2
  KeysValid <- ReferenceKeysValid
  Writable <- ReferenceWritable
  LoaderTakes <- TensorsFit
  RecordMatches <- TensorsMatch
  ExporterTakes <- ContractMet
  MaxWrites = 5
CHECK_DEADLOCK FALSE
INVARIANTS
  PlansAreSound
  RolloutsAreJudged
  ExportsAreTold
  VerdictsAreSound
  VerifiedIsOneConversion
  ConversionKeepsTheModel
PROPERTIES
  ClientsAreAnswered
  ImplementsRegister
