SPECIFICATION LiveSpec
CONSTANTS
  Episodes = 2
  MaxSteps = 3
  MaxRuns = 2
  MaxNoise = 2
INVARIANTS
  StepsAreSimulated
  ReportIsWhole
PROPERTY RunReturns
