SPECIFICATION Spec
CONSTANTS
  MaxStep = 3
  Keep = 1
  Kinds = {"bounded"}
  Resumable = {"bounded"}
  Legacy = {"legacy"}
  Accepting = {"bounded"}
  Smoke = "smoke"
  SmokeSteps = {1, 3}
  None = "none"
  TornId = "torn"
INVARIANTS
  NewestSidecarComplete
  ResumeLoadsOneGeneration
  ReportIsBacked
