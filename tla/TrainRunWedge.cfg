SPECIFICATION Spec
CONSTANTS
  MaxStep = 3
  Keep = 1
  Kinds = {"bounded"}
  Resumable = {"bounded"}
  Legacy = {}
  Accepting = {}
  Smoke = "smoke"
  SmokeSteps = {}
  None = "none"
  TornId = "torn"
INVARIANTS
  RunDirResumable
