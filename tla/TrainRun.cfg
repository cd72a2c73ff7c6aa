SPECIFICATION Spec
CONSTANTS
  MaxStep = 4
  Keep = 2
  Kinds = {"bounded", "jepa"}
  Resumable = {"bounded"}
  Legacy = {}
  Accepting = {}
  Smoke = "smoke"
  SmokeSteps = {}
  None = "none"
  TornId = "torn"
INVARIANTS
  RetentionRestored
  SuccessIsResumable
PROPERTIES
  NewestNeverRegresses
  ImplementsHistory
