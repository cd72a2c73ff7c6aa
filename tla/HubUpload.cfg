SPECIFICATION LiveSpec
CONSTANTS
  Count = 3
  Lfs = {2}
  Empty = {3}
  MaxVersion = 2
  MaxHttp = 1
  MaxNetwork = 1
  MaxLate = 1
  MaxChanges = 1
INVARIANTS
  PassedIsPublished
PROPERTIES
  OkIsTrue
  CallsReturn
