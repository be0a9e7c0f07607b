SPECIFICATION Spec
CONSTANTS
  Capacity = 2
  MaxChars = 3
  InitChars = 1
INVARIANT
  ValidDataMeansData
CHECK_DEADLOCK FALSE
