SPECIFICATION Spec
CONSTANTS
  Capacity = 2
  MaxChars = 3
  InitChars = 1
INVARIANTS
  FifoIntact
  Announced
PROPERTIES
  InOrder
  EveryCharRead
CHECK_DEADLOCK FALSE
