SPECIFICATION Spec
CONSTANTS
  AddrSpace = 4
  Ram = {0, 1, 2}
  Program <- MCProgram
  Zero = "op"
  StoreWords = {"op2"}
  StoreAddrs = {2}
  BreakAddrs = {2, 3}
  NR_BREAK_POINTS = 1
  MaxDamage = 1
  MaxInterrupts = 1
INVARIANTS
  Transparent
  SameBreakpoints
  AnsweredOnce
  EndedStays
PROPERTY
  Replied
CHECK_DEADLOCK FALSE
