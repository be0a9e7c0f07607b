SPECIFICATION Spec
CONSTANTS
  Single <- MCSingle
  Double <- MCDouble
  Extended <- MCExtended
  Quad <- MCQuad
  WideExtended <- MCWideExtended
  WideQuad <- MCWideQuad
  Half <- MCHalf
  HalfSingle <- MCHalfSingle
  HalfDouble <- MCHalfDouble
  I16 = 3
  I32 = 4
  I64 = 12
  IG = 2
  WordBits = 4
  Formats <- MCFormats
  Args <- MCArgs
  Seconds <- MCSeconds
  Statuses <- MCStatuses
  Scales <- MCScales
  Third <- MCThird
  Flagged <- MCFlagged
  Units <- MCUnits
  Edges <- MCEdges
  Integers64 <- MCIntegers64
  EdgeWords <- MCEdgeWords
INVARIANTS
  ArithmeticRounded
  SpecialOperands
  FusedRounded
  ComparesOrder
  IntegersRounded
  ConversionsRounded
  WordsExact
