SPECIFICATION Spec
CONSTANTS
  Builds = {{}, {"DELAYSLOT"}, {"DELAYSLOT", "EXCEPTION"}}
  CacheSize = 2
  Words = 3
  Kinds = {"store", "cache", "likely", "trap", "eret"}
  Vector = 1
  MaxChain = 3
CONSTRAINT
  ChainBound
INVARIANTS
  FreshOnChain
CHECK_DEADLOCK FALSE
