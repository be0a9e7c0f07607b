SPECIFICATION Spec
CONSTANTS
  ByteBits = 2
  MemSize = 8
  Patterns = {0, 1, 6, 127, 128, 255}
  Cpus <- MCCpus
  Insts <- MCInsts
  Garbage = {0, 1}
INVARIANTS
  Unaligned
PROPERTIES
  CachedSame
  Restartable
  SignedExact
  BitsInPlace
CHECK_DEADLOCK FALSE
