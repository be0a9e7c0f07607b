SPECIFICATION Spec
CONSTANTS
  NR_TLB_ENTRY = 2
  SegPages = 4
  CacheSize = 2
  MARCH_NOOP = FALSE
  Ram = {0, 1}
  Mmio = {2}
  Pages = {0, 1}
  EntryHis <- MCEntryHisShared
  EntryLo0s <- MCEntryLo0s
  EntryLo1s <- MCEntryLo1sDevice
  PageMasks = {0}
INVARIANT
  Coherent
CHECK_DEADLOCK FALSE
