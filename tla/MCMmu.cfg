SPECIFICATION Spec
CONSTANTS
  NR_TLB_ENTRY = 2
  SegPages = 4
  CacheSize = 1
  MARCH_NOOP = FALSE
  Ram = {0, 1}
  Mmio = {2}
  Pages = {1, 2, 28}
  EntryHis <- MCEntryHisApart
  EntryLo0s <- MCEntryLo0sReadOnly
  EntryLo1s <- MCEntryLo1sInvalid
  PageMasks = {0}
INVARIANTS
  TypeOK
  CacheCoherent
  RefillAnswered
PROPERTIES
  AsidKept
CHECK_DEADLOCK FALSE
