SPECIFICATION Spec
CONSTANTS
  Parts <- MCParts
  PageSize = 2
  SectorSize = 2
  ShortAddr = 1
  LongAddr = 2
  MAX_3BYTES_SIZE = 2
  BufSize = 2
  MaxDummy = 1
  IdLen = 2
  InitFiles <- MCFiles
  Commands <- MCCommands
INVARIANTS
  BufferUsed
  Durable
PROPERTIES
  SamePart
CHECK_DEADLOCK FALSE
