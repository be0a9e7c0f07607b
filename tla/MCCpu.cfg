SPECIFICATION Spec
CONSTANTS
  AddrSpace = 16
  EntryPC = 12
  BootVec = 0
  KernelVec = 4
  RefillOff = 0
  GeneralOff = 4
  IntrOff = 8
  CountSpace = 2
  MARCH_NOOP = FALSE
  CONFIG_INTR = TRUE
  Targets = {14}
  StatusWords <- MCStatus
  CauseWords <- MCCause
  CountWords = {0}
  FaultCodes = {"TLBL"}
  RefusedCodes = {"RI"}
  DeviceLines = {4}
INVARIANTS
  TypeOK
  DelaySlotKnown
  EpcResumes
  TimerMatchPending
PROPERTIES
  InterruptPrompt
  IrqLinesHeld
CHECK_DEADLOCK FALSE
