SPECIFICATION Spec
CONSTANTS
  AddrSpace = 32
  EntryPC = 12
  BootVec = 0
  KernelVec = 16
  RefillOff = 0
  GeneralOff = 4
  IntrOff = 8
  CountSpace = 2
  MARCH_NOOP = FALSE
  CONFIG_INTR = FALSE
  Targets = {12}
  StatusWords <- MCStatusQuiet
  CauseWords <- MCCauseQuiet
  CountWords = {}
  FaultCodes = {"TLBL"}
  RefusedCodes = {"RI", "AdES"}
  DeviceLines = {}
INVARIANT
  DelaySlotExact
CHECK_DEADLOCK FALSE
