SPECIFICATION Spec
CONSTANTS
  Capacity = 2
  Values = {0, 1}
  Zero = 0
  TxBytes = {1}
  Masks <- MCMasks
INVARIANT
  TypeOK
  StatusExact
  InterruptExact
  LossReported
PROPERTY
  ImplementsQueue
