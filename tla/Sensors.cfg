SPECIFICATION Spec
CONSTANTS
  Clients = {c1, c2}
  Wishes <- MCWishes
  HasList = TRUE
  Supported <- MCSupported
  MatrixSize = 2
  MaxSignals = 2
  MaxRegs = 2
  MaxFaults = 1
CHECK_DEADLOCK FALSE
INVARIANT OneCall
INVARIANT InStep
INVARIANT OnlySupported
INVARIANT NoneLeft
PROPERTY Settles
