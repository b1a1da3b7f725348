CONSTANTS
  MaxBlocks = 3
  MaxFaults = 2
  None = None
SPECIFICATION Spec
INVARIANTS Conserved OneAnswer
PROPERTY Delivered
CHECK_DEADLOCK FALSE
