\* A queue that is full most of the time.
CONSTANTS
  a = a
  b = b
  v = v
  MaxTasks = 3
  Counter = 4
  IoWidth = 256
  Embedded = 1
  Capacity = 2
  Slab = 3
  Apps = {a, b}
  Evts = {v}
  APP_STARTED = APP_STARTED
  APP_STOPPED = APP_STOPPED
  Faults = {"abort"}
  MaxCalls = 3
  MaxIrqs = 1
  NULL = NULL
SPECIFICATION Spec
SYMMETRY Symmetry
INVARIANTS IoAccounted
CHECK_DEADLOCK FALSE
