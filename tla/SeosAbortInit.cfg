\* An app that aborts while it initialises.
CONSTANTS
  a = a
  v = v
  MaxTasks = 3
  Counter = 4
  IoWidth = 256
  Embedded = 1
  Capacity = 16
  Slab = 3
  Apps = {a}
  Evts = {v}
  APP_STARTED = APP_STARTED
  APP_STOPPED = APP_STOPPED
  Faults = {"abort in init"}
  MaxCalls = 1
  MaxIrqs = 0
  NULL = NULL
SPECIFICATION Spec
PROPERTIES UnloadsStopped
CHECK_DEADLOCK FALSE
