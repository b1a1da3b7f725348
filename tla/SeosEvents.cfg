\* Events, subscriptions and messages of apps that are started once and may be stopped.
CONSTANTS
  a = a
  b = b
  v = v
  MaxTasks = 3
  Counter = 4
  IoWidth = 256
  Embedded = 1
  Capacity = 16
  Slab = 3
  Apps = {a, b}
  Evts = {v}
  APP_STARTED = APP_STARTED
  APP_STOPPED = APP_STOPPED
  Faults = {"load"}
  MaxCalls = 3
  MaxIrqs = 1
  NULL = NULL
SPECIFICATION Spec
SYMMETRY Symmetry
INVARIANTS TypeOK Subscribed DeliveredToAll IoAccounted FreedOnce
PROPERTIES ToldToStop
CHECK_DEADLOCK FALSE
