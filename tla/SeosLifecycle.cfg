\* Starting, stopping, restarting and aborting apps.
CONSTANTS
  a = a
  b = b
  v = v
  MaxTasks = 3
  Counter = 4
  IoWidth = 256
  Embedded = 1
  Capacity = 16
  Slab = 3
  Apps = {a, b}
  Evts = {v}
  APP_STARTED = APP_STARTED
  APP_STOPPED = APP_STOPPED
  Faults = {"init", "abort"}
  MaxCalls = 2
  MaxIrqs = 1
  NULL = NULL
SPECIFICATION FairSpec
INVARIANTS ListsOK SlotAccounted OnlyLoadedRun
PROPERTIES Ended
CHECK_DEADLOCK FALSE
