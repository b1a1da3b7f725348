CONSTANTS
  NumSlots = 2
  MaxId = 2
  Tasks = {0, 2}
  Apps = {2}
  Asks <- AsksMC
  EvtCap = 1
  MaxTime = 2
  MaxSets = 2
  MaxIrqs = 1
SPECIFICATION Spec
INVARIANTS SlotsAccounted Punctual NoneAfterCancel AlarmCovers
PROPERTY DueTimersFire
CHECK_DEADLOCK FALSE
