\* The queue without discardable events: order, ownership, liveness.
CONSTANTS
  r1 = r1  r2 = r2
  e1 = e1  e2 = e2  e3 = e3  e4 = e4
  Records = {r1, r2}
  Levels = 1
  Events = {e1, e2, e3, e4}
  Discardable = {}
  Removable = {e4}
  HeapFreed = {}
  HeadNode = HeadNode
  NULL = NULL
SPECIFICATION FairSpec
INVARIANTS TypeOK NoLoss FreedOnce
PROPERTIES Refinement Served
CHECK_DEADLOCK FALSE
