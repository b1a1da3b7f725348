\* A full ring with a discardable event in it: what the walk for a victim does
\* to the event that was to take its place.
CONSTANTS
  r1 = r1  r2 = r2
  e1 = e1  e2 = e2  e3 = e3  e4 = e4
  Records = {r1, r2}
  Levels = 1
  Events = {e1, e2, e3, e4}
  Discardable = {e1}
  Removable = {}
  HeapFreed = {}
  HeadNode = HeadNode
  NULL = NULL
SPECIFICATION Spec
INVARIANTS NoLoss
CHECK_DEADLOCK FALSE
