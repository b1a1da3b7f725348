\* Discardable events, one freed through the heap, and two interrupt
\* priorities: the ring under the walk for a victim.
CONSTANTS
  r1 = r1  r2 = r2
  e1 = e1  e2 = e2  e3 = e3  e4 = e4
  Records = {r1, r2}
  Levels = 2
  Events = {e1, e2, e3, e4}
  Discardable = {e1, e2}
  Removable = {}
  HeapFreed = {e1}
  HeadNode = HeadNode
  NULL = NULL
SPECIFICATION Spec
INVARIANTS RingOK SlabAccounted OneRing
CHECK_DEADLOCK FALSE
