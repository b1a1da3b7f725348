\* A heap of five minimal chunks, two tasks, requests of 0, 1 and 4 units; a header
\* takes twice the alignment, as in the code.
CONSTANTS
  Start = 1
  HeapSize = 22
  Hdr = 4
  Align = 2
  Word = 64
  Sizes = {0, 1, 4}
  Tids = {1, 2}
SPECIFICATION FairSpec
INVARIANTS TypeOK ChainOK LiveIntact
PROPERTIES Refinement Returns
