CONSTANTS
  Num = 3
  Items = {a, b}
SPECIFICATION Spec
INVARIANTS Partition
PROPERTY Refinement
