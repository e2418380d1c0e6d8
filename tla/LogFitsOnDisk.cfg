CONSTANTS
  Blocks = {b1, b2, b3}
  Vals = {v1, v2}
  Ops = {o1, o2, o3}
  MAXOPBLOCKS = 1
  LOGSIZE = 3
  SIZE = 3
  NULL = NULL
SPECIFICATION Spec
SYMMETRY Symmetry
INVARIANT
  FitsOnDisk
