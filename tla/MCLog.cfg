CONSTANTS
  Blocks = {b1, b2, b3}
  Vals = {v1, v2}
  Ops = {o1, o2}
  MAXOPBLOCKS = 2
  LOGSIZE = 4
  SIZE = 5
  NULL = NULL
SPECIFICATION Spec
SYMMETRY Symmetry
INVARIANTS
  SpaceReserved
  NoEndDuringCommit
  SleepersWoken
PROPERTY
  ImplementsTransactions
