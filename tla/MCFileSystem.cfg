CONSTANTS
  Procs = {1, 2}
  NINODES = 4
  NBLOCKS = 5
  NINODE = 4
  NDIRECT = 1
  NINDIRECT = 1
  Names = {"a", "b"}
  Paths <- UsedPaths
  Disk0 <- Tree
  MaxCalls <- Limits

SPECIFICATION Spec

INVARIANT OnlyRunsOut
INVARIANT EntriesCounted
INVARIANT BlocksOwnedOnce
INVARIANT IlocksOrdered

CHECK_DEADLOCK FALSE
