\* Three processes and one pinned buffer, two buffers, three blocks.
CONSTANTS
  Procs = {p1, p2, p3}
  NBUF = 2
  Blocks = {k1, k2, k3}
  Values = {0, 1}
  MaxPinned = 1
  NONE = NONE

SYMMETRY Symmetry

SPECIFICATION Spec

INVARIANT OneBufferPerBlock
INVARIANT ReadsLastWrite
INVARIANT SleepersHaveWaker
INVARIANT OutOfBuffersOnlyIfInUse
