\* One pipe of two bytes, whose counters wrap after four; two processes.
CONSTANTS
  Procs = {1, 2}
  PIPESIZE = 2
  W = 4
  NFILE = 2
  NOFILE = 2
  Sizes = {1, 3}
  Openers = {1}
  Victims = {2}

SPECIFICATION Spec

INVARIANT RingIsStream
INVARIANT SleepersMustWait
 
INVARIANT EndsMatchHolders

CHECK_DEADLOCK FALSE
