CONSTANTS
  NPROC = 3
  Cpus = {c1}
  Chans = {10}
  MaxPid = 3
  Targets = {0, 2, 3}
  Queried = {}
SPECIFICATION FairSpec
PROPERTIES
  ImplementsReadyQueues
  HighNotStarved
