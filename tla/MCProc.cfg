CONSTANTS
  NPROC = 3
  Cpus = {c1, c2}
  Chans = {10}
  MaxPid = 4
  Targets = {0, 2, 3}
  Queried = {2}
SPECIFICATION Spec
SYMMETRY CpuSymmetry
INVARIANTS
  TypeOK
  QueuesHoldRunnable
  StackInUse
  WaitMissesNothing
  ForkOwnsEmbryo
  ParentsLive
PROPERTIES
  LifecycleRespected
  HighGoesFirst
  GetprioOfOwn
