CONSTANTS
  Cpus = {1, 2}
  Procs = {3, 4}
  NONE = NONE
  Locks <- MCLocks
  Chans <- MCChans
  Typed <- MCTyped
  Calls <- MCCalls
  INPUT_BUF = 2
  UINT = 4
  TICKS = 2
  MaxEvents = 3
  BOOT = 1
SPECIFICATION Spec
INVARIANTS
  NoPanic
  InterruptsAsDue
  SpinsEnd
  NoWakeupLost
PROPERTIES
  GivenIsQueue
