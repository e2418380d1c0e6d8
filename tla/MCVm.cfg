CONSTANTS
  NPROC = 2
  NFRAMES = 12
  PGSIZE = 2
  KERNBASE = 8
  W = 16
  NPT = 2
  KTABS = 1
  Deltas = {3, 13, 10}
  Sizes = {1, 9}
  Images <- Files

SPECIFICATION Spec

 
INVARIANT KernelInRange
 
