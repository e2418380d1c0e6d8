CONSTANTS
  PIPE_BUF = 2
  READ_SIZE = 2
  LINE_SIZE = 4
  Inputs <- Texts
  BufSizes = {0, 1, 3}
  NumProcs = {0, 1, 2}
  MAX_BUFSIZE = 3
  MAX_NUMPROC = 2
  MAX_INPUT_FILES = 2

SPECIFICATION Spec

INVARIANT MergedInOrder
 
INVARIANT CommandsBounded
INVARIANT ArraysHold
PROPERTY AllEnd
CHECK_DEADLOCK FALSE
