SPECIFICATION Spec
CONSTANTS
  LINES <- KeyboardOnly
  COMMANDS <- Returning
  HDR = 1
  SIZE = 1
  FTR = 1
  WAIT = 0
  BLOCKS = 2
  MAXBLOCKS = 3
INVARIANTS BlocksApart
CHECK_DEADLOCK FALSE
