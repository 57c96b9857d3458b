SPECIFICATION Spec
CONSTANTS
  LINES <- KeyboardOnly
  COMMANDS <- MCCommands
  HDR = 1
  SIZE = 1
  FTR = 1
  WAIT = 0
  BLOCKS = 2
  MAXBLOCKS = 3
INVARIANTS PagingCompleted
CHECK_DEADLOCK FALSE
