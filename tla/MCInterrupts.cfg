SPECIFICATION FairSpec
CONSTANTS
  LINES <- MCLines
  COMMANDS <- MCCommands
  HDR = 1
  SIZE = 1
  FTR = 1
  WAIT = 0
  BLOCKS = 1
  MAXBLOCKS = 3
INVARIANTS TypeOK InServiceOnlyBeforeEoi HandlersMeetTheirLines ShellBlocksApart
PROPERTIES KeysAreRead
\* The machine may halt.
CHECK_DEADLOCK FALSE
