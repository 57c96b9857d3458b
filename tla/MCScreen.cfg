SPECIFICATION Spec
CONSTANTS
  MAX_COLS = 3
  MAX_ROWS = 3
  BYTE = 4
  PROMPT = 1
  TAB = 4
  MESSAGES <- MCMessages
  OUTPUTS <- MCOutputs
  LINES <- MCLines
INVARIANTS TypeOK PrintsOnScreen
PROPERTIES EnterRecovers KeysKeepCursor PrintBeforeCursor
