SPECIFICATION Spec
CONSTANTS
  KEYS <- MCKeys
  shift_up_ascii <- MCShiftUp
  shift_down_ascii <- MCShiftDown
  BUF = 6
  WIDTH = 2
  COMMANDS <- MCCommands
  max_instruction_history = 2
INVARIANTS TypeOK HistoryFilled ShownEndsLine ArgsAreTyped WordsOfString
PROPERTIES ImplementsHistory
