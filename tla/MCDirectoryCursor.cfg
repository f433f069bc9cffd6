CONSTANTS
  NAME_LEN = 2
  Entry <- MCEntry
  Word <- MCWord
  Command <- MCCommand
  NBytes = {1}
  Fd = {2}
  Column = {0, 7}
SPECIFICATION Spec
PROPERTY
  CursorKept
