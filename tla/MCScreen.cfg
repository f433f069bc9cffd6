CONSTANTS
  NUM_ROWS = 3
  NUM_COLS = 2
  PageCells = 7
  tab_size = 3
  KEY_BUF_SIZE = 3
  Glyph = {"a", "b"}
  Output <- MCOutput
  MaxX = 3
SPECIFICATION Spec
CHECK_DEADLOCK FALSE
INVARIANTS
  EchoMatches
PROPERTIES
  OutputKept
