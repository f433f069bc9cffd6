CONSTANTS
  KEY_BUF_SIZE = 2
  Letter = {"a"}
  Digit = {}
  ControlKey <- EditKey
  MaxHits = 0
SPECIFICATION StrongSpec
PROPERTY
  EnterEndsRead
