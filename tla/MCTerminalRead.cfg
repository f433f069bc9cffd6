CONSTANTS
  KEY_BUF_SIZE = 2
  Letter = {"a"}
  Digit = {}
  ControlKey <- LineKey
  MaxHits = 3
SPECIFICATION FairSpec
INVARIANTS
  LineNotTorn
  EnterPerRead
  LineEndsWithNewline
PROPERTIES
  CopyEnds
