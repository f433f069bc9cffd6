CONSTANTS
  POOL = 3
  CELLS = 3
  Struct <- MCStruct
  MaxSync = 1
  BUFSIZE = 3
  Texts <- MCTexts
  Words <- MCWords
  Stack <- MCStack
SPECIFICATION FairAlgorithmsSpec
CHECK_DEADLOCK FALSE
INVARIANTS
  ListIntact
  ShownAgrees
  SearchExact
PROPERTIES
  KeepsBlinking
  GrepEnds
