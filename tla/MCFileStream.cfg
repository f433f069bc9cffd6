CONSTANTS
  FOUR_KB = 2
  Slots = 5
  D = 3
  Ino <- MCIno
  Size <- MCSize
  Blocks <- MCBlocks
  Fds = {2, 3}
  ReadLen = {0, 1, 2, 3}
  HeaderLen = 1
  LoadLen = 6
  MagicLen = 1
  Elf = {2}
SPECIFICATION Spec
INVARIANTS
  StreamExact
  CopyExact
PROPERTIES
  ShortOnlyAtEnd
