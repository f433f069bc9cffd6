CONSTANTS
  NAME_LEN = 2
  Entry <- MCEntry
  Word <- MCWord
  Command <- MCCommand
  NBytes = {0, 1, 2}
  Fd = {2, 3}
  Column = {7}
SPECIFICATION Spec
INVARIANTS
  LookupExact
  ListExact
