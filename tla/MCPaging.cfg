CONSTANTS
  MaxProcesses = 3
  DirIndex = {0, 1, 2, 32, 33}
  TableIndex = {0, 184}
SPECIFICATION Spec
INVARIANTS
  KernelStays
  ProgramReached
  OnlyOwnMemory
  VidmapShows
