CONSTANTS
  MaxProcesses = 3
  NumFd = 8
  File <- MCFile
  FileType <- MCFileType
  Inode <- MCInode
  Length <- MCLength
  Executable <- Program
  Shell = "shell"
  Absent = "absent"
  TextLen = {1}
  ReadSize = {1}
  ExitStatus = {0}
  StackUse = 7024
  Residue <- MCResidue
  Entries <- MCEntries
  Typed <- MCTyped
  Choices <- MCChoices
  Counts = {2}
  WAIT = 2
SPECIFICATION FairProgramsSpec
INVARIANTS
  SyserrPasses
  ArgumentsExact
  ListsAll
  DescriptorsAgree
  OpenedIsReady
PROPERTIES
  ShellReports
  CommandsEnd
  HaltClosesAll
  ImplementsProcessStack
