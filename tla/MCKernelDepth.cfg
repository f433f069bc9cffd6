CONSTANTS
  MaxProcesses = 3
  NumFd = 3
  File <- DepthFile
  FileType <- DepthFileType
  Inode <- DepthInode
  Length <- DepthLength
  Executable = {"shell", "counter"}
  Shell = "shell"
  Absent = "absent"
  TextLen = {1}
  ReadSize <- MCReadSize
  ExitStatus <- MCExitStatus
  StackUse = 7024
SPECIFICATION FairSpec
INVARIANTS
  ProcessChain
  Coherent
  SuspendedIntact
  StacksClearOfPcbs
PROPERTIES
  SuspendedUntouched
  ShellComesBack
