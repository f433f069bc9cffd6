CONSTANTS
  MaxProcesses = 2
  NumFd = 3
  File <- DepthFile
  FileType <- DepthFileType
  Inode <- DepthInode
  Length <- DepthLength
  Executable = {"shell", "counter"}
  Shell = "shell"
  Absent = "absent"
  TextLen = {1}
  ReadSize <- MCReadSize
  ExitStatus <- MCWideStatus
  StackUse = 7024
SPECIFICATION Spec
INVARIANT
  ShellReadsStatus
