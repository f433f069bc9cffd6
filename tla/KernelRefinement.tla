-------------------------- MODULE KernelRefinement --------------------------
(***************************************************************************)
(* Kernel implements ProcessStack.  The program of the innermost process   *)
(* is the one the CPU executes, that of a suspended one is the one whose   *)
(* call is saved on its kernel stack; its table is the in-use part of the  *)
(* file array that its PCB holds.                                          *)
(***************************************************************************)
EXTENDS Kernel, Sequences

Handles(array) ==
  [fd \in {f \in Fd : array[f].used = 1} |->
     [kind |-> array[fd].ops, object |-> array[fd].inode,
      pos |-> array[fd].file_pos]]

Stack ==
  [n \in 1..process_number |->
     [prog  |-> IF n = process_number THEN running ELSE saved[StackTop(n)],
      table |-> Handles(pcbs[PcbAddr(n - 1)].file_array)]]

Abstract == INSTANCE ProcessStack WITH
  stack <- Stack,
  Depth <- MaxProcesses,
  Program <- Executable,
  FirstProgram <- Shell,
  Fds <- Fd,
  Std <- {0, 1},
  StdHandle <- [kind |-> "terminal", object |-> 0, pos |-> 0],
  Kind <- {"rtc", "dir", "file"},
  Object <- Inodes \cup {0},
  Position <- 0..Cardinality(File) \cup UNION {0..Length[i] : i \in Inodes}

\* The system calls of sys_calls.c, with every address, frame and saved
\* register they handle, behave as a stack of programs with private tables,
\* and a shell is started whenever the stack is empty.
ImplementsProcessStack == Abstract!Spec
=============================================================================
