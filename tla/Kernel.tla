------------------------------- MODULE Kernel -------------------------------
(***************************************************************************)
(* The process and file-descriptor core of the kernel: the ten system      *)
(* calls of sys_calls.c behind the dispatcher of exceptions.S, the         *)
(* exception vectors (which halt the running program), and the loop of     *)
(* kernel.c that starts "shell" again whenever no program is left.         *)
(*                                                                         *)
(* There is no scheduler: execute suspends its caller inside the call and  *)
(* halt resumes it, so the live processes form a stack.  A system call     *)
(* runs with interrupts on, but no interrupt handler touches the state of  *)
(* this module, so a call is one step.                                     *)
(***************************************************************************)
EXTENDS Integers, FiniteSets

CONSTANTS
  MaxProcesses,   \* 6 in sys_execute_c
  NumFd,          \* length of file_array: 8 in pcb.h
  File,           \* the names in the directory of the file system image
  FileType,       \* their file types
  Inode,          \* their inode numbers
  Length,         \* the length field of each inode
  Executable,     \* the names whose header, as read_data delivers it, is ELF
  Shell,          \* the program the boot loop executes
  Absent,         \* a name that is not in the directory
  TextLen,        \* the lengths of names and of lines that reads meet
  ReadSize,       \* the values of nbytes that programs pass
  ExitStatus,     \* the values that programs pass to halt, in EBX
  StackUse        \* the deepest use of one kernel stack, in bytes

RTC_FILE == 0
DIR_FILE == 1
REG_FILE == 2
TERMINAL_TYPE == 3     \* the type bits of TERMINAL_FILE_FLAGS

NULL     == 0
EIGHT_MB == 8388608
FOUR_MB  == 4194304
EIGHT_KB == 8192
PCB_SIZE == 1168       \* sizeof(pcb_t)

ASSUME ProcessAssumption == MaxProcesses \in 1..511
ASSUME FdAssumption == NumFd \in Nat /\ NumFd > 2
ASSUME DirectoryAssumption ==
  /\ IsFiniteSet(File)
  /\ Absent \notin File
  /\ FileType \in [File -> {RTC_FILE, DIR_FILE, REG_FILE}]
  /\ {"none", "boot"} \cap File = {}
  /\ Inode \in [File -> Nat]
  /\ Length \in [{Inode[f] : f \in File} -> Nat]
  /\ Executable \subseteq {f \in File : FileType[f] = REG_FILE}
  /\ Shell \in Executable
ASSUME CallAssumption ==
  /\ TextLen \subseteq Nat
  /\ ReadSize \subseteq Int
  /\ ExitStatus \subseteq Int
ASSUME StackAssumption == StackUse \in Nat /\ StackUse <= EIGHT_KB - PCB_SIZE

VARIABLES
  process_number,   \* the number of live processes
  cur_pcb,          \* the address of the running process's PCB, or NULL
  pcbs,             \* the memory at the addresses where PCBs are placed
  page_base_addr,   \* the frame the program page (PRO_IDX) is mapped to
  esp0,             \* tss.esp0: the kernel stack of the next trap
  image,            \* the program last loaded into each 4MB frame
  saved,            \* per kernel stack: whose call is suspended on it
  running,          \* the program the CPU executes, or "boot"
  trap,             \* the entry point of the last trap
  ret_val           \* the value the last trap left in EAX

vars == <<process_number, cur_pcb, pcbs, page_base_addr, esp0, image, saved,
          running, trap, ret_val>>

Fd == 0..(NumFd - 1)
Inodes == {Inode[f] : f \in File}
Ops == {"none", "rtc", "dir", "file", "terminal"}

(***************************************************************************)
(* Addresses.  PCB n sits at the bottom of the (n+1)-th 8KB block below    *)
(* 8MB; the kernel stack of process n grows down from the bottom of that   *)
(* block.                                                                  *)
(***************************************************************************)
PcbAddr(n) == EIGHT_MB - n * EIGHT_KB - EIGHT_KB
\* 4KB stacks above 8KB blocks.
StackTopHalved(n) == EIGHT_MB - n * (EIGHT_KB \div 2)
StackTop(n) == EIGHT_MB - n * EIGHT_KB
\* EIGHT_MASK that keeps only multiples of 8MB.
PageFrameMasked(n) == 2 * ((EIGHT_MB + n * FOUR_MB) \div EIGHT_MB)
PageFrame(n) == (EIGHT_MB + n * FOUR_MB) \div FOUR_MB

PcbAddrs == {PcbAddr(n) : n \in 0..(MaxProcesses - 1)}
StackTops == {StackTop(n) : n \in 0..MaxProcesses}
Frames == {PageFrame(n) : n \in 0..(MaxProcesses - 1)}

-----------------------------------------------------------------------------
(***************************************************************************)
(* The file array of one process.                                          *)
(***************************************************************************)
Desc == [ops : Ops, inode : Inodes \cup {0}, file_pos : Nat, used : {0, 1}, type : 0..3]

clear_fd == [ops |-> "none", inode |-> 0, file_pos |-> 0, used |-> 0, type |-> 0]
TerminalDesc ==
  [ops |-> "terminal", inode |-> 0, file_pos |-> 0, used |-> 1,
   type |-> TERMINAL_TYPE]

FileArray == [Fd -> Desc]
Pcb == [file_array : FileArray, old_pcb_ptr : PcbAddrs \cup {NULL},
        input : File \cup {"none"}, old_phys_addr : Frames \cup {0},
        old_esp0 : StackTops, old_ebp : StackTops]

OpsFor(t) ==
  CASE t = RTC_FILE -> "rtc"
    [] t = DIR_FILE -> "dir"
    [] t = REG_FILE -> "file"
    [] OTHER -> "terminal"

\* The search for an unused entry in sys_open_c.
FirstFree(a, i) ==
  /\ i \in 2..(NumFd - 1)
  /\ a[i].used = 0
  /\ \A j \in 2..(i - 1) : a[j].used = 1

\* The same search, made once more by rtc_open, dir_open and file_open.
\* A search that starts one entry late.
DriverFreeLate(a, i) ==
  /\ i \in 3..(NumFd - 1)
  /\ a[i].used = 0
  /\ \A j \in 3..(i - 1) : a[j].used = 1

DriverFree(a, i) ==
  /\ i \in 2..(NumFd - 1)
  /\ a[i].used = 0
  /\ \A j \in 2..(i - 1) : a[j].used = 1

\* What the open function of a driver writes into the entry it found;
\* OpenedUntyped forgets the type bits.
OpenedUntyped(d, name) ==
  [ops |-> d.ops, file_pos |-> 0, used |-> 1, type |-> 0,
   inode |-> IF FileType[name] = REG_FILE THEN Inode[name] ELSE 0]
Opened(d, name) ==
  [ops |-> d.ops, file_pos |-> 0, used |-> 1, type |-> FileType[name],
   inode |-> IF FileType[name] = REG_FILE THEN Inode[name] ELSE 0]

\* The guards of rtc_close, dir_close, file_close and terminal_close;
\* CanCloseStdin has terminal_close refuse stdout.
CanCloseStdin(d, fd) ==
  /\ d.used = 1
  /\ \/ d.ops = "terminal" /\ fd < 1
     \/ d.ops \in {"rtc", "dir", "file"} /\ fd > 1 /\ d.ops = OpsFor(d.type)
CanClose(d, fd) ==
  /\ d.used = 1
  /\ \/ d.ops = "terminal" /\ fd <= 1
     \/ d.ops \in {"rtc", "dir", "file"} /\ fd > 1 /\ d.ops = OpsFor(d.type)

Closed(d) ==
  [ops |-> d.ops, inode |-> d.inode, file_pos |-> d.file_pos, used |-> 0, type |-> 0]

-----------------------------------------------------------------------------
(***************************************************************************)
(* Returning from a trap.  DONE leaves the C function's result in EAX.     *)
(* After sys_halt_c the label exec_done is reached on the parent's stack   *)
(* with EAX = FrameByte: sys_halt_c has switched EBP to the frame of the   *)
(* parent's sys_execute_c before it evaluates "0xFF & status", so it reads *)
(* a byte of that frame (the local cs, USER_CS = 35, in the committed      *)
(* build), which is neither 0, -1 nor 256.  EXEC_DONE then returns EBX.    *)
(* For EAX = 0 exec_done would jump back to sys_halt; neither FrameByte    *)
(* nor the -1 of sys_execute_c is 0, so that branch is left out.           *)
(***************************************************************************)
FrameByte == 35

\* ExecDoneEax returns what sys_halt_c computed.
ExecDoneEax(eax, ebx) == eax
ExecDone(eax, ebx) == IF eax \in {-1, 256} THEN eax ELSE ebx

Return(entry, value) == trap' = entry /\ ret_val' = value

fa == pcbs[cur_pcb].file_array

\* Replaces the file array of the running process; SetFileArrayShared has one
\* file array for all.
SetFileArrayShared(newfa) == pcbs' = [pcbs EXCEPT ![PcbAddr(0)].file_array = newfa]
SetFileArray(newfa) == pcbs' = [pcbs EXCEPT ![cur_pcb].file_array = newfa]

process_vars == <<process_number, cur_pcb, page_base_addr, esp0, image, saved,
                  running>>

-----------------------------------------------------------------------------
(***************************************************************************)
(* execute and halt.                                                       *)
(***************************************************************************)

\* The stack that holds the frame of the trap in progress: the boot stack
\* for the loop of kernel.c, else the one tss.esp0 named.
TrapStack == IF running = "boot" THEN EIGHT_MB ELSE esp0

\* The conditions of sys_execute_c.
CanExecute(name) ==
  /\ process_number < MaxProcesses
  /\ name \in File
  /\ FileType[name] = REG_FILE
  /\ name \in Executable

\* The PCB that sys_execute_c fills in; NewPcbLate saves the frame of the
\* caller after the page was remapped.
NewPcbLate(name) ==
  [file_array    |-> [fd \in Fd |-> IF fd \in {0, 1} THEN TerminalDesc
                                                   ELSE clear_fd],
   old_pcb_ptr   |-> cur_pcb,
   input         |-> name,
   old_phys_addr |-> PageFrame(process_number),
   old_esp0      |-> esp0,
   old_ebp       |-> TrapStack]
NewPcb(name) ==
  [file_array    |-> [fd \in Fd |-> IF fd \in {0, 1} THEN TerminalDesc
                                                   ELSE clear_fd],
   old_pcb_ptr   |-> cur_pcb,
   input         |-> name,
   old_phys_addr |-> page_base_addr,
   old_esp0      |-> esp0,
   old_ebp       |-> TrapStack]

\* sys_execute_c up to the iret into the new program.
Execute(name) ==
  /\ CanExecute(name)
  /\ page_base_addr' = PageFrame(process_number)
  /\ image' = [image EXCEPT ![PageFrame(process_number)] = name]
  /\ pcbs' = [pcbs EXCEPT ![PcbAddr(process_number)] = NewPcb(name)]
  /\ cur_pcb' = PcbAddr(process_number)
  /\ process_number' = process_number + 1
  /\ esp0' = StackTop(process_number + 1)
  /\ saved' = [saved EXCEPT ![TrapStack] = running]
  /\ running' = name
  /\ trap' = "execute"
  /\ UNCHANGED ret_val

\* Every early return of sys_execute_c comes before its first write.
ExecuteFails(name) ==
  /\ ~CanExecute(name)
  /\ Return("execute", ExecDone(-1, 0))
  /\ UNCHANGED <<process_vars, pcbs>>

CloseAll(a) ==
  [fd \in Fd |-> IF CanClose(a[fd], fd) THEN Closed(a[fd]) ELSE a[fd]]

\* What sys_halt_c restores from the PCB p; RestoreUnmapped leaves the program
\* page alone.
RestoreUnmapped(p) ==
  /\ esp0' = p.old_esp0
  /\ running' = saved[p.old_ebp]
  /\ cur_pcb' = p.old_pcb_ptr
  /\ UNCHANGED page_base_addr
Restore(p) ==
  /\ esp0' = p.old_esp0
  /\ page_base_addr' = p.old_phys_addr
  /\ running' = saved[p.old_ebp]
  /\ cur_pcb' = p.old_pcb_ptr

\* sys_halt_c and the return through the parent's frame; entry tells the
\* halt call from an exception vector.  HaltLeak forgets to count down.
HaltLeak(entry, ebx) ==
  /\ process_number > 0
  /\ SetFileArray(CloseAll(fa))
  /\ Restore(pcbs[cur_pcb])
  /\ Return(entry, ExecDone(FrameByte, ebx))
  /\ UNCHANGED <<process_number, image, saved>>
HaltWith(entry, ebx) ==
  /\ process_number > 0
  /\ process_number' = process_number - 1
  /\ SetFileArray(CloseAll(fa))
  /\ Restore(pcbs[cur_pcb])
  /\ Return(entry, ExecDone(FrameByte, ebx))
  /\ UNCHANGED <<image, saved>>

Halt(status) == HaltWith("halt", status)

\* Every exception vector loads 256 into EBX and jumps to sys_halt.
Exception == HaltWith("exception", 256)

-----------------------------------------------------------------------------
(***************************************************************************)
(* open and close.                                                         *)
(***************************************************************************)
Open(name) ==
  /\ name \in File
  /\ \E i \in Fd :
       /\ FirstFree(fa, i)
       /\ LET withOps == [fa EXCEPT ![i].ops = OpsFor(FileType[name])]
          IN \E j \in Fd :
               /\ DriverFree(withOps, j)
               /\ SetFileArray([withOps EXCEPT ![j] = Opened(@, name)])
       /\ Return("open", i)
  /\ UNCHANGED process_vars

OpenFails(name) ==
  /\ name \notin File \/ \A i \in Fd : ~FirstFree(fa, i)
  /\ Return("open", -1)
  /\ UNCHANGED <<process_vars, pcbs>>

Close(fd) ==
  /\ fd \in 2..(NumFd - 1)
  /\ CanClose(fa[fd], fd)
  /\ SetFileArray([fa EXCEPT ![fd] = Closed(@)])
  /\ Return("close", 0)
  /\ UNCHANGED process_vars

CloseFails(fd) ==
  /\ ~(fd \in 2..(NumFd - 1) /\ CanClose(fa[fd], fd))
  /\ Return("close", -1)
  /\ UNCHANGED <<process_vars, pcbs>>

-----------------------------------------------------------------------------
(***************************************************************************)
(* read and write.  A negative nbytes stands for any argument that the     *)
(* first checks of sys_read_c and sys_write_c refuse.                      *)
(***************************************************************************)
Usable(fd, nbytes) == fd \in Fd /\ nbytes >= 0 /\ fa[fd].used = 1

\* The guards of file_read, dir_read, rtc_read and terminal_read.
DriverReads(d, fd) ==
  CASE d.ops = "file" -> d.type = REG_FILE
    [] d.ops = "dir" -> fd > 1 /\ d.type % 2 = 1
    [] d.ops = "rtc" -> TRUE
    [] OTHER -> fd = 0

LeastOf(m, n) == IF m <= n THEN m ELSE n

\* file_read, with read_data reduced to what it returns.
FileRead(fd, nbytes) ==
  LET d == fa[fd]
      cnt == IF d.file_pos >= Length[d.inode] THEN 0
             ELSE LeastOf(nbytes, Length[d.inode] - d.file_pos)
  IN /\ Usable(fd, nbytes)
     /\ d.ops = "file" /\ DriverReads(d, fd)
     /\ SetFileArray([fa EXCEPT ![fd].file_pos = @ + cnt])
     /\ Return("read", cnt)
     /\ UNCHANGED process_vars

\* dir_read: one name per call, and the position moves even when the name
\* is cut short.
DirRead(fd, nbytes) ==
  /\ Usable(fd, nbytes)
  /\ fa[fd].ops = "dir" /\ DriverReads(fa[fd], fd)
  /\ \/ /\ fa[fd].file_pos >= Cardinality(File)
        /\ Return("read", 0)
        /\ UNCHANGED pcbs
     \/ /\ fa[fd].file_pos < Cardinality(File)
        /\ \E len \in TextLen : Return("read", LeastOf(nbytes, len))
        /\ SetFileArray([fa EXCEPT ![fd].file_pos = @ + 1])
  /\ UNCHANGED process_vars

\* rtc_read returns 0 at the next tick; terminal_read returns the length of
\* the line, whatever nbytes is.
DeviceRead(fd, nbytes, line) ==
  /\ Usable(fd, nbytes)
  /\ \/ fa[fd].ops = "rtc" /\ Return("read", 0)
     \/ fa[fd].ops = "terminal" /\ DriverReads(fa[fd], fd) /\ Return("read", line)
  /\ UNCHANGED <<process_vars, pcbs>>

ReadFails(fd, nbytes) ==
  /\ ~(Usable(fd, nbytes) /\ DriverReads(fa[fd], fd))
  /\ Return("read", -1)
  /\ UNCHANGED <<process_vars, pcbs>>

\* terminal_write prints nbytes characters; rtc_write accepts some rates;
\* file_write and dir_write refuse everything.
DriverWrites(d, fd) == d.ops = "rtc" \/ (d.ops = "terminal" /\ fd = 1)

Write(fd, nbytes) ==
  /\ Usable(fd, nbytes) /\ DriverWrites(fa[fd], fd)
  /\ IF fa[fd].ops = "terminal"
       THEN Return("write", nbytes)
       ELSE \E accepted \in {0, -1} : Return("write", accepted)
  /\ UNCHANGED <<process_vars, pcbs>>

WriteFails(fd, nbytes) ==
  /\ ~(Usable(fd, nbytes) /\ DriverWrites(fa[fd], fd))
  /\ Return("write", -1)
  /\ UNCHANGED <<process_vars, pcbs>>

\* getargs, vidmap, set_handler (whose entry calls sys_getargs_c), sigreturn
\* and an invalid call number write only to the caller's memory.
OtherCall ==
  /\ \E r \in {-1, 0} : Return("other", r)
  /\ UNCHANGED <<process_vars, pcbs>>

-----------------------------------------------------------------------------
BlankPcb ==
  [file_array |-> [fd \in Fd |-> clear_fd], old_pcb_ptr |-> NULL,
   input |-> "none", old_phys_addr |-> 0, old_esp0 |-> EIGHT_MB,
   old_ebp |-> EIGHT_MB]

\* The state in which the loop of kernel.c is entered.
Init ==
  /\ process_number = 0
  /\ cur_pcb = NULL
  /\ pcbs = [a \in PcbAddrs |-> BlankPcb]
  /\ page_base_addr = 0
  /\ esp0 = EIGHT_MB
  /\ image = [p \in Frames |-> "none"]
  /\ saved = [t \in StackTops |-> "boot"]
  /\ running = "boot"
  /\ trap = "none"
  /\ ret_val = 0

\* while (1) execute("shell") in entry(); an execute that fails is retried.
Boot ==
  /\ running = "boot"
  /\ IF CanExecute(Shell) THEN Execute(Shell) ELSE ExecuteFails(Shell)

\* A program makes any call with any argument, or raises an exception.
FdArg == -1..NumFd

ProcessCall ==
  \/ \E name \in File \cup {Absent} : Execute(name) \/ ExecuteFails(name)
  \/ \E status \in ExitStatus : Halt(status)
  \/ Exception

FileCall ==
  \/ \E name \in File \cup {Absent} : Open(name) \/ OpenFails(name)
  \/ \E fd \in FdArg : Close(fd) \/ CloseFails(fd)
  \/ \E fd \in FdArg, n \in ReadSize :
       \/ FileRead(fd, n)
       \/ DirRead(fd, n)
       \/ \E line \in TextLen : DeviceRead(fd, n, line)
       \/ ReadFails(fd, n)
       \/ Write(fd, n)
       \/ WriteFails(fd, n)
  \/ OtherCall

UserCall == running # "boot" /\ (ProcessCall \/ FileCall)

Next == Boot \/ UserCall

Spec == Init /\ [][Next]_vars

\* The boot loop is the only thing that can run while no program does.
FairSpec == Spec /\ WF_vars(Boot)

-----------------------------------------------------------------------------
(***************************************************************************)
(* Properties.                                                             *)
(***************************************************************************)

\* Every variable keeps the range the code's declarations and address
\* computations give it.
TypeOK ==
  /\ process_number \in 0..MaxProcesses
  /\ cur_pcb \in PcbAddrs \cup {NULL}
  /\ pcbs \in [PcbAddrs -> Pcb]
  /\ page_base_addr \in Frames \cup {0}
  /\ esp0 \in StackTops
  /\ image \in [Frames -> File \cup {"none"}]
  /\ saved \in [StackTops -> File \cup {"boot"}]
  /\ running \in File \cup {"boot"}
  /\ trap \in {"none", "execute", "halt", "exception", "open", "close", "read",
               "write", "other"}
  /\ ret_val \in Int

Live == 0..(process_number - 1)

\* The PCB, the frame and the stack that belong to the process at depth n,
\* where depth 0 is the boot loop.
PcbAt(n) == IF n = 0 THEN NULL ELSE PcbAddr(n - 1)
FrameAt(n) == IF n = 0 THEN 0 ELSE PageFrame(n - 1)

\* cur_pcb, the program page and tss.esp0 always belong to the innermost
\* process, and each PCB has saved the ones of the process that executed it
\* (sys_execute_c saves, sys_halt_c restores).
ProcessChain ==
  /\ cur_pcb = PcbAt(process_number)
  /\ page_base_addr = FrameAt(process_number)
  /\ esp0 = StackTop(process_number)
  /\ \A n \in Live :
       /\ pcbs[PcbAddr(n)].old_pcb_ptr = PcbAt(n)
       /\ pcbs[PcbAddr(n)].old_phys_addr = FrameAt(n)
       /\ pcbs[PcbAddr(n)].old_esp0 = StackTop(n)
       /\ pcbs[PcbAddr(n)].old_ebp = StackTop(n)

\* Whatever the calls so far, the registers that were resumed, the PCB that
\* the next call will use and the memory behind the program page belong to
\* the same program, and no program runs that process_number does not count:
\* the three things sys_halt_c restores separately never part.
Coherent ==
  /\ running = "boot" <=> process_number = 0
  /\ process_number > 0 =>
       /\ pcbs[cur_pcb].input = running
       /\ image[page_base_addr] = running

\* The frame, the PCB and the suspended call of every process that waits in
\* sys_execute_c are intact while its descendants run.
SuspendedIntact ==
  /\ process_number > 0 => saved[StackTop(0)] = "boot"
  /\ \A n \in Live :
       /\ image[PageFrame(n)] = pcbs[PcbAddr(n)].input
       /\ n + 1 < process_number =>
            saved[StackTop(n + 1)] = pcbs[PcbAddr(n)].input

ArrayAgrees(a) ==
  \A fd \in Fd :
    /\ fd \in {0, 1} => a[fd] = TerminalDesc
    /\ fd \notin {0, 1} /\ a[fd].used = 1 =>
         /\ a[fd].type # TERMINAL_TYPE
         /\ a[fd].ops = OpsFor(a[fd].type)
         /\ a[fd].type = REG_FILE => a[fd].inode \in Inodes

\* For every live process the jump table of a descriptor in use is the one of
\* its type bits, stdin and stdout are in use, and only they are terminals:
\* the driver that sys_close_c or sys_halt_c calls never refuses.
DescriptorsAgree == \A n \in Live : ArrayAgrees(pcbs[PcbAddr(n)].file_array)

\* No kernel stack in use reaches into a live PCB, nor into another stack:
\* neither the one tss.esp0 names nor one that holds a suspended call.
Stacks == {esp0} \cup {pcbs[PcbAddr(n)].old_esp0 : n \in Live}
StacksClearOfPcbs ==
  \A top \in Stacks :
    /\ \A n \in Live : \/ top <= PcbAddr(n)
                       \/ PcbAddr(n) + PCB_SIZE <= top - StackUse
    /\ \A other \in Stacks : top < other => top <= other - StackUse

\* The descriptor that open has just returned is in use, of the file's type
\* and at position 0: the driver's own search found the entry sys_open_c
\* chose ("should correspond to same one found in sys_open", filesys.c:386).
OpenedIsReady ==
  trap = "open" /\ ret_val >= 0 =>
    LET d == fa[ret_val]
    IN /\ d.used = 1 /\ d.file_pos = 0 /\ d.ops = OpsFor(d.type)
       /\ \A fd \in Fd : fd < ret_val => fa[fd].used = 1

\* A process that halts, by the call or by an exception, leaves no
\* descriptor of its file array open.
HaltClosesAll ==
  [][process_number' < process_number =>
       \A fd \in Fd : pcbs'[cur_pcb].file_array[fd].used = 0]_vars

\* No step changes the PCB of a process that is suspended in execute.
SuspendedUntouched ==
  [][\A n \in 0..(process_number - 2) :
       pcbs'[PcbAddr(n)] = pcbs[PcbAddr(n)]]_vars

\* Whenever the last program halts, the loop of kernel.c gets a shell
\* running again: no sequence of calls uses up the process slots.
ShellComesBack == (running = "boot") ~> (running # "boot")

\* What the shell tells its user about the value of execute: 256 means
\* "program terminated by exception" and -1 "no such command"
\* (ece391shell.c:28-31), so no halt call of a command may produce them.
ShellReadsStatus ==
  trap = "halt" /\ running = Shell => ret_val \notin {-1, 256}
=============================================================================
