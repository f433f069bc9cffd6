---------------------------- MODULE KernelProofs ----------------------------
(***************************************************************************)
(* Proofs about Kernel for every number of processes, descriptors and      *)
(* files; the last part is that every step of Kernel is a step of          *)
(* ProcessStack or leaves the stack as it is.                              *)
(***************************************************************************)
EXTENDS Kernel, KernelRefinement, SequenceTheorems, FiniteSetTheorems, TLAPS

-----------------------------------------------------------------------------
(* The addresses sys_execute_c computes. *)

\* PCBs of different processes are at different addresses, none of them NULL.
LEMMA PcbAddrsDiffer ==
  \A m, n \in 0..(MaxProcesses - 1) :
    /\ PcbAddr(n) \in PcbAddrs
    /\ PcbAddr(n) # NULL
    /\ PcbAddr(m) = PcbAddr(n) => m = n
BY ProcessAssumption DEF PcbAddr, PcbAddrs, EIGHT_MB, EIGHT_KB, NULL

\* Kernel stacks of different processes have different tops.
LEMMA StackTopsDiffer ==
  \A m, n \in 0..MaxProcesses :
    /\ StackTop(n) \in StackTops
    /\ StackTop(m) = StackTop(n) => m = n
BY ProcessAssumption DEF StackTop, StackTops, EIGHT_MB, EIGHT_KB

\* The mask and shift of sys_execute_c give consecutive frames from 8MB on.
LEMMA PageFrameValue == \A n \in Nat : PageFrame(n) = n + 2
BY DEF PageFrame, EIGHT_MB, FOUR_MB

\* Programs of different processes are loaded into different frames.
LEMMA FramesDiffer ==
  \A m, n \in 0..(MaxProcesses - 1) :
    /\ PageFrame(n) \in Frames
    /\ PageFrame(n) # 0
    /\ PageFrame(m) = PageFrame(n) => m = n
BY ProcessAssumption, PageFrameValue DEF Frames

-----------------------------------------------------------------------------
(* The file array. *)

\* The array of a program that has just been executed is well formed.
LEMMA NewArrayAgrees ==
  LET new == [fd \in Fd |-> IF fd \in {0, 1} THEN TerminalDesc ELSE clear_fd]
  IN new \in FileArray /\ ArrayAgrees(new)
BY DEF FileArray, Desc, Ops, ArrayAgrees, TerminalDesc, clear_fd, TERMINAL_TYPE

\* sys_open_c and the open function of the driver choose the same entry.
LEMMA SameFree ==
  ASSUME NEW a \in FileArray, NEW i \in Fd, NEW j \in Fd, NEW o \in Ops,
         FirstFree(a, i), DriverFree([a EXCEPT ![i].ops = o], j)
  PROVE  i = j
<1> DEFINE b == [a EXCEPT ![i].ops = o]
<1>1. \A f \in Fd : b[f].used = a[f].used
  BY DEF FileArray, Desc
<1>2. i \in Int /\ j \in Int /\ Fd \subseteq Int
  BY FdAssumption DEF Fd
<1>3. 2..(i - 1) \subseteq Fd /\ 2..(j - 1) \subseteq Fd
  BY FdAssumption DEF Fd
<1>4. ~(i < j)
  BY <1>1, <1>2, <1>3 DEF FirstFree, DriverFree
<1>5. ~(j < i)
  BY <1>1, <1>2, <1>3 DEF FirstFree, DriverFree
<1> QED
  BY <1>2, <1>4, <1>5

\* Opening a file in a free entry keeps the array well formed.
LEMMA OpenKeepsArray ==
  ASSUME NEW a \in FileArray, ArrayAgrees(a), NEW i \in Fd, FirstFree(a, i),
         NEW name \in File
  PROVE  LET o == OpsFor(FileType[name])
             b == [a EXCEPT ![i].ops = o]
             c == [b EXCEPT ![i] = Opened(@, name)]
         IN o \in Ops /\ c \in FileArray /\ ArrayAgrees(c)
<1> DEFINE o == OpsFor(FileType[name])
           b == [a EXCEPT ![i].ops = o]
           c == [b EXCEPT ![i] = Opened(@, name)]
<1>1. FileType[name] \in {0, 1, 2}
  BY DirectoryAssumption DEF RTC_FILE, DIR_FILE, REG_FILE
<1>2. o \in {"rtc", "dir", "file"}
  BY <1>1 DEF OpsFor, RTC_FILE, DIR_FILE, REG_FILE
<1>3. i \notin {0, 1}
  BY FdAssumption DEF FirstFree
<1>4. b[i] \in Desc /\ b[i].ops = o
  BY <1>2 DEF FileArray, Desc, Ops
<1>5. Inode[name] \in Inodes
  BY DirectoryAssumption DEF Inodes
<1>6. /\ Opened(b[i], name) \in Desc
      /\ Opened(b[i], name).ops = o
      /\ Opened(b[i], name).type = FileType[name]
      /\ FileType[name] = REG_FILE => Opened(b[i], name).inode \in Inodes
  <2> DEFINE ino == IF FileType[name] = REG_FILE THEN Inode[name] ELSE 0
  <2>1. FileType[name] \in 0..3 /\ ino \in Inodes \cup {0} /\ b[i].ops \in Ops
    BY <1>1, <1>2, <1>4, <1>5 DEF Ops
  <2> QED
    BY <2>1, <1>4, <1>5 DEF Opened, Desc
<1>7. c = [a EXCEPT ![i] = Opened(b[i], name)]
  BY DEF FileArray
<1>8. c \in FileArray
  BY <1>6, <1>7 DEF FileArray
<1>9. ArrayAgrees(c)
  BY <1>1, <1>3, <1>6, <1>7 DEF ArrayAgrees, FileArray, TERMINAL_TYPE
<1> QED
  BY <1>2, <1>8, <1>9 DEF Ops

\* So does closing an entry other than stdin and stdout.
LEMMA CloseKeepsArray ==
  ASSUME NEW a \in FileArray, ArrayAgrees(a), NEW i \in Fd, i \notin {0, 1}
  PROVE  /\ [a EXCEPT ![i] = Closed(@)] \in FileArray
         /\ ArrayAgrees([a EXCEPT ![i] = Closed(@)])
<1>1. a[i] \in Desc
  BY DEF FileArray
<1>2. Closed(a[i]) \in Desc /\ Closed(a[i]).used = 0
  BY <1>1 DEF Closed, Desc
<1> QED
  BY <1>2 DEF FileArray, ArrayAgrees

\* And so does moving the position of an entry other than stdin and stdout.
LEMMA SeekKeepsArray ==
  ASSUME NEW a \in FileArray, ArrayAgrees(a), NEW i \in Fd, i \notin {0, 1},
         NEW cnt \in Nat
  PROVE  /\ [a EXCEPT ![i].file_pos = @ + cnt] \in FileArray
         /\ ArrayAgrees([a EXCEPT ![i].file_pos = @ + cnt])
<1> DEFINE d == [a[i] EXCEPT !.file_pos = @ + cnt]
<1>1. d \in Desc /\ d.used = a[i].used /\ d.type = a[i].type
      /\ d.ops = a[i].ops /\ d.inode = a[i].inode
  BY DEF FileArray, Desc
<1>2. [a EXCEPT ![i].file_pos = @ + cnt] = [a EXCEPT ![i] = d]
  BY DEF FileArray
<1> QED
  BY <1>1, <1>2 DEF FileArray, ArrayAgrees

-----------------------------------------------------------------------------
(***************************************************************************)
(* The inductive invariant.  No conjunct is inductive alone: halt restores *)
(* from the PCB that cur_pcb names, so the types after it rest on          *)
(* ProcessChain; ProcessChain and Coherent after it rest on what           *)
(* SuspendedIntact says of the parent; and the file calls rest on          *)
(* Coherent to know that a program that runs has a PCB.                    *)
(***************************************************************************)
IInv == TypeOK /\ ProcessChain /\ Coherent /\ SuspendedIntact /\ DescriptorsAgree

Traps == {"none", "execute", "halt", "exception", "open", "close", "read",
          "write", "other"}

LEMMA Membership ==
  /\ \A n \in 0..(MaxProcesses - 1) : PcbAddr(n) \in PcbAddrs /\ PageFrame(n) \in Frames
  /\ \A n \in 0..MaxProcesses : StackTop(n) \in StackTops
  /\ StackTop(0) = EIGHT_MB
  /\ MaxProcesses \in Nat /\ MaxProcesses > 0
BY ProcessAssumption, SMTT(30) DEF PcbAddrs, Frames, StackTops, StackTop, EIGHT_MB, EIGHT_KB

\* A program that runs has a PCB with a well-formed file array.
LEMMA RunningHasPcb ==
  ASSUME IInv, running # "boot"
  PROVE  /\ process_number \in 1..MaxProcesses
         /\ cur_pcb = PcbAddr(process_number - 1)
         /\ cur_pcb \in PcbAddrs
         /\ pcbs[cur_pcb] \in Pcb
         /\ fa \in FileArray
         /\ ArrayAgrees(fa)
<1>1. process_number \in 1..MaxProcesses
  BY Membership DEF IInv, TypeOK, Coherent
<1>2. cur_pcb = PcbAddr(process_number - 1)
  BY <1>1 DEF IInv, ProcessChain, PcbAt
<1>3. cur_pcb \in PcbAddrs
  BY <1>1, <1>2, Membership
<1>4. pcbs[cur_pcb] \in Pcb /\ fa \in FileArray
  BY <1>3 DEF IInv, TypeOK, Pcb, fa
<1>5. ArrayAgrees(fa)
  BY <1>1, <1>2 DEF IInv, DescriptorsAgree, Live, fa
<1> QED
  BY <1>1, <1>2, <1>3, <1>4, <1>5

\* A call that changes no kernel state but its result keeps the invariant.
LEMMA ReturnStep ==
  ASSUME IInv, UNCHANGED <<process_vars, pcbs>>, trap' \in Traps, ret_val' \in Int
  PROVE  IInv'
<1>1. TypeOK'
  BY DEF IInv, TypeOK, process_vars, Traps
<1>2. ProcessChain'
  BY DEF IInv, ProcessChain, process_vars, Live, PcbAt, FrameAt
<1>3. Coherent'
  BY DEF IInv, Coherent, process_vars
<1>4. SuspendedIntact'
  BY DEF IInv, SuspendedIntact, process_vars, Live
<1>5. DescriptorsAgree'
  BY DEF IInv, DescriptorsAgree, process_vars, Live, ArrayAgrees
<1> QED
  BY <1>1, <1>2, <1>3, <1>4, <1>5 DEF IInv

\* A call that replaces the file array of the running process keeps it too.
LEMMA TableStep ==
  ASSUME IInv, running # "boot", NEW x \in FileArray, ArrayAgrees(x),
         SetFileArray(x), UNCHANGED process_vars, trap' \in Traps, ret_val' \in Int
  PROVE  IInv'
<1>1. /\ process_number \in 1..MaxProcesses
      /\ cur_pcb = PcbAddr(process_number - 1)
      /\ cur_pcb \in PcbAddrs
      /\ pcbs[cur_pcb] \in Pcb
  BY RunningHasPcb
<1>2. pcbs \in [PcbAddrs -> Pcb]
  BY DEF IInv, TypeOK
<1> DEFINE p == [pcbs[cur_pcb] EXCEPT !.file_array = x]
<1>3. /\ p \in Pcb /\ p.file_array = x
      /\ p.old_pcb_ptr = pcbs[cur_pcb].old_pcb_ptr
      /\ p.input = pcbs[cur_pcb].input
      /\ p.old_phys_addr = pcbs[cur_pcb].old_phys_addr
      /\ p.old_esp0 = pcbs[cur_pcb].old_esp0
      /\ p.old_ebp = pcbs[cur_pcb].old_ebp
  BY <1>1 DEF Pcb
<1>4. pcbs' = [pcbs EXCEPT ![cur_pcb] = p]
  BY DEF SetFileArray
<1> HIDE DEF p
<1>5. /\ pcbs' \in [PcbAddrs -> Pcb]
      /\ \A a \in PcbAddrs :
           /\ pcbs'[a].old_pcb_ptr = pcbs[a].old_pcb_ptr
           /\ pcbs'[a].input = pcbs[a].input
           /\ pcbs'[a].old_phys_addr = pcbs[a].old_phys_addr
           /\ pcbs'[a].old_esp0 = pcbs[a].old_esp0
           /\ pcbs'[a].old_ebp = pcbs[a].old_ebp
           /\ pcbs'[a].file_array = IF a = cur_pcb THEN x ELSE pcbs[a].file_array
  BY <1>1, <1>2, <1>3, <1>4
<1>6. \A n \in Live : PcbAddr(n) \in PcbAddrs
  BY <1>1, Membership DEF Live
<1>7. UNCHANGED <<process_number, cur_pcb, page_base_addr, esp0, image, saved, running>>
  BY DEF process_vars
<1>8. Live' = Live
  BY <1>7 DEF Live
<1>9. TypeOK'
  BY <1>5, <1>7 DEF IInv, TypeOK, Traps
<1>10. ProcessChain'
  BY <1>5, <1>6, <1>7, <1>8 DEF IInv, ProcessChain, PcbAt, FrameAt
<1>11. Coherent'
  BY <1>1, <1>5, <1>7 DEF IInv, Coherent
<1>12. SuspendedIntact'
  BY <1>5, <1>6, <1>7, <1>8 DEF IInv, SuspendedIntact
<1>13. DescriptorsAgree'
  <2> SUFFICES ASSUME NEW n \in Live
               PROVE  ArrayAgrees(pcbs'[PcbAddr(n)].file_array)
    BY <1>8 DEF DescriptorsAgree, ArrayAgrees
  <2> QED
    BY <1>5, <1>6 DEF IInv, DescriptorsAgree
<1> QED
  BY <1>9, <1>10, <1>11, <1>12, <1>13 DEF IInv

-----------------------------------------------------------------------------
(* Each action keeps the invariant. *)

\* execute pushes a process whose PCB remembers the state it will restore.
LEMMA ExecuteStep ==
  ASSUME IInv, NEW name \in File, Execute(name)
  PROVE  IInv'
<1> DEFINE n == process_number
           new == NewPcb(name)
<1>1. n \in 0..(MaxProcesses - 1) /\ name \in File
  BY Membership DEF IInv, TypeOK, Execute, CanExecute
<1>2. /\ TypeOK /\ ProcessChain /\ Coherent /\ SuspendedIntact /\ DescriptorsAgree
      /\ pcbs \in [PcbAddrs -> Pcb]
      /\ image \in [Frames -> File \cup {"none"}]
      /\ saved \in [StackTops -> File \cup {"boot"}]
  BY DEF IInv, TypeOK
<1>3. TrapStack = StackTop(n) /\ esp0 = StackTop(n) /\ StackTop(n) \in StackTops
  BY <1>1, <1>2, Membership DEF TrapStack, ProcessChain, Coherent
<1>4. /\ new \in Pcb
      /\ new.old_pcb_ptr = PcbAt(n) /\ new.old_phys_addr = FrameAt(n)
      /\ new.old_esp0 = StackTop(n) /\ new.old_ebp = StackTop(n)
      /\ new.input = name /\ ArrayAgrees(new.file_array)
  BY <1>1, <1>2, <1>3, NewArrayAgrees DEF NewPcb, Pcb, TypeOK, ProcessChain
<1> HIDE DEF new
<1>5. /\ pcbs' = [pcbs EXCEPT ![PcbAddr(n)] = new]
      /\ image' = [image EXCEPT ![PageFrame(n)] = name]
      /\ saved' = [saved EXCEPT ![StackTop(n)] = running]
      /\ page_base_addr' = PageFrame(n) /\ cur_pcb' = PcbAddr(n)
      /\ process_number' = n + 1 /\ esp0' = StackTop(n + 1)
      /\ running' = name /\ trap' = "execute" /\ ret_val' = ret_val
  BY <1>3 DEF Execute, new
<1>6. Live = 0..(n - 1) /\ Live' = 0..n
  BY <1>1, <1>5 DEF Live
<1>7. \A m \in 0..(n - 1) :
        /\ PcbAddr(m) \in PcbAddrs /\ PageFrame(m) \in Frames
        /\ PcbAddr(m) # PcbAddr(n) /\ PageFrame(m) # PageFrame(n)
        /\ StackTop(m) \in StackTops /\ StackTop(m) # StackTop(n)
  BY <1>1, Membership, PcbAddrsDiffer, FramesDiffer, StackTopsDiffer
<1>8. PcbAddr(n) \in PcbAddrs /\ PageFrame(n) \in Frames /\ StackTop(n + 1) \in StackTops
  BY <1>1, Membership
<1>9. /\ \A m \in 0..(n - 1) : pcbs'[PcbAddr(m)] = pcbs[PcbAddr(m)]
      /\ pcbs'[PcbAddr(n)] = new
  BY <1>2, <1>5, <1>7, <1>8
<1>10. /\ \A m \in 0..(n - 1) : image'[PageFrame(m)] = image[PageFrame(m)]
       /\ image'[PageFrame(n)] = name
  BY <1>2, <1>5, <1>7, <1>8
<1>11. /\ \A m \in 0..(n - 1) : saved'[StackTop(m)] = saved[StackTop(m)]
       /\ saved'[StackTop(n)] = running
  BY <1>2, <1>3, <1>5, <1>7
<1>12. TypeOK'
  <2>1. process_number' \in 0..MaxProcesses /\ cur_pcb' \in PcbAddrs
    BY <1>1, <1>5, <1>8, Membership
  <2>2. /\ pcbs' \in [PcbAddrs -> Pcb]
        /\ image' \in [Frames -> File \cup {"none"}]
        /\ saved' \in [StackTops -> File \cup {"boot"}]
    BY <1>1, <1>2, <1>4, <1>5 DEF TypeOK
  <2> QED
    BY <2>1, <2>2, <1>1, <1>2, <1>5, <1>8 DEF TypeOK
<1>13. ProcessChain'
  <2>1. /\ cur_pcb' = PcbAt(n + 1) /\ page_base_addr' = FrameAt(n + 1)
        /\ esp0' = StackTop(n + 1)
    BY <1>1, <1>5 DEF PcbAt, FrameAt
  <2> QED
    BY <2>1, <1>1, <1>2, <1>4, <1>5, <1>6, <1>9, SMTT(30) DEF ProcessChain, PcbAt, FrameAt
<1>14. Coherent'
  BY <1>1, <1>4, <1>5, <1>9, <1>10, DirectoryAssumption DEF Coherent
<1>15. SuspendedIntact'
  <2>1. saved'[StackTop(0)] = "boot"
    BY <1>1, <1>2, <1>11 DEF SuspendedIntact, Coherent
  <2>2. ASSUME NEW m \in 0..n
        PROVE  image'[PageFrame(m)] = pcbs'[PcbAddr(m)].input
    BY <1>1, <1>2, <1>4, <1>6, <1>9, <1>10 DEF SuspendedIntact
  <2>3. ASSUME NEW m \in 0..n, m + 1 < n + 1
        PROVE  saved'[StackTop(m + 1)] = pcbs'[PcbAddr(m)].input
    <3>1. CASE m + 1 = n
      <4>1. pcbs[PcbAddr(m)].input = running
        BY <1>1, <1>2, <3>1 DEF Coherent, ProcessChain, PcbAt
      <4> QED
        BY <4>1, <3>1, <1>1, <1>9, <1>11
    <3>2. CASE m + 1 < n
      <4>1. m \in Live /\ m + 1 \in 0..(n - 1) /\ m \in 0..(n - 1)
        BY <1>1, <1>6, <3>2
      <4>2. saved[StackTop(m + 1)] = pcbs[PcbAddr(m)].input
        BY <4>1, <3>2, <1>2 DEF SuspendedIntact
      <4> QED
        BY <4>1, <4>2, <1>9, <1>11
    <3> QED
      BY <3>1, <3>2, <2>3, <1>1
  <2> QED
    BY <2>1, <2>2, <2>3, <1>5, <1>6 DEF SuspendedIntact
<1>16. DescriptorsAgree'
  <2> SUFFICES ASSUME NEW m \in 0..n
               PROVE  ArrayAgrees(pcbs'[PcbAddr(m)].file_array)
    BY <1>6 DEF DescriptorsAgree, ArrayAgrees
  <2> QED
    BY <1>1, <1>2, <1>4, <1>6, <1>9 DEF DescriptorsAgree
<1> QED
  BY <1>12, <1>13, <1>14, <1>15, <1>16 DEF IInv

\* Closing what can be closed keeps an array in range.
LEMMA CloseAllType ==
  ASSUME NEW a \in FileArray
  PROVE  CloseAll(a) \in FileArray
<1>1. ASSUME NEW fd \in Fd
      PROVE  a[fd] \in Desc /\ Closed(a[fd]) \in Desc
  BY DEF FileArray, Closed, Desc
<1> QED
  BY <1>1 DEF CloseAll, FileArray

\* halt pops the innermost process and restores what its PCB remembers.
LEMMA HaltStep ==
  ASSUME IInv, running # "boot", NEW entry \in Traps, NEW ebx \in Int,
         HaltWith(entry, ebx)
  PROVE  IInv'
<1> DEFINE k == process_number - 1
           p == pcbs[cur_pcb]
           q == [p EXCEPT !.file_array = CloseAll(fa)]
<1>1. /\ k \in 0..(MaxProcesses - 1) /\ process_number = k + 1
      /\ cur_pcb = PcbAddr(k) /\ cur_pcb \in PcbAddrs /\ p \in Pcb /\ fa \in FileArray
  BY RunningHasPcb, Membership
<1>2. /\ TypeOK /\ ProcessChain /\ Coherent /\ SuspendedIntact /\ DescriptorsAgree
      /\ pcbs \in [PcbAddrs -> Pcb]
      /\ image \in [Frames -> File \cup {"none"}]
      /\ saved \in [StackTops -> File \cup {"boot"}]
  BY DEF IInv, TypeOK
<1>3. Live = 0..k
  BY <1>1 DEF Live
<1>4. /\ p.old_pcb_ptr = PcbAt(k) /\ p.old_phys_addr = FrameAt(k)
      /\ p.old_esp0 = StackTop(k) /\ p.old_ebp = StackTop(k)
  BY <1>1, <1>2, <1>3 DEF ProcessChain
<1>5. q \in Pcb
  BY <1>1, CloseAllType DEF Pcb
<1>6. pcbs' = [pcbs EXCEPT ![cur_pcb] = q]
  BY DEF HaltWith, SetFileArray
<1> HIDE DEF q
<1>7. pcbs' \in [PcbAddrs -> Pcb]
  BY <1>2, <1>5, <1>6
<1>8. \A m \in 0..(k - 1) : PcbAddr(m) \in PcbAddrs /\ PcbAddr(m) # cur_pcb
  BY <1>1, Membership, PcbAddrsDiffer
<1>9. \A m \in 0..(k - 1) : pcbs'[PcbAddr(m)] = pcbs[PcbAddr(m)]
  BY <1>2, <1>6, <1>8
<1>10. /\ process_number' = k /\ esp0' = StackTop(k) /\ page_base_addr' = FrameAt(k)
       /\ running' = saved[StackTop(k)] /\ cur_pcb' = PcbAt(k)
       /\ image' = image /\ saved' = saved
       /\ trap' = entry /\ ret_val' = ExecDone(FrameByte, ebx)
  BY <1>1, <1>4 DEF HaltWith, Restore, Return
<1>11. Live' = 0..(k - 1)
  BY <1>10 DEF Live
<1>12. StackTop(k) \in StackTops
  BY <1>1, Membership
<1>13. TypeOK'
  <2>1. PcbAt(k) \in PcbAddrs \cup {NULL} /\ FrameAt(k) \in Frames \cup {0}
    BY <1>1, Membership DEF PcbAt, FrameAt
  <2>2. ret_val' \in Int
    BY <1>10 DEF ExecDone, FrameByte
  <2>3. process_number' \in 0..MaxProcesses /\ esp0' \in StackTops
    BY <1>1, <1>10, <1>12, Membership
  <2>4. running' \in File \cup {"boot"}
    BY <1>2, <1>10, <1>12
  <2> QED
    BY <2>1, <2>2, <2>3, <2>4, <1>2, <1>7, <1>10 DEF TypeOK, Traps
<1>14. ProcessChain'
  BY <1>1, <1>2, <1>3, <1>9, <1>10, <1>11 DEF ProcessChain
<1>15. Coherent'
  <2>1. CASE k = 0
    BY <2>1, <1>1, <1>2, <1>10 DEF Coherent, SuspendedIntact
  <2>2. CASE k > 0
    <3> DEFINE parent == pcbs[PcbAddr(k - 1)]
    <3>1. k - 1 \in Live /\ k - 1 \in 0..(k - 1) /\ (k - 1) + 1 = k
      BY <2>2, <1>1, <1>3
    <3>2. image[PageFrame(k - 1)] = parent.input /\ saved[StackTop(k)] = parent.input
      BY <3>1, <1>1, <1>2 DEF SuspendedIntact
    <3>3. parent.input \in File \cup {"none"} /\ pcbs'[PcbAddr(k - 1)] = parent
      BY <3>1, <1>2, <1>8, <1>9 DEF Pcb
    <3>4. parent.input # "boot"
      BY <3>3, DirectoryAssumption
    <3> QED
      BY <3>2, <3>3, <3>4, <2>2, <1>10 DEF Coherent, PcbAt, FrameAt
  <2> QED
    BY <2>1, <2>2, <1>1
<1>16. SuspendedIntact'
  BY <1>1, <1>2, <1>3, <1>9, <1>10, <1>11 DEF SuspendedIntact
<1>17. DescriptorsAgree'
  <2> SUFFICES ASSUME NEW m \in 0..(k - 1)
               PROVE  ArrayAgrees(pcbs'[PcbAddr(m)].file_array)
    BY <1>11 DEF DescriptorsAgree, ArrayAgrees
  <2> QED
    BY <1>1, <1>2, <1>3, <1>9 DEF DescriptorsAgree
<1> QED
  BY <1>13, <1>14, <1>15, <1>16, <1>17 DEF IInv

\* open writes the entry that sys_open_c found.
LEMMA OpenStep ==
  ASSUME IInv, running # "boot", NEW name \in File \cup {Absent}, Open(name)
  PROVE  IInv'
<1>1. fa \in FileArray /\ ArrayAgrees(fa)
  BY RunningHasPcb
<1>2. name \in File /\ UNCHANGED process_vars /\ trap' = "open"
  BY DEF Open, Return
<1> DEFINE o == OpsFor(FileType[name])
           b(i) == [fa EXCEPT ![i].ops = o]
<1>3. PICK i \in Fd, j \in Fd :
        /\ FirstFree(fa, i) /\ DriverFree(b(i), j) /\ ret_val' = i
        /\ SetFileArray([b(i) EXCEPT ![j] = Opened(@, name)])
  BY DEF Open, Return
<1>4. /\ o \in Ops
      /\ [b(i) EXCEPT ![i] = Opened(@, name)] \in FileArray
      /\ ArrayAgrees([b(i) EXCEPT ![i] = Opened(@, name)])
  BY <1>1, <1>2, <1>3, OpenKeepsArray
<1>5. i = j
  BY <1>1, <1>3, <1>4, SameFree
<1>6. ret_val' \in Int
  BY <1>3, FdAssumption DEF Fd
<1> QED
  BY <1>2, <1>3, <1>4, <1>5, <1>6, TableStep DEF Traps

LEMMA CloseStep ==
  ASSUME IInv, running # "boot", NEW fd \in FdArg, Close(fd)
  PROVE  IInv'
<1>1. fa \in FileArray /\ ArrayAgrees(fa)
  BY RunningHasPcb
<1>2. fd \in Fd /\ fd \notin {0, 1}
  BY FdAssumption DEF Close, Fd
<1>3. /\ SetFileArray([fa EXCEPT ![fd] = Closed(@)])
      /\ UNCHANGED process_vars /\ trap' = "close" /\ ret_val' = 0
  BY DEF Close, Return
<1> QED
  BY <1>1, <1>2, <1>3, CloseKeepsArray, TableStep DEF Traps

\* The terminal descriptors have the driver "terminal", so a read that moves
\* a position is never one of theirs.
LEMMA ReadStep ==
  ASSUME IInv, running # "boot", NEW fd \in FdArg, NEW n \in ReadSize,
         FileRead(fd, n) \/ DirRead(fd, n)
  PROVE  IInv'
<1>1. fa \in FileArray /\ ArrayAgrees(fa)
  BY RunningHasPcb
<1>2. fd \in Fd /\ fa[fd].used = 1 /\ fa[fd].ops \in {"file", "dir"} /\ n \in Nat
  BY CallAssumption DEF FileRead, DirRead, Usable
<1>3. fd \notin {0, 1}
  BY <1>1, <1>2 DEF ArrayAgrees, TerminalDesc
<1>4. fa[fd] \in Desc /\ fa[fd].file_pos \in Nat
  BY <1>1, <1>2 DEF FileArray, Desc
<1>5. CASE FileRead(fd, n)
  <2> DEFINE d == fa[fd]
             cnt == IF d.file_pos >= Length[d.inode] THEN 0
                    ELSE LeastOf(n, Length[d.inode] - d.file_pos)
  <2>1. d.type = REG_FILE
    BY <1>5 DEF FileRead, DriverReads
  <2>2. d.inode \in Inodes
    BY <2>1, <1>1, <1>2, <1>3 DEF ArrayAgrees
  <2>3. Length[d.inode] \in Nat
    BY <2>2, DirectoryAssumption DEF Inodes
  <2>4. cnt \in Nat
    BY <2>3, <1>2, <1>4 DEF LeastOf
  <2>5. /\ SetFileArray([fa EXCEPT ![fd].file_pos = @ + cnt])
        /\ UNCHANGED process_vars /\ trap' = "read" /\ ret_val' = cnt
    BY <1>5 DEF FileRead, Return
  <2> HIDE DEF cnt
  <2> QED
    BY <2>4, <2>5, <1>1, <1>2, <1>3, SeekKeepsArray, TableStep DEF Traps
<1>6. CASE DirRead(fd, n)
  <2>1. UNCHANGED process_vars /\ trap' = "read"
    BY <1>6 DEF DirRead, Return
  <2>2. CASE ret_val' = 0 /\ UNCHANGED pcbs
    BY <2>1, <2>2, ReturnStep DEF Traps
  <2>3. CASE \E len \in TextLen : /\ ret_val' = LeastOf(n, len)
                                  /\ SetFileArray([fa EXCEPT ![fd].file_pos = @ + 1])
    <3>1. ret_val' \in Int /\ SetFileArray([fa EXCEPT ![fd].file_pos = @ + 1])
      BY <2>3, <1>2, CallAssumption DEF LeastOf
    <3> QED
      BY <3>1, <2>1, <1>1, <1>2, <1>3, SeekKeepsArray, TableStep DEF Traps
  <2> QED
    BY <2>2, <2>3, <1>6 DEF DirRead, Return
<1> QED
  BY <1>5, <1>6

\* The remaining calls only return a value.
LEMMA FailingStep ==
  ASSUME IInv, NEW name, NEW fd, NEW n \in Int, NEW line \in Int,
         \/ ExecuteFails(name) \/ OpenFails(name) \/ CloseFails(fd)
         \/ DeviceRead(fd, n, line) \/ ReadFails(fd, n)
         \/ Write(fd, n) \/ WriteFails(fd, n) \/ OtherCall
  PROVE  IInv'
<1>1. UNCHANGED <<process_vars, pcbs>>
  BY DEF ExecuteFails, OpenFails, CloseFails, DeviceRead, ReadFails, Write,
         WriteFails, OtherCall
<1>2. trap' \in Traps /\ ret_val' \in Int
  BY DEF ExecuteFails, OpenFails, CloseFails, DeviceRead, ReadFails, Write,
         WriteFails, OtherCall, Return, ExecDone, Traps
<1> QED
  BY <1>1, <1>2, ReturnStep

LEMMA InitInvariant == Init => IInv
<1> SUFFICES ASSUME Init PROVE IInv
  OBVIOUS
<1>1. BlankPcb \in Pcb
  BY Membership DEF BlankPcb, Pcb, FileArray, Desc, Ops, clear_fd
<1>2. TypeOK
  BY <1>1, Membership DEF Init, TypeOK
<1>3. Live = {}
  BY DEF Live, Init
<1> QED
  BY <1>2, <1>3, Membership
     DEF Init, IInv, ProcessChain, Coherent, SuspendedIntact, DescriptorsAgree, PcbAt, FrameAt

LEMMA NextInvariant == IInv /\ [Next]_vars => IInv'
<1> SUFFICES ASSUME IInv, [Next]_vars PROVE IInv'
  OBVIOUS
<1>1. CASE Boot
  <2>1. Execute(Shell) \/ ExecuteFails(Shell)
    BY <1>1 DEF Boot
  <2>2. Shell \in File
    BY DirectoryAssumption
  <2>3. CASE Execute(Shell)
    BY <2>2, <2>3, ExecuteStep
  <2>4. CASE ExecuteFails(Shell)
    BY <2>4, FailingStep
  <2> QED
    BY <2>1, <2>3, <2>4
<1>2. CASE running # "boot" /\ ProcessCall
  <2>1. ASSUME NEW name \in File \cup {Absent}, Execute(name) PROVE IInv'
    <3>1. name \in File
      BY <2>1 DEF Execute, CanExecute
    <3> QED
      BY <2>1, <3>1, ExecuteStep
  <2>2. ASSUME NEW name \in File \cup {Absent}, ExecuteFails(name) PROVE IInv'
    BY <2>2, FailingStep
  <2>3. ASSUME NEW status \in ExitStatus, Halt(status) PROVE IInv'
    BY <2>3, <1>2, HaltStep, CallAssumption DEF Halt, Traps
  <2>4. CASE Exception
    BY <2>4, <1>2, HaltStep DEF Exception, Traps
  <2> QED
    BY <2>1, <2>2, <2>3, <2>4, <1>2 DEF ProcessCall
<1>3. CASE running # "boot" /\ FileCall
  <2>1. ASSUME NEW name \in File \cup {Absent}, Open(name) \/ OpenFails(name)
        PROVE  IInv'
    BY <2>1, <1>3, OpenStep, FailingStep
  <2>2. ASSUME NEW fd \in FdArg, Close(fd) \/ CloseFails(fd)
        PROVE  IInv'
    BY <2>2, <1>3, CloseStep, FailingStep
  <2>3. ASSUME NEW fd \in FdArg, NEW n \in ReadSize, FileRead(fd, n) \/ DirRead(fd, n)
        PROVE  IInv'
    BY <2>3, <1>3, ReadStep
  <2>4. ASSUME NEW fd \in FdArg, NEW n \in ReadSize,
               \/ \E line \in TextLen : DeviceRead(fd, n, line)
               \/ ReadFails(fd, n) \/ Write(fd, n) \/ WriteFails(fd, n)
        PROVE  IInv'
    <3>1. n \in Int /\ TextLen \subseteq Int
      BY CallAssumption
    <3> QED
      BY <2>4, <3>1, FailingStep
  <2>5. CASE OtherCall
    BY <2>5, FailingStep
  <2> QED
    BY <2>1, <2>2, <2>3, <2>4, <2>5, <1>3 DEF FileCall
<1>4. CASE UNCHANGED vars
  BY <1>4, ReturnStep DEF vars, process_vars, IInv, TypeOK, Traps
<1> QED
  BY <1>1, <1>2, <1>3, <1>4 DEF Next, UserCall

-----------------------------------------------------------------------------
(* The theorems. *)

\* The inductive invariant holds of every behaviour.
THEOREM Invariance == Spec => []IInv
BY InitInvariant, NextInvariant, PTL DEF Spec

\* Whatever programs do, the kernel's process variables keep their ranges:
\* process_number never passes the limit of sys_execute_c, and cur_pcb,
\* tss.esp0 and the program page never hold an address the code did not set.
THEOREM TypeCorrect == Spec => []TypeOK
<1>1. IInv => TypeOK
  BY DEF IInv
<1> QED
  BY Invariance, <1>1, PTL

\* For every process limit and every sequence of calls, execute and halt
\* keep the chain of saved PCBs, frames and stacks exact.
THEOREM ChainCorrect == Spec => []ProcessChain
<1>1. IInv => ProcessChain
  BY DEF IInv
<1> QED
  BY Invariance, <1>1, PTL

\* The resumed registers, cur_pcb and the program page always belong to one
\* and the same program.
THEOREM CoherenceCorrect == Spec => []Coherent
<1>1. IInv => Coherent
  BY DEF IInv
<1> QED
  BY Invariance, <1>1, PTL

\* A process suspended in sys_execute_c finds its frame and its call intact.
THEOREM SuspendedCorrect == Spec => []SuspendedIntact
<1>1. IInv => SuspendedIntact
  BY DEF IInv
<1> QED
  BY Invariance, <1>1, PTL

\* In every live process each descriptor's jump table fits its type bits.
THEOREM DescriptorsCorrect == Spec => []DescriptorsAgree
<1>1. IInv => DescriptorsAgree
  BY DEF IInv
<1> QED
  BY Invariance, <1>1, PTL

\* An 8KB block less one PCB leaves 7024 bytes of kernel stack.
LEMMA StackUseBound == StackUse \in Int /\ StackUse <= 7024
BY StackAssumption DEF EIGHT_KB, PCB_SIZE

\* If no kernel stack grows deeper than the space an 8KB block leaves beside
\* the PCB, no stack in use reaches a live PCB or another stack.
THEOREM StacksCorrect == Spec => []StacksClearOfPcbs
<1>1. ASSUME IInv PROVE StacksClearOfPcbs
  <2>1. process_number \in Nat
    BY <1>1, Membership DEF IInv, TypeOK
  <2>2. ASSUME NEW top \in Stacks
        PROVE  \E m \in 0..process_number : top = StackTop(m)
    BY <2>1, <1>1 DEF Stacks, Live, IInv, ProcessChain
  <2>3. ASSUME NEW m \in 0..process_number, NEW n \in Live
        PROVE  \/ StackTop(m) <= PcbAddr(n)
               \/ PcbAddr(n) + PCB_SIZE <= StackTop(m) - StackUse
    <3>1. m \in Int /\ n \in Int /\ StackUse \in Int /\ StackUse <= 7024
      BY <2>1, StackUseBound DEF Live
    <3>2. CASE n + 1 <= m
      <4>1. StackTop(m) <= PcbAddr(n)
        BY <3>1, <3>2, SMTT(30) DEF StackTop, PcbAddr, EIGHT_MB, EIGHT_KB
      <4> QED
        BY <4>1
    <3>3. CASE m <= n
      <4>1. PcbAddr(n) + PCB_SIZE <= StackTop(m) - StackUse
        BY <3>1, <3>3, SMTT(30) DEF StackTop, PcbAddr, EIGHT_MB, EIGHT_KB, PCB_SIZE
      <4> QED
        BY <4>1
    <3> QED
      BY <3>1, <3>2, <3>3
  <2>4. ASSUME NEW m \in 0..process_number, NEW n \in 0..process_number,
               StackTop(m) < StackTop(n)
        PROVE  StackTop(m) <= StackTop(n) - StackUse
    <3>1. m \in Int /\ n \in Int /\ StackUse \in Int /\ StackUse <= 7024
      BY <2>1, StackUseBound
    <3>2. n + 1 <= m
      BY <3>1, <2>4, SMTT(30) DEF StackTop, EIGHT_MB, EIGHT_KB
    <3> QED
      BY <3>1, <3>2, SMTT(30) DEF StackTop, EIGHT_MB, EIGHT_KB
  <2> QED
    BY <2>2, <2>3, <2>4 DEF StacksClearOfPcbs
<1> QED
  BY Invariance, <1>1, PTL

\* What a step may do to the PCBs: it writes the slot execute fills, or the
\* file array of the running process.
LEMMA PcbWrites ==
  ASSUME IInv, [Next]_vars
  PROVE  \/ pcbs' = pcbs /\ process_number' = process_number
         \/ /\ process_number' > process_number
            /\ \E p : pcbs' = [pcbs EXCEPT ![PcbAddr(process_number)] = p]
         \/ /\ running # "boot"
            /\ process_number' = process_number
            /\ \E p : pcbs' = [pcbs EXCEPT ![cur_pcb] = p]
         \/ /\ running # "boot"
            /\ process_number' < process_number
            /\ SetFileArray(CloseAll(fa))
<1>1. process_number \in Int
  BY DEF IInv, TypeOK
<1>2. CASE \E name : Execute(name)
  <2>1. PICK name : Execute(name)
    BY <1>2
  <2>2. /\ process_number' = process_number + 1
        /\ pcbs' = [pcbs EXCEPT ![PcbAddr(process_number)] = NewPcb(name)]
    BY <2>1 DEF Execute
  <2>3. process_number' > process_number
    BY <2>2, <1>1
  <2> QED
    BY <2>2, <2>3
<1>3. CASE running # "boot" /\ \E entry, ebx : HaltWith(entry, ebx)
  BY <1>1, <1>3 DEF HaltWith
<1>4. CASE running # "boot" /\ \E x : SetFileArray(x) /\ UNCHANGED process_vars
  <2>1. PICK x : pcbs' = [pcbs EXCEPT ![cur_pcb].file_array = x]
    BY <1>4 DEF SetFileArray
  <2>2. pcbs' = [pcbs EXCEPT ![cur_pcb] = [pcbs[cur_pcb] EXCEPT !.file_array = x]]
    BY <2>1
  <2> QED
    BY <2>2, <1>4 DEF process_vars
<1>5. CASE UNCHANGED <<process_vars, pcbs>>
  BY <1>5 DEF process_vars
<1>6. CASE UNCHANGED vars
  BY <1>6 DEF vars
<1>7. CASE Boot
  BY <1>2, <1>5, <1>7 DEF Boot, ExecuteFails
<1>8. CASE running # "boot" /\ ProcessCall
  BY <1>2, <1>3, <1>5, <1>8 DEF ProcessCall, ExecuteFails, Halt, Exception
<1>9. CASE running # "boot" /\ FileCall
  <2>1. \/ \E x : SetFileArray(x) /\ UNCHANGED process_vars
        \/ UNCHANGED <<process_vars, pcbs>>
    BY <1>9, ZenonT(60) DEF FileCall, Open, OpenFails, Close, CloseFails, FileRead, DirRead,
                DeviceRead, ReadFails, Write, WriteFails, OtherCall
  <2> QED
    BY <2>1, <1>4, <1>5, <1>9
<1> QED
  BY <1>6, <1>7, <1>8, <1>9 DEF Next, UserCall

\* No step writes the PCB of a process that is suspended in execute.
THEOREM SuspendedNeverWritten == Spec => SuspendedUntouched
<1>1. ASSUME IInv, [Next]_vars, NEW n \in 0..(process_number - 2)
      PROVE  pcbs'[PcbAddr(n)] = pcbs[PcbAddr(n)]
  <2>1. /\ process_number \in 0..MaxProcesses /\ pcbs \in [PcbAddrs -> Pcb]
        /\ n \in Nat /\ process_number \in Nat
    BY <1>1, Membership DEF IInv, TypeOK
  <2>2. PcbAddr(n) # PcbAddr(process_number) /\ PcbAddr(n) # PcbAddr(process_number - 1)
    BY <2>1 DEF PcbAddr, EIGHT_MB, EIGHT_KB
  <2>3. running # "boot" => cur_pcb = PcbAddr(process_number - 1)
    BY <1>1, RunningHasPcb
  <2>4. PcbAddr(n) \in PcbAddrs
    BY <2>1, Membership
  <2> QED
    BY <1>1, <2>1, <2>2, <2>3, <2>4, PcbWrites DEF SetFileArray
<1> DEFINE A == \A n \in 0..(process_number - 2) :
                  pcbs'[PcbAddr(n)] = pcbs[PcbAddr(n)]
<1>2. IInv /\ [Next]_vars => [A]_vars
  BY <1>1
<1> QED
  BY Invariance, <1>2, PTL DEF Spec, SuspendedUntouched

\* sys_halt_c's loop closes every descriptor, because no driver's close
\* refuses a descriptor whose table and type agree.
THEOREM HaltClosesEverything == Spec => HaltClosesAll
<1>1. ASSUME IInv, running # "boot", SetFileArray(CloseAll(fa)), NEW fd \in Fd
      PROVE  pcbs'[cur_pcb].file_array[fd].used = 0
  <2>1. /\ cur_pcb \in PcbAddrs /\ pcbs[cur_pcb] \in Pcb
        /\ fa \in FileArray /\ ArrayAgrees(fa)
    BY <1>1, RunningHasPcb
  <2>2. pcbs'[cur_pcb].file_array = CloseAll(fa)
    BY <1>1, <2>1 DEF SetFileArray, IInv, TypeOK, Pcb
  <2>3. fa[fd] \in Desc
    BY <2>1 DEF FileArray
  <2>4. fa[fd].used = 1 => CanClose(fa[fd], fd)
    <3>1. CASE fd \in {0, 1}
      <4>1. fa[fd] = TerminalDesc
        BY <2>1, <3>1 DEF ArrayAgrees
      <4>2. fa[fd].used = 1 /\ fa[fd].ops = "terminal"
        BY <4>1 DEF TerminalDesc
      <4>3. fd <= 1
        BY <3>1
      <4> QED
        BY <4>2, <4>3 DEF CanClose
    <3>2. CASE fd \notin {0, 1}
      <4>1. fd > 1
        BY <3>2, FdAssumption DEF Fd
      <4>2. fa[fd].type \in 0..3
        BY <2>3 DEF Desc
      <4> QED
        BY <2>1, <3>2, <4>1, <4>2
           DEF ArrayAgrees, CanClose, OpsFor, RTC_FILE, DIR_FILE, REG_FILE, TERMINAL_TYPE
    <3> QED
      BY <3>1, <3>2
  <2>5. CloseAll(fa)[fd].used = 0
    BY <2>3, <2>4 DEF CloseAll, Closed, Desc
  <2> QED
    BY <2>2, <2>5
<1> DEFINE A == process_number' < process_number =>
                  \A fd \in Fd : pcbs'[cur_pcb].file_array[fd].used = 0
<1>2. IInv /\ [Next]_vars => [A]_vars
  <2> SUFFICES ASSUME IInv, [Next]_vars, process_number' < process_number
               PROVE  \A fd \in Fd : pcbs'[cur_pcb].file_array[fd].used = 0
    OBVIOUS
  <2>1. process_number \in Int
    BY DEF IInv, TypeOK
  <2>2. process_number' # process_number /\ ~(process_number' > process_number)
    <3>1. process_number' \in Int
      BY NextInvariant DEF IInv, TypeOK
    <3> QED
      BY <2>1, <3>1
  <2>3. running # "boot" /\ SetFileArray(CloseAll(fa))
    BY <2>2, PcbWrites
  <2> QED
    BY <2>3, <1>1
<1> QED
  BY Invariance, <1>2, PTL DEF Spec, HaltClosesAll

\* The descriptor open returns is the lowest free one, ready at position 0.
THEOREM OpenCorrect == Spec => []OpenedIsReady
<1>1. Init => OpenedIsReady
  BY DEF Init, OpenedIsReady
<1>2. ASSUME IInv, OpenedIsReady, [Next]_vars
      PROVE  OpenedIsReady'
  <2>1. CASE UNCHANGED vars
    BY <1>2, <2>1 DEF vars, OpenedIsReady, fa
  <2>2. CASE trap' # "open" \/ ret_val' = -1
    BY <2>2 DEF OpenedIsReady
  <2>3. CASE running # "boot" /\ \E name \in File \cup {Absent} : Open(name)
    <3>1. PICK name \in File : Open(name)
      BY <2>3 DEF Open
    <3> DEFINE o == OpsFor(FileType[name])
               b(i) == [fa EXCEPT ![i].ops = o]
               c(i) == [b(i) EXCEPT ![i] = Opened(@, name)]
    <3>2. PICK i \in Fd, j \in Fd :
            /\ FirstFree(fa, i) /\ DriverFree(b(i), j) /\ ret_val' = i
            /\ SetFileArray([b(i) EXCEPT ![j] = Opened(@, name)])
            /\ UNCHANGED process_vars
      BY <3>1 DEF Open, Return
    <3>3. /\ fa \in FileArray /\ ArrayAgrees(fa)
          /\ cur_pcb \in PcbAddrs /\ pcbs[cur_pcb] \in Pcb /\ pcbs \in [PcbAddrs -> Pcb]
      BY <1>2, <2>3, RunningHasPcb DEF IInv, TypeOK
    <3>4. o \in Ops /\ c(i) \in FileArray
      BY <3>2, <3>3, OpenKeepsArray
    <3>5. i = j
      BY <3>2, <3>3, <3>4, SameFree
    <3>6. fa' = c(i)
      BY <3>2, <3>3, <3>5 DEF SetFileArray, process_vars, fa, Pcb
    <3>7. c(i)[i].used = 1 /\ c(i)[i].file_pos = 0 /\ c(i)[i].ops = OpsFor(c(i)[i].type)
      BY <3>3, <3>4 DEF FileArray, Desc, Opened
    <3>8. ASSUME NEW fd \in Fd, fd < i
          PROVE  c(i)[fd].used = 1
      <4>1. c(i)[fd] = fa[fd] /\ fd \in Int /\ i \in Int
        BY <3>3, <3>8, FdAssumption DEF FileArray, Fd
      <4>2. CASE fd \in {0, 1}
        BY <4>1, <4>2, <3>3 DEF ArrayAgrees, TerminalDesc
      <4>3. CASE fd \in 2..(i - 1)
        BY <4>1, <4>3, <3>2 DEF FirstFree
      <4> QED
        BY <4>1, <4>2, <4>3, <3>8 DEF Fd
    <3> HIDE DEF c
    <3> QED
      BY <3>2, <3>6, <3>7, <3>8 DEF OpenedIsReady
  <2>4. \/ UNCHANGED vars \/ trap' # "open" \/ ret_val' = -1
        \/ running # "boot" /\ \E name \in File \cup {Absent} : Open(name)
    BY <1>2, ZenonT(60)
            DEF Next, Boot, UserCall, ProcessCall, FileCall, Execute, ExecuteFails,
                Halt, Exception, HaltWith, OpenFails, Close, CloseFails, FileRead,
                DirRead, DeviceRead, ReadFails, Write, WriteFails, OtherCall, Return
  <2> QED
    BY <2>1, <2>2, <2>3, <2>4
<1> QED
  BY Invariance, <1>1, <1>2, PTL DEF Spec

-----------------------------------------------------------------------------
(* The stack of programs that Kernel implements. *)

Entry == [prog : File \cup {"boot"}, table : {Handles(a) : a \in FileArray}]

EntryAt(n) ==
  [prog  |-> IF n = process_number THEN running ELSE saved[StackTop(n)],
   table |-> Handles(pcbs[PcbAddr(n - 1)].file_array)]

LEMMA StackIsSeq ==
  ASSUME IInv
  PROVE  /\ process_number \in 0..MaxProcesses
         /\ Stack \in Seq(Entry)
         /\ Len(Stack) = process_number
         /\ \A n \in 1..process_number : Stack[n] = EntryAt(n)
<1>1. process_number \in 0..MaxProcesses /\ process_number \in Nat /\ MaxProcesses \in Nat
  BY Membership DEF IInv, TypeOK
<1>2. Stack = [n \in 1..process_number |-> EntryAt(n)]
  BY DEF Stack, EntryAt
<1>3. ASSUME NEW n \in 1..process_number PROVE EntryAt(n) \in Entry
  <2>1. n \in 0..MaxProcesses /\ n - 1 \in 0..(MaxProcesses - 1)
    BY <1>1
  <2>2. StackTop(n) \in StackTops /\ PcbAddr(n - 1) \in PcbAddrs
    BY <2>1, Membership
  <2>3. saved[StackTop(n)] \in File \cup {"boot"} /\ running \in File \cup {"boot"}
    BY <2>2 DEF IInv, TypeOK
  <2>4. pcbs[PcbAddr(n - 1)].file_array \in FileArray
    BY <2>2 DEF IInv, TypeOK, Pcb
  <2> QED
    BY <2>3, <2>4 DEF EntryAt, Entry
<1>4. Stack \in [1..process_number -> Entry]
  BY <1>2, <1>3
<1>5. Stack \in Seq(Entry)
  BY <1>1, <1>4, SeqDef
<1> QED
  BY <1>1, <1>2, <1>4, <1>5, LenProperties

\* A sequence with the entries of the next state is the next stack.
LEMMA NextStack ==
  ASSUME NEW S, NEW t \in Seq(S), Len(t) = process_number',
         \A n \in 1..process_number' : t[n] = EntryAt(n)'
  PROVE  Stack' = t
<1>1. t = [n \in 1..process_number' |-> t[n]]
  BY LenProperties
<1>2. Stack' = [n \in 1..process_number' |-> EntryAt(n)']
  BY DEF Stack, EntryAt
<1> QED
  BY <1>1, <1>2

\* A step that keeps what the stack is made of keeps the stack.
LEMMA SameStack ==
  ASSUME UNCHANGED <<process_number, pcbs, saved, running>> PROVE Stack' = Stack
BY DEF Stack

-----------------------------------------------------------------------------
(* The steps of the process calls. *)

\* execute pushes the new program with the two standard handles.
LEMMA ExecutePushes ==
  ASSUME IInv, NEW name \in Executable, Execute(name)
  PROVE  Stack' = Append(Stack, [prog |-> name, table |-> Abstract!StdTable])
<1> DEFINE new == [prog |-> name, table |-> Abstract!StdTable]
           p == process_number
<1>2. /\ p \in 0..(MaxProcesses - 1) /\ p \in Nat /\ process_number' = p + 1
      /\ pcbs' = [pcbs EXCEPT ![PcbAddr(p)] = NewPcb(name)]
      /\ saved' = [saved EXCEPT ![TrapStack] = running]
      /\ running' = name
  BY StackIsSeq, Membership DEF Execute, CanExecute
<1>3. TrapStack = StackTop(p)
  BY Membership DEF TrapStack, IInv, Coherent, ProcessChain
<1>4. ASSUME NEW n \in 1..p PROVE EntryAt(n)' = EntryAt(n)
  <2>1. n \in 0..MaxProcesses /\ p \in 0..MaxProcesses /\ n - 1 \in 0..(MaxProcesses - 1)
        /\ n # p + 1 /\ n - 1 # p
    BY <1>2, Membership
  <2>2. PcbAddr(n - 1) # PcbAddr(p)
    BY <1>2, <2>1, PcbAddrsDiffer
  <2>3. pcbs'[PcbAddr(n - 1)] = pcbs[PcbAddr(n - 1)]
    BY <1>2, <2>1, <2>2, Membership DEF IInv, TypeOK
  <2>4. saved'[StackTop(n)] = IF n = p THEN running ELSE saved[StackTop(n)]
    BY <1>2, <1>3, <2>1, StackTopsDiffer DEF IInv, TypeOK
  <2> QED
    BY <1>2, <2>1, <2>3, <2>4 DEF EntryAt
<1>5. ASSUME NEW n \in 1..(p + 1), n = p + 1 PROVE EntryAt(n)' = new
  <2>1. pcbs'[PcbAddr(n - 1)] = NewPcb(name)
    <3>1. n - 1 = p
      BY <1>2, <1>5
    <3> QED
      BY <1>2, <3>1, Membership DEF IInv, TypeOK
  <2>2. Handles(NewPcb(name).file_array) = Abstract!StdTable
    <3> DEFINE a == NewPcb(name).file_array
    <3>1. a = [fd \in Fd |-> IF fd \in {0, 1} THEN TerminalDesc ELSE clear_fd]
      BY DEF NewPcb
    <3>2. {0, 1} \subseteq Fd
      BY FdAssumption DEF Fd
    <3>3. {f \in Fd : a[f].used = 1} = {0, 1}
      BY <3>1, <3>2 DEF TerminalDesc, clear_fd
    <3>4. \A fd \in {0, 1} : a[fd] = TerminalDesc
      BY <3>1, <3>2
    <3> HIDE DEF a
    <3>5. Handles(a) = [fd \in {f \in Fd : a[f].used = 1} |->
                          [kind |-> a[fd].ops, object |-> a[fd].inode, pos |-> a[fd].file_pos]]
      BY DEF Handles
    <3>6. Handles(a) = [fd \in {0, 1} |->
                          [kind |-> a[fd].ops, object |-> a[fd].inode, pos |-> a[fd].file_pos]]
      BY <3>3, <3>5, Zenon
    <3>7. \A fd \in {0, 1} :
            a[fd].ops = "terminal" /\ a[fd].inode = 0 /\ a[fd].file_pos = 0
      BY <3>4 DEF TerminalDesc
    <3>8. Handles(a) = [fd \in {0, 1} |-> [kind |-> "terminal", object |-> 0, pos |-> 0]]
      BY <3>6, <3>7
    <3> QED
      BY <3>8 DEF Abstract!StdTable, a
  <2>3. n = process_number'
    BY <1>2, <1>5
  <2> QED
    BY <1>2, <2>1, <2>2, <2>3 DEF EntryAt
<1>6. /\ Append(Stack, new) \in Seq(Entry \cup {new})
      /\ Len(Append(Stack, new)) = p + 1
      /\ \A n \in 1..p : Append(Stack, new)[n] = Stack[n]
      /\ Append(Stack, new)[p + 1] = new
  <2>1. Stack \in Seq(Entry \cup {new})
    BY StackIsSeq, SeqMonotonic
  <2> QED
    BY <2>1, <1>2, StackIsSeq, AppendProperties
<1>7. ASSUME NEW n \in 1..(p + 1) PROVE Append(Stack, new)[n] = EntryAt(n)'
  <2>1. CASE n = p + 1
    BY <1>5, <1>6, <2>1
  <2>2. CASE n # p + 1
    <3>1. n \in 1..p
      BY <1>2, <2>2
    <3> QED
      BY <3>1, <1>4, <1>6, StackIsSeq
  <2> QED
    BY <2>1, <2>2
<1> QED
  BY <1>2, <1>6, <1>7, NextStack

\* halt and an exception pop the program and resume the one below.
LEMMA HaltPops ==
  ASSUME IInv, NEW entry, NEW ebx, HaltWith(entry, ebx)
  PROVE  Stack' = SubSeq(Stack, 1, process_number - 1)
<1> DEFINE p == process_number
<1>2. /\ p \in 1..MaxProcesses /\ p \in Nat /\ process_number' = p - 1
      /\ saved' = saved /\ cur_pcb = PcbAddr(p - 1)
      /\ pcbs' = [pcbs EXCEPT ![cur_pcb].file_array = CloseAll(fa)]
      /\ running' = saved[pcbs[cur_pcb].old_ebp]
  BY StackIsSeq, Membership
     DEF HaltWith, SetFileArray, Restore, IInv, ProcessChain, PcbAt
<1>3. pcbs[cur_pcb].old_ebp = StackTop(p - 1)
  BY <1>2 DEF IInv, ProcessChain, Live
<1>4. ASSUME NEW n \in 1..(p - 1) PROVE EntryAt(n)' = EntryAt(n)
  <2>1. n - 1 \in 0..(MaxProcesses - 1) /\ p - 1 \in 0..(MaxProcesses - 1)
        /\ n - 1 # p - 1 /\ n # p
    BY <1>2, Membership
  <2>2. PcbAddr(n - 1) # PcbAddr(p - 1)
    BY <2>1, PcbAddrsDiffer
  <2>3. pcbs'[PcbAddr(n - 1)] = pcbs[PcbAddr(n - 1)]
    BY <1>2, <2>1, <2>2, Membership DEF IInv, TypeOK
  <2> QED
    BY <1>2, <1>3, <2>1, <2>3 DEF EntryAt
<1>5. /\ SubSeq(Stack, 1, p - 1) \in Seq(Entry)
      /\ Len(SubSeq(Stack, 1, p - 1)) = p - 1
      /\ \A n \in 1..(p - 1) : SubSeq(Stack, 1, p - 1)[n] = Stack[n]
  <2>1. \A i \in 1..(p - 1) : Stack[i] \in Entry
    BY <1>2, StackIsSeq, ElementOfSeq
  <2> QED
    BY <1>2, <2>1, StackIsSeq, SubSeqProperties, SMTT(30)
<1>6. ASSUME NEW n \in 1..(p - 1) PROVE SubSeq(Stack, 1, p - 1)[n] = EntryAt(n)'
  BY <1>2, <1>4, <1>5, StackIsSeq
<1> QED
  BY <1>2, <1>5, <1>6, NextStack

\* A call that replaces the file array of the running process replaces the
\* table on top of the stack.
LEMMA TableReplaces ==
  ASSUME IInv, running # "boot", NEW x \in FileArray, SetFileArray(x),
         UNCHANGED process_vars
  PROVE  /\ Abstract!Top > 0
         /\ Abstract!table = Handles(fa)
         /\ Stack' = [Stack EXCEPT ![Abstract!Top].table = Handles(x)]
<1> DEFINE p == process_number
<1>2. /\ p \in 1..MaxProcesses /\ p \in Nat /\ process_number' = p
      /\ saved' = saved /\ running' = running /\ cur_pcb = PcbAddr(p - 1)
      /\ pcbs' = [pcbs EXCEPT ![cur_pcb].file_array = x]
      /\ cur_pcb \in PcbAddrs /\ pcbs[cur_pcb] \in Pcb
  BY RunningHasPcb, Membership DEF SetFileArray, process_vars
<1>3. Abstract!Top = p /\ Stack[p] = EntryAt(p)
  BY <1>2, StackIsSeq DEF Abstract!Top
<1>4. Abstract!table = Handles(fa)
  BY <1>2, <1>3 DEF Abstract!table, EntryAt, fa
<1>5. ASSUME NEW n \in 1..p, n # p PROVE EntryAt(n)' = EntryAt(n)
  <2>1. n - 1 \in 0..(MaxProcesses - 1) /\ p - 1 \in 0..(MaxProcesses - 1)
        /\ n - 1 # p - 1
    BY <1>2, <1>5, Membership
  <2>2. PcbAddr(n - 1) # PcbAddr(p - 1)
    BY <2>1, PcbAddrsDiffer
  <2>3. pcbs'[PcbAddr(n - 1)] = pcbs[PcbAddr(n - 1)]
    BY <1>2, <2>1, <2>2, Membership DEF IInv, TypeOK
  <2> QED
    BY <1>2, <1>5, <2>3 DEF EntryAt
<1>6. EntryAt(p)' = [EntryAt(p) EXCEPT !.table = Handles(x)]
  <2>1. pcbs'[PcbAddr(p - 1)].file_array = x
    BY <1>2 DEF IInv, TypeOK, Pcb
  <2> QED
    BY <1>2, <2>1 DEF EntryAt
<1>7. Stack' = [Stack EXCEPT ![p].table = Handles(x)]
  <2> DEFINE t == [Stack EXCEPT ![p].table = Handles(x)]
  <2>1. DOMAIN t = 1..p
    BY StackIsSeq, LenProperties
  <2>2. ASSUME NEW n \in 1..p PROVE t[n] = EntryAt(n)'
    BY <1>2, <1>3, <1>5, <1>6, <2>1, StackIsSeq
  <2>3. t = [n \in 1..p |-> t[n]]
    BY <2>1
  <2>4. Stack' = [n \in 1..p |-> EntryAt(n)']
    BY <1>2 DEF Stack, EntryAt
  <2> HIDE DEF t
  <2> QED
    BY <2>2, <2>3, <2>4 DEF t
<1> QED
  BY <1>2, <1>3, <1>4, <1>7

-----------------------------------------------------------------------------
(* What the file calls do to the table. *)

\* The table of the running process.
LEMMA HandlesOf ==
  /\ \A f : f \in DOMAIN Handles(fa) <=> f \in Fd /\ fa[f].used = 1
  /\ \A f \in Fd : fa[f].used = 1 =>
       Handles(fa)[f] = [kind |-> fa[f].ops, object |-> fa[f].inode,
                         pos |-> fa[f].file_pos]
BY DEF Handles

\* sys_open_c and the driver add one handle, at position 0.
LEMMA OpenAdds ==
  ASSUME IInv, running # "boot", NEW name, Open(name)
  PROVE  Abstract!Next
<1>0. PICK i \in Fd :
        /\ FirstFree(fa, i)
        /\ \E j \in Fd :
             LET b == [fa EXCEPT ![i].ops = OpsFor(FileType[name])]
             IN DriverFree(b, j) /\ SetFileArray([b EXCEPT ![j] = Opened(@, name)])
  BY DEF Open
<1> DEFINE o == OpsFor(FileType[name])
           b == [fa EXCEPT ![i].ops = o]
           c == [b EXCEPT ![i] = Opened(@, name)]
           ino == IF FileType[name] = REG_FILE THEN Inode[name] ELSE 0
<1>1. fa \in FileArray /\ ArrayAgrees(fa)
  BY RunningHasPcb
<1>2. name \in File /\ FirstFree(fa, i) /\ UNCHANGED process_vars
  BY <1>0 DEF Open
<1>3. o \in {"rtc", "dir", "file"} /\ o \in Ops
  <2>1. FileType[name] \in {0, 1, 2}
    BY <1>2, DirectoryAssumption DEF RTC_FILE, DIR_FILE, REG_FILE
  <2> QED
    BY <2>1 DEF OpsFor, RTC_FILE, DIR_FILE, REG_FILE, Ops
<1>4. SetFileArray(c)
  <2>1. PICK j \in Fd : DriverFree(b, j) /\ SetFileArray([b EXCEPT ![j] = Opened(@, name)])
    BY <1>0
  <2>2. i = j
    BY <1>1, <1>2, <1>3, <2>1, SameFree
  <2> QED
    BY <2>1, <2>2
<1>5. c \in FileArray
  BY <1>1, <1>2, OpenKeepsArray
<1>6. /\ Abstract!Top > 0 /\ Abstract!table = Handles(fa)
      /\ Stack' = [Stack EXCEPT ![Abstract!Top].table = Handles(c)]
  BY <1>2, <1>4, <1>5, TableReplaces
<1>7. /\ c[i] = [ops |-> o, file_pos |-> 0, used |-> 1, type |-> FileType[name],
                 inode |-> ino]
      /\ \A f \in Fd : f # i => c[f] = fa[f]
  <2>1. b[i].ops = o /\ c[i] = Opened(b[i], name)
    BY <1>1, <1>2, <1>3 DEF FileArray, Desc
  <2>2. \A f \in Fd : f # i => c[f] = fa[f]
    BY <1>1, <1>2 DEF FileArray
  <2> QED
    BY <2>1, <2>2 DEF Opened
<1>8. /\ i \notin DOMAIN Handles(fa)
      /\ \A lower \in Fd : lower < i => lower \in DOMAIN Handles(fa)
  <2>1. \A f \in Fd : f < 2 => fa[f].used = 1
    BY <1>1 DEF ArrayAgrees, TerminalDesc, Fd
  <2>2. i \in 2..(NumFd - 1) /\ fa[i].used = 0 /\ \A j \in 2..(i - 1) : fa[j].used = 1
    BY <1>2 DEF FirstFree
  <2>3. ASSUME NEW lower \in Fd, lower < i PROVE fa[lower].used = 1
    <3>1. lower < 2 \/ lower \in 2..(i - 1)
      BY <2>2, <2>3, FdAssumption DEF Fd
    <3> QED
      BY <3>1, <2>1, <2>2
  <2> QED
    BY <2>2, <2>3, HandlesOf
<1>9. Handles(c) = [f \in DOMAIN Handles(fa) \cup {i} |->
                      IF f = i THEN [kind |-> o, object |-> ino, pos |-> 0]
                               ELSE Handles(fa)[f]]
  <2> HIDE DEF c, o, ino
  <2>1. {f \in Fd : c[f].used = 1} = DOMAIN Handles(fa) \cup {i}
    BY <1>1, <1>2, <1>7, HandlesOf
  <2>2. \A f \in DOMAIN Handles(fa) : f # i =>
          Handles(fa)[f] = [kind |-> c[f].ops, object |-> c[f].inode,
                            pos |-> c[f].file_pos]
    BY <1>1, <1>7, HandlesOf
  <2>3. c[i].ops = o /\ c[i].inode = ino /\ c[i].file_pos = 0
    BY <1>7
  <2>4. Handles(c) = [f \in {g \in Fd : c[g].used = 1} |->
                        [kind |-> c[f].ops, object |-> c[f].inode, pos |-> c[f].file_pos]]
    BY DEF Handles
  <2>5. Handles(c) = [f \in DOMAIN Handles(fa) \cup {i} |->
                        [kind |-> c[f].ops, object |-> c[f].inode, pos |-> c[f].file_pos]]
    BY <2>1, <2>4, Zenon
  <2>6. \A f \in DOMAIN Handles(fa) \cup {i} :
          [kind |-> c[f].ops, object |-> c[f].inode, pos |-> c[f].file_pos]
            = IF f = i THEN [kind |-> o, object |-> ino, pos |-> 0] ELSE Handles(fa)[f]
    BY <2>2, <2>3
  <2> QED
    BY <2>5, <2>6
<1>10. ino \in Inodes \cup {0}
  BY <1>2, DirectoryAssumption DEF Inodes
<1>11. Abstract!OpenHandle(i)
  <2> HIDE DEF c, o, ino
  <2> DEFINE t == [f \in DOMAIN Handles(fa) \cup {i} |->
                     IF f = i THEN [kind |-> o, object |-> ino, pos |-> 0]
                              ELSE Handles(fa)[f]]
  <2>1. Abstract!SetTable(t)
    BY <1>6, <1>9 DEF Abstract!SetTable
  <2>2. \E kind \in {"rtc", "dir", "file"}, object \in Inodes \cup {0} :
          Abstract!SetTable([f \in DOMAIN Abstract!table \cup {i} |->
                               IF f = i THEN [kind |-> kind, object |-> object, pos |-> 0]
                                        ELSE Abstract!table[f]])
    BY <1>3, <1>6, <1>10, <2>1
  <2> QED
    BY <1>6, <1>8, <2>2 DEF Abstract!OpenHandle
<1> QED
  BY <1>2, <1>11 DEF Abstract!Next

\* sys_close_c removes one handle other than stdin and stdout.
LEMMA CloseRemoves ==
  ASSUME IInv, running # "boot", NEW fd, Close(fd)
  PROVE  Abstract!Next
<1> DEFINE c == [fa EXCEPT ![fd] = Closed(@)]
<1>1. fa \in FileArray /\ ArrayAgrees(fa)
  BY RunningHasPcb
<1>2. fd \in Fd /\ fd \notin {0, 1} /\ fa[fd].used = 1 /\ SetFileArray(c)
      /\ UNCHANGED process_vars
  BY FdAssumption DEF Close, CanClose, Fd
<1>3. c \in FileArray
  BY <1>1, <1>2, CloseKeepsArray
<1>4. /\ Abstract!Top > 0 /\ Abstract!table = Handles(fa)
      /\ Stack' = [Stack EXCEPT ![Abstract!Top].table = Handles(c)]
  BY <1>2, <1>3, TableReplaces
<1>5. c[fd].used = 0 /\ \A f \in Fd : f # fd => c[f] = fa[f]
  BY <1>1, <1>2 DEF FileArray, Closed
<1>6. Handles(c) = [f \in DOMAIN Handles(fa) \ {fd} |-> Handles(fa)[f]]
  <2> HIDE DEF c
  <2>1. {f \in Fd : c[f].used = 1} = DOMAIN Handles(fa) \ {fd}
    BY <1>1, <1>5, HandlesOf
  <2>2. \A f \in DOMAIN Handles(fa) \ {fd} :
          Handles(fa)[f] = [kind |-> c[f].ops, object |-> c[f].inode,
                            pos |-> c[f].file_pos]
    BY <1>1, <1>5, HandlesOf
  <2> QED
    BY <2>1, <2>2 DEF Handles
<1>7. fd \in DOMAIN Handles(fa) \ {0, 1}
  BY <1>1, <1>2, HandlesOf
<1>8. Abstract!CloseHandle(fd)
  BY <1>4, <1>6, <1>7 DEF Abstract!CloseHandle, Abstract!SetTable
<1> QED
  BY <1>2, <1>8 DEF Abstract!Next

\* Moving the position of a handle by cnt advances it, or changes nothing.
LEMMA SeekAdvances ==
  ASSUME IInv, running # "boot", NEW fd \in Fd, fd \notin {0, 1}, fa[fd].used = 1,
         NEW cnt \in Nat,
         SetFileArray([fa EXCEPT ![fd].file_pos = @ + cnt]), UNCHANGED process_vars,
         cnt > 0 => fa[fd].file_pos + cnt \in
                      0..Cardinality(File) \cup UNION {0..Length[i] : i \in Inodes}
  PROVE  Abstract!Next \/ Stack' = Stack
<1> DEFINE c == [fa EXCEPT ![fd].file_pos = @ + cnt]
           pos == fa[fd].file_pos + cnt
<1>1. fa \in FileArray /\ ArrayAgrees(fa) /\ fa[fd] \in Desc /\ fa[fd].file_pos \in Nat
  BY RunningHasPcb DEF FileArray, Desc
<1>2. c \in FileArray
  BY <1>1, SeekKeepsArray
<1>3. /\ Abstract!Top > 0 /\ Abstract!table = Handles(fa)
      /\ Stack' = [Stack EXCEPT ![Abstract!Top].table = Handles(c)]
  BY <1>2, TableReplaces
<1>4. CASE cnt = 0
  <2>1. c = fa
    BY <1>1, <1>4 DEF FileArray, Desc
  <2>2. SetFileArray(fa)
    BY <2>1
  <2>3. pcbs' = pcbs
    BY <2>2, RunningHasPcb DEF SetFileArray, fa, IInv, TypeOK, Pcb
  <2> QED
    BY <2>3, SameStack DEF process_vars
<1>5. CASE cnt > 0
  <2>1. /\ c[fd].used = 1 /\ c[fd].ops = fa[fd].ops /\ c[fd].inode = fa[fd].inode
        /\ c[fd].file_pos = pos
        /\ \A f \in Fd : f # fd => c[f] = fa[f]
    BY <1>1 DEF FileArray, Desc
  <2>2. fd \in DOMAIN Handles(fa) \ {0, 1} /\ pos > Handles(fa)[fd].pos
    <3>1. fd \in DOMAIN Handles(fa)
      BY HandlesOf
    <3>2. Handles(fa)[fd] = [kind |-> fa[fd].ops, object |-> fa[fd].inode,
                             pos |-> fa[fd].file_pos]
      BY HandlesOf
    <3>3. Handles(fa)[fd].pos = fa[fd].file_pos
      BY <3>2
    <3> QED
      BY <1>1, <1>5, <3>1, <3>3
  <2>3. Handles(c) = [Handles(fa) EXCEPT ![fd].pos = pos]
    <3> HIDE DEF c, pos
    <3> DEFINE h == [Handles(fa) EXCEPT ![fd].pos = pos]
    <3>1. DOMAIN h = {f \in Fd : c[f].used = 1}
      BY <2>1, HandlesOf
    <3>2. ASSUME NEW f \in DOMAIN h
          PROVE  h[f] = [kind |-> c[f].ops, object |-> c[f].inode, pos |-> c[f].file_pos]
      <4>1. f \in Fd /\ fa[f].used = 1 /\ f \in DOMAIN Handles(fa)
        BY HandlesOf
      <4>2. Handles(fa)[f] = [kind |-> fa[f].ops, object |-> fa[f].inode,
                              pos |-> fa[f].file_pos]
        BY <4>1, HandlesOf
      <4>3. h[f] = IF f = fd THEN [Handles(fa)[f] EXCEPT !.pos = pos] ELSE Handles(fa)[f]
        BY <4>1
      <4> QED
        BY <2>1, <4>1, <4>2, <4>3
    <3>3. h = [f \in DOMAIN h |-> h[f]]
      OBVIOUS
    <3> HIDE DEF h
    <3>4. h = Handles(c)
      BY <3>1, <3>2, <3>3 DEF Handles
    <3> QED
      BY <3>4 DEF h
  <2>4. Abstract!SetTable([Abstract!table EXCEPT ![fd].pos = pos])
    BY <1>3, <2>3 DEF Abstract!SetTable
  <2>5. Abstract!Advance(fd)
    <3> HIDE DEF pos
    <3>1. pos \in 0..Cardinality(File) \cup UNION {0..Length[i] : i \in Inodes}
      BY <1>5 DEF pos
    <3> QED
      BY <1>3, <2>2, <2>4, <3>1 DEF Abstract!Advance
  <2> QED
    BY <2>5 DEF Abstract!Next
<1> QED
  BY <1>4, <1>5

\* file_read stops at the length of the file, dir_read at the last entry.
LEMMA ReadAdvances ==
  ASSUME IInv, running # "boot", NEW fd, NEW nbytes \in Int,
         FileRead(fd, nbytes) \/ DirRead(fd, nbytes)
  PROVE  Abstract!Next \/ Stack' = Stack
<1>1. fd \in Fd /\ fa[fd].used = 1 /\ nbytes >= 0 /\ UNCHANGED process_vars
  BY DEF FileRead, DirRead, Usable
<1>2. fa \in FileArray /\ ArrayAgrees(fa) /\ fa[fd] \in Desc /\ fa[fd].file_pos \in Nat
  BY <1>1, RunningHasPcb DEF FileArray, Desc
<1>3. fa[fd].ops \in {"file", "dir"}
  BY DEF FileRead, DirRead
<1>4. fd \notin {0, 1}
  BY <1>1, <1>2, <1>3 DEF ArrayAgrees, TerminalDesc
<1>5. CASE FileRead(fd, nbytes)
  <2> DEFINE len == Length[fa[fd].inode]
             cnt == IF fa[fd].file_pos >= len THEN 0
                    ELSE LeastOf(nbytes, len - fa[fd].file_pos)
  <2>1. fa[fd].type = REG_FILE
    BY <1>5 DEF FileRead, DriverReads
  <2>2. fa[fd].inode \in Inodes /\ len \in Nat
    BY <1>1, <1>2, <1>4, <2>1, DirectoryAssumption DEF ArrayAgrees, Inodes
  <2>3. cnt \in Nat /\ (cnt > 0 => fa[fd].file_pos + cnt \in 0..len)
    BY <1>1, <1>2, <2>2 DEF LeastOf
  <2>4. SetFileArray([fa EXCEPT ![fd].file_pos = @ + cnt])
    BY <1>5 DEF FileRead
  <2> HIDE DEF cnt
  <2>5. cnt > 0 => fa[fd].file_pos + cnt \in
                     0..Cardinality(File) \cup UNION {0..Length[i] : i \in Inodes}
    BY <2>2, <2>3
  <2> QED
    BY <1>1, <1>4, <2>3, <2>4, <2>5, SeekAdvances
<1>6. CASE DirRead(fd, nbytes)
  <2>1. CASE UNCHANGED pcbs
    BY <1>1, <2>1, SameStack DEF process_vars
  <2>2. CASE /\ fa[fd].file_pos < Cardinality(File)
             /\ SetFileArray([fa EXCEPT ![fd].file_pos = @ + 1])
    <3>1. Cardinality(File) \in Nat
      BY DirectoryAssumption, FS_CardinalityType
    <3>2. fa[fd].file_pos + 1 \in 0..Cardinality(File)
      BY <1>2, <2>2, <3>1
    <3> QED
      BY <1>1, <1>4, <2>2, <3>2, SeekAdvances
  <2> QED
    BY <1>6, <2>1, <2>2 DEF DirRead
<1> QED
  BY <1>5, <1>6

-----------------------------------------------------------------------------
LEMMA StepRefines == IInv /\ [Next]_vars => [Abstract!Next]_Stack
<1> SUFFICES ASSUME IInv, [Next]_vars PROVE Abstract!Next \/ Stack' = Stack
  OBVIOUS
<1>1. ASSUME NEW name \in Executable, Execute(name),
             running = "boot" => name = Shell
      PROVE  Abstract!Next
  <2>1. Stack' = Append(Stack, [prog |-> name, table |-> Abstract!StdTable])
    BY <1>1, ExecutePushes
  <2>2. Abstract!Top = process_number /\ process_number \in 0..MaxProcesses
    BY StackIsSeq DEF Abstract!Top
  <2>3. Abstract!Start(name)
    BY <1>1, <2>1, <2>2 DEF Abstract!Start, Execute, CanExecute
  <2>4. Abstract!Top = 0 => name = Shell
    BY <1>1, <2>2 DEF IInv, Coherent
  <2>5. Abstract!Top > 0 \/ Abstract!Top = 0
    BY <2>2
  <2> QED
    BY <2>3, <2>4, <2>5 DEF Abstract!Next
<1>2. ASSUME NEW entry, NEW ebx, HaltWith(entry, ebx) PROVE Abstract!Next
  <2>1. Stack' = SubSeq(Stack, 1, process_number - 1)
    BY <1>2, HaltPops
  <2>2. Abstract!Top = process_number /\ process_number > 0
    BY <1>2, StackIsSeq DEF Abstract!Top, HaltWith
  <2> QED
    BY <2>1, <2>2 DEF Abstract!Next, Abstract!Leave
<1>3. ASSUME UNCHANGED <<process_vars, pcbs>> PROVE Stack' = Stack
  BY <1>3, SameStack DEF process_vars
<1>4. CASE Boot
  <2>1. CASE Execute(Shell)
    BY <1>1, <2>1, DirectoryAssumption
  <2>2. CASE ExecuteFails(Shell)
    BY <1>3, <2>2 DEF ExecuteFails
  <2> QED
    BY <1>4, <2>1, <2>2 DEF Boot
<1>5. CASE running # "boot" /\ ProcessCall
  <2>1. ASSUME NEW name, Execute(name) PROVE Abstract!Next
    BY <1>1, <1>5, <2>1 DEF Execute, CanExecute
  <2>2. ASSUME NEW name, ExecuteFails(name) PROVE Stack' = Stack
    BY <1>3, <2>2 DEF ExecuteFails
  <2> QED
    BY <1>2, <1>5, <2>1, <2>2 DEF ProcessCall, Halt, Exception
<1>6. CASE running # "boot" /\ FileCall
  <2>1. ASSUME NEW name, Open(name) \/ OpenFails(name)
        PROVE  Abstract!Next \/ Stack' = Stack
    BY <1>3, <1>6, <2>1, OpenAdds DEF OpenFails
  <2>2. ASSUME NEW fd, Close(fd) \/ CloseFails(fd)
        PROVE  Abstract!Next \/ Stack' = Stack
    BY <1>3, <1>6, <2>2, CloseRemoves DEF CloseFails
  <2>3. ASSUME NEW fd, NEW n \in ReadSize, FileRead(fd, n) \/ DirRead(fd, n)
        PROVE  Abstract!Next \/ Stack' = Stack
    BY <1>6, <2>3, ReadAdvances, CallAssumption
  <2>4. ASSUME NEW fd, NEW n, NEW line,
               \/ DeviceRead(fd, n, line) \/ ReadFails(fd, n)
               \/ Write(fd, n) \/ WriteFails(fd, n) \/ OtherCall
        PROVE  Stack' = Stack
    BY <1>3, <2>4 DEF DeviceRead, ReadFails, Write, WriteFails, OtherCall
  <2> QED
    BY <1>6, <2>1, <2>2, <2>3, <2>4 DEF FileCall
<1>7. CASE UNCHANGED vars
  BY <1>3, <1>7 DEF vars, process_vars
<1> QED
  BY <1>4, <1>5, <1>6, <1>7 DEF Next, UserCall

\* The calls of sys_calls.c, with the addresses, frames and saved registers
\* they handle, only ever do what a stack of programs with private tables
\* does.  (That a shell is started again is a matter of fairness.)
THEOREM KernelRefinesStack == Spec => Abstract!Init /\ [][Abstract!Next]_Stack
<1>1. Init => Abstract!Init
  <2> SUFFICES ASSUME Init PROVE Stack = <<>>
    BY DEF Abstract!Init
  <2>1. process_number = 0
    BY DEF Init
  <2>2. IInv
    BY InitInvariant
  <2> QED
    BY <2>1, <2>2, StackIsSeq, EmptySeq
<1> QED
  BY <1>1, StepRefines, Invariance, PTL DEF Spec
=============================================================================
