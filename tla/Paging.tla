------------------------------- MODULE Paging -------------------------------
(***************************************************************************)
(* The address space: the tables that init_paging builds, the order in     *)
(* which it turns paging on, and the program page that sys_execute_c and   *)
(* sys_halt_c remap.  The processor may cache a translation whenever one   *)
(* exists and drop it again at any time; a load of CR3 drops all that are  *)
(* not global.  Interrupts are on in the system calls, so a handler may    *)
(* run, and the processor may cache, between any two steps.                *)
(*                                                                         *)
(* A page is a pair of an index in the directory and an index in the table *)
(* (or inside the 4MB page); frames are counted in units of 4KB.           *)
(***************************************************************************)
EXTENDS Integers

CONSTANTS
  MaxProcesses,   \* 6 in sys_execute_c
  DirIndex,       \* the directory entries that are looked at, of 0..1023
  TableIndex      \* the entries of a table that are looked at, of 0..1023

PRO_ADDR  == 32
USER_VMEM == 33
VID_INDEX == 184      \* VID_ADDR >> 12
KERNEL    == 1        \* KER_ADDR >> 22

ASSUME ProcessAssumption == MaxProcesses \in 1..511
ASSUME IndexAssumption ==
  /\ \A i \in DirIndex \cup TableIndex : i \in Nat /\ i < 1024
  /\ {0, KERNEL, PRO_ADDR, USER_VMEM} \subseteq DirIndex
  /\ VID_INDEX \in TableIndex

VARIABLES
  pc,               \* where the kernel is, or "user"
  page_directory,
  page_table,       \* page_table_0 and page_table_1
  cr3,              \* whether CR3 holds the directory
  pse, pge, pg,     \* the bits of CR4 and CR0 that init_paging sets
  tlb,              \* the translations the processor has cached
  process_number,
  old_phys_addr,    \* that field of each PCB
  screen_start      \* per process, the page that vidmap gave it

vars == <<pc, page_directory, page_table, cr3, pse, pge, pg, tlb, process_number,
          old_phys_addr, screen_start>>

control == <<cr3, pse, pge, pg>>

\* Depths of nesting, the PCBs, and the depths at which programs run.
Depth == 0..MaxProcesses
Pcb == 0..(MaxProcesses - 1)
Child == 1..MaxProcesses

-----------------------------------------------------------------------------
(***************************************************************************)
(* Entries and their translation.                                          *)
(***************************************************************************)
Bit == {0, 1}
Base == 0..1023
DirEntry == [present : Bit, user : Bit, big : Bit, global : Bit, base : Base]
TableEntry == [present : Bit, user : Bit, base : Base]

clear_dir == [present |-> 0, user |-> 0, big |-> 0, global |-> 0, base |-> 0]
clear_table == [present |-> 0, user |-> 0, base |-> 0]

SmallPage(table, user) ==
  [present |-> 1, user |-> user, big |-> 0, global |-> 0, base |-> table]
BigPage(base, user, global) ==
  [present |-> 1, user |-> user, big |-> 1, global |-> global, base |-> base]

Page == DirIndex \X TableIndex
NoPage == <<-1, -1>>
Table == {0, 1}

None == [frame |-> -1, user |-> 0, global |-> 0]
\* A 4MB entry that is followed as if it named a table.
Garbage == [frame |-> -2, user |-> 1, global |-> 0]

\* What the processor makes of a page.
Walk(p) ==
  LET d == page_directory[p[1]]
  IN IF d.present = 0 THEN None
     ELSE IF d.big = 1 THEN
       IF pse THEN [frame |-> d.base * 1024 + p[2], user |-> d.user,
                    global |-> IF pge THEN d.global ELSE 0]
       ELSE Garbage
     ELSE LET t == page_table[d.base][p[2]]
          IN IF t.present = 0 THEN None
             ELSE [frame |-> t.base, user |-> IF d.user = 1 THEN t.user ELSE 0,
                   global |-> 0]

\* The processor caches a translation, or drops one.
Cache(p) ==
  /\ pg /\ Walk(p) # None
  /\ tlb' = [tlb EXCEPT ![p] = IF @ = None THEN Walk(p) ELSE @]
  /\ UNCHANGED <<pc, page_directory, page_table, control, process_number,
                 old_phys_addr, screen_start>>
Drop(p) ==
  /\ tlb[p] # None
  /\ tlb' = [tlb EXCEPT ![p] = None]
  /\ UNCHANGED <<pc, page_directory, page_table, control, process_number,
                 old_phys_addr, screen_start>>

\* The load of CR3 in lpdt.
Flush == tlb' = [p \in Page |-> IF tlb[p].global = 1 THEN tlb[p] ELSE None]

-----------------------------------------------------------------------------
(***************************************************************************)
(* init_paging.                                                            *)
(***************************************************************************)

\* The directory, and mutations of it: a program page that is global, and a
\* kernel page that programs may use.
DirectoryGlobal ==
  [i \in DirIndex |->
     CASE i = 0 -> SmallPage(0, 0)
       [] i = KERNEL -> BigPage(KERNEL, 0, 1)
       [] i = PRO_ADDR -> BigPage(0, 1, 1)
       [] i = USER_VMEM -> SmallPage(1, 1)
       [] OTHER -> clear_dir]
DirectoryOpen ==
  [i \in DirIndex |->
     CASE i = 0 -> SmallPage(0, 0)
       [] i = KERNEL -> BigPage(KERNEL, 1, 1)
       [] i = PRO_ADDR -> BigPage(0, 1, 0)
       [] i = USER_VMEM -> SmallPage(1, 1)
       [] OTHER -> clear_dir]
InitialDirectory ==
  [i \in DirIndex |->
     CASE i = 0 -> SmallPage(0, 0)
       [] i = KERNEL -> BigPage(KERNEL, 0, 1)
       [] i = PRO_ADDR -> BigPage(0, 1, 0)
       [] i = USER_VMEM -> SmallPage(1, 1)
       [] OTHER -> clear_dir]

\* Both tables hold the page of video memory only, at its own address.
\* TablesUnset leaves out the base address of the second one.
TablesUnset ==
  [t \in Table |-> [i \in TableIndex |->
     IF i = VID_INDEX
       THEN [present |-> 1, user |-> t, base |-> IF t = 0 THEN VID_INDEX ELSE 0]
       ELSE clear_table]]
InitialTables ==
  [t \in Table |-> [i \in TableIndex |->
     IF i = VID_INDEX THEN [present |-> 1, user |-> t, base |-> VID_INDEX]
                      ELSE clear_table]]

BuildTables ==
  /\ pc = "init"
  /\ page_directory' = InitialDirectory
  /\ page_table' = InitialTables
  /\ pc' = "lpdt"
  /\ UNCHANGED <<control, tlb, process_number, old_phys_addr, screen_start>>

lpdt ==
  /\ pc = "lpdt"
  /\ cr3' = TRUE
  /\ Flush
  /\ pc' = "pse"
  /\ UNCHANGED <<page_directory, page_table, pse, pge, pg, process_number,
                 old_phys_addr, screen_start>>

\* PSENotSet leaves the bit alone.
PSENotSet ==
  /\ pc = "pse"
  /\ pc' = "pge"
  /\ UNCHANGED <<page_directory, page_table, control, tlb, process_number,
                 old_phys_addr, screen_start>>
enablePSE ==
  /\ pc = "pse"
  /\ pse' = TRUE
  /\ pc' = "pge"
  /\ UNCHANGED <<page_directory, page_table, cr3, pge, pg, tlb, process_number,
                 old_phys_addr, screen_start>>

enablePGE ==
  /\ pc = "pge"
  /\ pge' = TRUE
  /\ pc' = "pg"
  /\ UNCHANGED <<page_directory, page_table, cr3, pse, pg, tlb, process_number,
                 old_phys_addr, screen_start>>

enablePaging ==
  /\ pc = "pg"
  /\ pg' = TRUE
  /\ pc' = "boot"
  /\ UNCHANGED <<page_directory, page_table, cr3, pse, pge, tlb, process_number,
                 old_phys_addr, screen_start>>

-----------------------------------------------------------------------------
(***************************************************************************)
(* The queries, which read the directory at the address in CR3.            *)
(***************************************************************************)
NULL == [base |-> -1]

get_bigPage(i) ==
  IF i \in 0..1023 /\ page_directory[i].present = 1 THEN page_directory[i] ELSE NULL

get_pageTable_entry(i, j) ==
  IF i \in 0..1023 /\ j \in 0..1023 /\ page_directory[i].present = 1
     /\ page_table[page_directory[i].base][j].present = 1
    THEN page_table[page_directory[i].base][j]
    ELSE NULL

SetBase(base) == page_directory' = [page_directory EXCEPT ![PRO_ADDR].base = base]

\* The frame, in units of 4MB, of the process at a depth; depth 0 is the
\* boot loop and has what init_paging entered.
PageFrame(n) == ((8 + n * 4) \div 4) % 1024
BaseAt(depth) == IF depth = 0 THEN 0 ELSE PageFrame(depth - 1)

-----------------------------------------------------------------------------
(***************************************************************************)
(* execute, halt and vidmap.                                               *)
(***************************************************************************)

\* The call, and the copy of the command out of the caller's page.
Execute ==
  /\ pc \in {"boot", "user"}
  /\ process_number < MaxProcesses
  /\ pc' = "execute"
  /\ UNCHANGED <<page_directory, page_table, control, tlb, process_number,
                 old_phys_addr, screen_start>>

\* A name that is not found, or no executable: an early return.
ExecuteFails ==
  /\ pc = "execute"
  /\ pc' = IF process_number = 0 THEN "boot" ELSE "user"
  /\ UNCHANGED <<page_directory, page_table, control, tlb, process_number,
                 old_phys_addr, screen_start>>

Remap ==
  /\ pc = "execute"
  /\ get_bigPage(PRO_ADDR) # NULL
  /\ old_phys_addr' = [old_phys_addr EXCEPT ![process_number] = get_bigPage(PRO_ADDR).base]
  /\ SetBase(PageFrame(process_number))
  /\ pc' = "remapped"
  /\ UNCHANGED <<page_table, control, tlb, process_number, screen_start>>

ExecuteFlush ==
  /\ pc = "remapped"
  /\ Flush
  /\ pc' = "load"
  /\ UNCHANGED <<page_directory, page_table, control, process_number,
                 old_phys_addr, screen_start>>

\* read_data into the program page, and the iret into it.
LoadAndEnter ==
  /\ pc = "load"
  /\ process_number' = process_number + 1
  /\ screen_start' = [screen_start EXCEPT ![process_number + 1] = NoPage]
  /\ pc' = "user"
  /\ UNCHANGED <<page_directory, page_table, control, tlb, old_phys_addr>>

\* sys_halt_c, by the call or by an exception.
Halt ==
  /\ pc = "user"
  /\ get_bigPage(PRO_ADDR) # NULL
  /\ process_number' = process_number - 1
  /\ SetBase(old_phys_addr[process_number - 1])
  /\ pc' = "restored"
  /\ UNCHANGED <<page_table, control, tlb, old_phys_addr, screen_start>>

HaltFlush ==
  /\ pc = "restored"
  /\ Flush
  /\ pc' = IF process_number = 0 THEN "boot" ELSE "user"
  /\ UNCHANGED <<page_directory, page_table, control, process_number,
                 old_phys_addr, screen_start>>

\* sys_vidmap_c with a pointer into the program page, the use it is meant for;
\* a null pointer, or one below 4MB, is refused and changes nothing.
sys_vidmap ==
  /\ pc = "user"
  /\ get_pageTable_entry(USER_VMEM, VID_INDEX) # NULL
  /\ screen_start' = [screen_start EXCEPT ![process_number] = <<USER_VMEM, VID_INDEX>>]
  /\ UNCHANGED <<pc, page_directory, page_table, control, tlb, process_number,
                 old_phys_addr>>

-----------------------------------------------------------------------------
\* The zeroed tables of the kernel image, and paging off.
Init ==
  /\ pc = "init"
  /\ page_directory = [i \in DirIndex |-> clear_dir]
  /\ page_table = [t \in Table |-> [i \in TableIndex |-> clear_table]]
  /\ cr3 = FALSE /\ pse = FALSE /\ pge = FALSE /\ pg = FALSE
  /\ tlb = [p \in Page |-> None]
  /\ process_number = 0
  /\ old_phys_addr = [n \in Pcb |-> 0]
  /\ screen_start = [n \in Child |-> NoPage]

InitPaging == BuildTables \/ lpdt \/ enablePSE \/ enablePGE \/ enablePaging

Process ==
  \/ Execute \/ ExecuteFails \/ Remap \/ ExecuteFlush \/ LoadAndEnter
  \/ Halt \/ HaltFlush
  \/ sys_vidmap

Next == InitPaging \/ Process \/ \E p \in Page : Cache(p) \/ Drop(p)

Spec == Init /\ [][Next]_vars

-----------------------------------------------------------------------------
(***************************************************************************)
(* Properties.                                                             *)
(***************************************************************************)
Translation == [frame : Int, user : Bit, global : Bit]

\* Every variable keeps its range, the bit fields of the entries included.
TypeOK ==
  /\ pc \in {"init", "lpdt", "pse", "pge", "pg", "boot", "user", "execute",
             "remapped", "load", "restored"}
  /\ page_directory \in [DirIndex -> DirEntry]
  /\ page_table \in [Table -> [TableIndex -> TableEntry]]
  /\ cr3 \in BOOLEAN /\ pse \in BOOLEAN /\ pge \in BOOLEAN /\ pg \in BOOLEAN
  /\ tlb \in [Page -> Translation]
  /\ process_number \in Depth
  /\ old_phys_addr \in [Pcb -> Base]
  /\ screen_start \in [Child -> Page \cup {NoPage}]

\* What an access to a page may reach: the cached translation, and if there
\* is none the one in the tables.
Reach(p) == IF tlb[p] # None THEN tlb[p] ELSE Walk(p)

KernelPages == {p \in Page : p[1] = KERNEL}
ProgramPages == {p \in Page : p[1] = PRO_ADDR}

\* From the instruction after enablePaging on, and inside every step of
\* execute and halt, the kernel and the video memory it prints to are where
\* they were before paging, and no translation of the kernel was followed
\* before 4MB pages were on.
KernelStays ==
  pg => /\ cr3
        /\ \A p \in KernelPages : Reach(p).frame = KERNEL * 1024 + p[2]
        /\ Reach(<<0, VID_INDEX>>).frame = VID_INDEX

\* The depth of the process whose memory the kernel or the program works on
\* through the program page.
Owner == IF pc = "load" THEN process_number + 1 ELSE process_number

\* Whoever uses the program page (a program, execute when it copies the
\* command, read_data when it loads) reaches the frame of its own process,
\* although the mapping changes under cached translations.
ProgramReached ==
  pc \in {"user", "execute", "load"} /\ Owner > 0 =>
    \A p \in ProgramPages : Reach(p).frame = BaseAt(Owner) * 1024 + p[2]

\* While a program runs, all that it can reach is its own 4MB and the page of
\* video memory: nothing of the kernel, of its ancestors or of page 0.
OnlyOwnMemory ==
  pc = "user" =>
    \A p \in Page :
      Reach(p) # None /\ Reach(p).user = 1 =>
        \/ Reach(p).frame = VID_INDEX
        \/ Reach(p).frame \div 1024 = BaseAt(process_number)

\* The address that vidmap gave a program shows the screen as long as the
\* program lives, through every execute and halt of its descendants.
VidmapShows ==
  pc = "user" =>
    \A n \in 1..process_number :
      screen_start[n] # NoPage =>
        Reach(screen_start[n]).frame = VID_INDEX /\ Reach(screen_start[n]).user = 1
=============================================================================
