---------------------------- MODULE PagingProofs ----------------------------
(***************************************************************************)
(* Proofs about Paging, for any number of processes and any set of pages.  *)
(*                                                                         *)
(* The inductive invariant says what the tables hold at each point (only   *)
(* the base of the program page ever changes, and it is the one of the     *)
(* process that pc and process_number name), and that a cached translation *)
(* is the one in the tables, except for the program page between a remap   *)
(* and the load of CR3 that follows it.                                    *)
(***************************************************************************)
EXTENDS Paging, TLAPS

Booting == {"init", "lpdt", "pse", "pge", "pg"}
Stale == {"remapped", "restored"}

base == page_directory[PRO_ADDR].base

\* The translation of a page once paging is on and the program page is at b.
Expected(p, b) ==
  IF p[1] = KERNEL THEN [frame |-> 1024 + p[2], user |-> 0, global |-> 1]
  ELSE IF p[1] = PRO_ADDR THEN [frame |-> b * 1024 + p[2], user |-> 1, global |-> 0]
  ELSE IF p[1] = 0 /\ p[2] = VID_INDEX
    THEN [frame |-> VID_INDEX, user |-> 0, global |-> 0]
  ELSE IF p[1] = USER_VMEM /\ p[2] = VID_INDEX
    THEN [frame |-> VID_INDEX, user |-> 1, global |-> 0]
  ELSE None

\* The tables, from init_paging on.
TablesKept ==
  pc # "init" =>
    /\ page_table = InitialTables
    /\ page_directory = [InitialDirectory EXCEPT ![PRO_ADDR].base = base]

\* How far init_paging has come.
Stages ==
  /\ cr3 <=> pc \notin {"init", "lpdt"}
  /\ pse <=> pc \notin {"init", "lpdt", "pse"}
  /\ pge <=> pc \notin {"init", "lpdt", "pse", "pge"}
  /\ pg <=> pc \notin Booting

\* Who is live at each point, and where the program page is.
Depths ==
  /\ pc \in Booting \cup {"boot"} => process_number = 0
  /\ pc = "user" => process_number > 0
  /\ pc \in {"execute", "remapped", "load", "restored"} => process_number < MaxProcesses
  /\ base = IF pc \in {"remapped", "load"} THEN BaseAt(process_number + 1)
                                           ELSE BaseAt(process_number)

\* The saved addresses.
SavedBases ==
  /\ \A n \in Pcb : n < process_number => old_phys_addr[n] = BaseAt(n)
  /\ pc \in {"remapped", "load"} => old_phys_addr[process_number] = BaseAt(process_number)

\* Cached translations.
CacheSound ==
  \A p \in Page :
    \/ tlb[p] = None
    \/ pc \notin Booting /\ tlb[p] = Expected(p, base)
    \/ pc \in Stale /\ p[1] = PRO_ADDR /\ tlb[p].global = 0

ScreenKnown ==
  \A n \in Child : screen_start[n] \in {NoPage, <<USER_VMEM, VID_INDEX>>}

IInv == TypeOK /\ TablesKept /\ Stages /\ Depths /\ SavedBases /\ CacheSound /\ ScreenKnown

-----------------------------------------------------------------------------
(***************************************************************************)
(* Facts about the definitions.                                            *)
(***************************************************************************)

\* The ranges of depths and of base addresses, as inequalities.
LEMMA Ranges ==
  /\ \A n : n \in Depth <=> n \in Nat /\ n <= MaxProcesses
  /\ \A n : n \in Pcb <=> n \in Nat /\ n < MaxProcesses
  /\ \A n : n \in Child <=> n \in Nat /\ n > 0 /\ n <= MaxProcesses
  /\ \A n : n \in Base <=> n \in Nat /\ n < 1024
  /\ MaxProcesses \in Nat /\ MaxProcesses > 0 /\ MaxProcesses < 512
<1>1. MaxProcesses \in Nat /\ MaxProcesses > 0 /\ MaxProcesses < 512
  BY ProcessAssumption
<1>2. \A n : n \in Depth <=> n \in Nat /\ n <= MaxProcesses
  BY <1>1 DEF Depth
<1>3. \A n : n \in Pcb <=> n \in Nat /\ n < MaxProcesses
  BY <1>1 DEF Pcb
<1>4. \A n : n \in Child <=> n \in Nat /\ n > 0 /\ n <= MaxProcesses
  BY <1>1 DEF Child
<1>5. \A n : n \in Base <=> n \in Nat /\ n < 1024
  <2>1. ASSUME NEW n \in Base PROVE n \in Nat /\ n < 1024
    BY DEF Base
  <2>2. ASSUME NEW n \in Nat, n < 1024 PROVE n \in Base
    <3>1. n \in Int /\ 0 <= n /\ n <= 1023
      BY <2>2
    <3> QED BY <3>1 DEF Base
  <2> QED BY <2>1, <2>2
<1> QED
  BY <1>1, <1>2, <1>3, <1>4, <1>5

\* The base addresses that init_paging writes are 10-bit numbers.
LEMMA BaseNumbers == 0 \in Base /\ 1 \in Base /\ KERNEL \in Base /\ VID_INDEX \in Base
BY Ranges DEF KERNEL, VID_INDEX

\* The process at depth n has the 4MB frame n + 1, a 10-bit number.
LEMMA BaseValue ==
  ASSUME NEW n \in Nat, n <= MaxProcesses
  PROVE  /\ BaseAt(n) = IF n = 0 THEN 0 ELSE n + 1
         /\ BaseAt(n) \in Base
<1>1. n <= 511
  BY Ranges
<1>2. CASE n = 0
  BY Ranges, <1>2 DEF BaseAt
<1>3. CASE n # 0
  <2>1. PageFrame(n - 1) = n + 1
    BY <1>1, <1>3 DEF PageFrame
  <2> QED
    BY Ranges, <2>1, <1>1, <1>3 DEF BaseAt
<1> QED
  BY <1>2, <1>3

\* A translation has its type, and is never mistaken for a missing one.
LEMMA ExpectedType ==
  ASSUME NEW p \in Page, NEW b \in Base
  PROVE  /\ Expected(p, b) \in Translation
         /\ Expected(p, b).global = 1 => p[1] = KERNEL
<1>1. p[2] \in TableIndex
  BY DEF Page
<1>2. p[2] \in Nat
  BY <1>1, IndexAssumption
<1>3. b * 1024 + p[2] \in Int /\ 1024 + p[2] \in Int
  BY Ranges, <1>2
<1>4. CASE p[1] = KERNEL
  BY <1>3, <1>4 DEF Expected, Translation, Bit
<1>5. CASE p[1] # KERNEL
  <2>1. Expected(p, b) \in Translation
    BY <1>3, <1>5 DEF Expected, Translation, None, Bit, VID_INDEX
  <2>2. Expected(p, b).global = 0
    BY <1>5 DEF Expected, None
  <2> QED
    BY <2>1, <2>2
<1> QED
  BY <1>4, <1>5

\* Each entry of the directory, from init_paging on.
LEMMA DirectoryEntries ==
  ASSUME IInv, pc # "init"
  PROVE  /\ page_directory[0] = SmallPage(0, 0)
         /\ page_directory[KERNEL] = BigPage(KERNEL, 0, 1)
         /\ page_directory[PRO_ADDR] = BigPage(base, 1, 0)
         /\ page_directory[USER_VMEM] = SmallPage(1, 1)
         /\ \A i \in DirIndex \ {0, KERNEL, PRO_ADDR, USER_VMEM} :
              page_directory[i] = clear_dir
<1> DEFINE b == base
<1>1. page_directory = [InitialDirectory EXCEPT ![PRO_ADDR].base = b]
  BY DEF IInv, TablesKept
<1> HIDE DEF b
<1>2. InitialDirectory[PRO_ADDR] = BigPage(0, 1, 0)
  BY IndexAssumption DEF InitialDirectory, KERNEL, PRO_ADDR, USER_VMEM
<1>3. page_directory[PRO_ADDR] = [BigPage(0, 1, 0) EXCEPT !.base = b]
  BY <1>1, <1>2, IndexAssumption DEF InitialDirectory
<1>4. page_directory[PRO_ADDR] = BigPage(b, 1, 0)
  BY <1>3 DEF BigPage
<1>5. \A i \in DirIndex \ {PRO_ADDR} : page_directory[i] = InitialDirectory[i]
  BY <1>1 DEF InitialDirectory
<1>6. /\ page_directory[0] = SmallPage(0, 0)
      /\ page_directory[KERNEL] = BigPage(KERNEL, 0, 1)
      /\ page_directory[USER_VMEM] = SmallPage(1, 1)
  BY <1>5, IndexAssumption DEF InitialDirectory, KERNEL, PRO_ADDR, USER_VMEM
<1>7. \A i \in DirIndex \ {0, KERNEL, PRO_ADDR, USER_VMEM} : page_directory[i] = clear_dir
  BY <1>5 DEF InitialDirectory
<1> QED
  BY <1>4, <1>6, <1>7 DEF b

\* Once paging is on the processor finds the expected translation.
LEMMA WalkExpected ==
  ASSUME IInv, pg, NEW p \in Page
  PROVE  Walk(p) = Expected(p, base)
<1>1. pc # "init" /\ pse /\ pge
  BY DEF IInv, Stages, Booting
<1>2. page_table = InitialTables
  BY <1>1 DEF IInv, TablesKept
<1>3. p[1] \in DirIndex /\ p[2] \in TableIndex
  BY DEF Page
<1>4. \A t \in Table : page_table[t][p[2]] =
         IF p[2] = VID_INDEX THEN [present |-> 1, user |-> t, base |-> VID_INDEX]
                             ELSE clear_table
  BY <1>2, <1>3 DEF InitialTables
<1>5. CASE p[1] = KERNEL
  BY <1>1, <1>5, DirectoryEntries DEF Walk, Expected, BigPage, KERNEL
<1>6. CASE p[1] = PRO_ADDR
  <2>1. page_directory[p[1]] = BigPage(base, 1, 0)
    BY <1>1, <1>6, DirectoryEntries
  <2> QED
    BY <1>1, <1>6, <2>1 DEF Walk, Expected, BigPage, KERNEL, PRO_ADDR
<1>7. CASE p[1] = 0
  <2>1. page_directory[p[1]] = SmallPage(0, 0)
    BY <1>1, <1>7, DirectoryEntries
  <2> QED
    BY <1>4, <1>7, <2>1
    DEF Walk, Expected, SmallPage, clear_table, Table, KERNEL, PRO_ADDR, USER_VMEM
<1>8. CASE p[1] = USER_VMEM
  <2>1. page_directory[p[1]] = SmallPage(1, 1)
    BY <1>1, <1>8, DirectoryEntries
  <2> QED
    BY <1>4, <1>8, <2>1
    DEF Walk, Expected, SmallPage, clear_table, Table, KERNEL, PRO_ADDR, USER_VMEM
<1>9. CASE p[1] \notin {0, KERNEL, PRO_ADDR, USER_VMEM}
  <2>1. page_directory[p[1]] = clear_dir
    BY <1>1, <1>3, <1>9, DirectoryEntries
  <2> QED
    BY <1>9, <2>1 DEF Walk, Expected, clear_dir, None
<1> QED
  BY <1>5, <1>6, <1>7, <1>8, <1>9

\* The load of CR3 leaves no stale translation.
LEMMA FlushSound ==
  ASSUME IInv, Flush, NEW p \in Page
  PROVE  /\ tlb'[p] = None \/ (pc \notin Booting /\ tlb'[p] = Expected(p, base))
         /\ tlb'[p] \in Translation
<1>1. tlb'[p] = IF tlb[p].global = 1 THEN tlb[p] ELSE None
  BY DEF Flush
<1>2. \/ tlb[p] = None
      \/ pc \notin Booting /\ tlb[p] = Expected(p, base)
      \/ tlb[p].global = 0
  BY DEF IInv, CacheSound
<1>3. None \in Translation
  BY DEF None, Translation, Bit
<1>4. tlb[p] \in Translation
  BY DEF IInv, TypeOK
<1>5. None.global = 0
  BY DEF None
<1> QED
  BY <1>1, <1>2, <1>3, <1>4, <1>5

-----------------------------------------------------------------------------
(***************************************************************************)
(* The invariant is preserved.                                             *)
(***************************************************************************)

\* The initial state satisfies the invariant.
LEMMA InitInvariant == Init => IInv
<1> SUFFICES ASSUME Init PROVE IInv
  OBVIOUS
<1>1. page_directory \in [DirIndex -> DirEntry]
  BY BaseNumbers DEF Init, DirEntry, clear_dir, Bit
<1>2. page_table \in [Table -> [TableIndex -> TableEntry]]
  BY BaseNumbers DEF Init, TableEntry, clear_table, Bit
<1>3. tlb \in [Page -> Translation]
  BY DEF Init, Translation, None, Bit
<1>4. TypeOK
  <2>1. 0 \in Depth /\ 0 \in Base
    BY Ranges
  <2>2. old_phys_addr \in [Pcb -> Base]
    BY <2>1 DEF Init
  <2>3. screen_start \in [Child -> Page \cup {NoPage}]
    BY DEF Init
  <2> QED
    BY <1>1, <1>2, <1>3, <2>1, <2>2, <2>3 DEF Init, TypeOK
<1>5. base = 0
  BY IndexAssumption DEF Init, clear_dir, base
<1>6. TablesKept /\ Stages
  BY DEF Init, TablesKept, Stages, Booting
<1>7. Depths
  BY <1>5 DEF Init, Depths, BaseAt, Booting
<1>8. SavedBases /\ CacheSound /\ ScreenKnown
  BY Ranges DEF Init, SavedBases, CacheSound, ScreenKnown
<1> QED
  BY <1>4, <1>6, <1>7, <1>8 DEF IInv

\* init_paging builds the tables and turns paging on.
LEMMA InitPagingStep == IInv /\ InitPaging => IInv'
<1> SUFFICES ASSUME IInv, InitPaging PROVE IInv'
  OBVIOUS
<1> USE DEF IInv
<1>1. CASE BuildTables
  <2> USE <1>1 DEF BuildTables, control
  <2>1. page_directory' \in [DirIndex -> DirEntry]
    BY BaseNumbers DEF InitialDirectory, DirEntry, SmallPage, BigPage, clear_dir, Bit, KERNEL
  <2>2. page_table' \in [Table -> [TableIndex -> TableEntry]]
    BY BaseNumbers DEF InitialTables, TableEntry, clear_table, Bit, Table, VID_INDEX
  <2>3. TypeOK'
    BY <2>1, <2>2 DEF TypeOK
  <2>4. InitialDirectory[PRO_ADDR] = BigPage(0, 1, 0)
    BY IndexAssumption DEF InitialDirectory, KERNEL, PRO_ADDR, USER_VMEM
  <2>5. base' = 0 /\ InitialDirectory[PRO_ADDR].base = 0
    BY <2>4 DEF BigPage, base
  <2>6. InitialDirectory = [InitialDirectory EXCEPT ![PRO_ADDR].base = 0]
    BY <2>4, <2>5 DEF InitialDirectory, BigPage
  <2>7. TablesKept'
    BY <2>5, <2>6 DEF TablesKept
  <2>8. Stages'
    BY DEF Stages, Booting
  <2>9. Depths'
    BY <2>5 DEF Depths, BaseAt, Booting
  <2>10. SavedBases' /\ ScreenKnown'
    BY DEF SavedBases, ScreenKnown, Depths, Booting, TypeOK
  <2>11. CacheSound'
    BY DEF CacheSound, Booting, Stale
  <2> QED
    BY <2>3, <2>7, <2>8, <2>9, <2>10, <2>11
<1>2. CASE lpdt
  <2> USE <1>2 DEF lpdt
  <2>1. tlb' \in [Page -> Translation]
    BY FlushSound DEF Flush
  <2>2. TypeOK'
    BY <2>1 DEF TypeOK
  <2>3. CacheSound'
    BY FlushSound DEF CacheSound, Booting
  <2>4. base' = base
    BY DEF base
  <2>4a. TablesKept' /\ Depths'
    BY <2>4 DEF TablesKept, Depths, Booting
  <2>4b. Stages'
    BY DEF Stages, Booting
  <2>5. SavedBases' /\ ScreenKnown'
    BY DEF SavedBases, ScreenKnown
  <2> QED
    BY <2>2, <2>3, <2>4a, <2>4b, <2>5
<1>3. CASE enablePSE
  <2> USE <1>3 DEF enablePSE
  <2>1. TypeOK'
    BY DEF TypeOK
  <2>2. base' = base
    BY DEF base
  <2>2a. TablesKept' /\ Depths'
    BY <2>2 DEF TablesKept, Depths, Booting
  <2>2b. Stages'
    BY DEF Stages, Booting
  <2>3. SavedBases' /\ ScreenKnown' /\ CacheSound'
    BY DEF SavedBases, ScreenKnown, CacheSound, Booting, Stale
  <2> QED
    BY <2>1, <2>2a, <2>2b, <2>3
<1>4. CASE enablePGE
  <2> USE <1>4 DEF enablePGE
  <2>1. TypeOK'
    BY DEF TypeOK
  <2>2. base' = base
    BY DEF base
  <2>2a. TablesKept' /\ Depths'
    BY <2>2 DEF TablesKept, Depths, Booting
  <2>2b. Stages'
    BY DEF Stages, Booting
  <2>3. SavedBases' /\ ScreenKnown' /\ CacheSound'
    BY DEF SavedBases, ScreenKnown, CacheSound, Booting, Stale
  <2> QED
    BY <2>1, <2>2a, <2>2b, <2>3
<1>5. CASE enablePaging
  <2> USE <1>5 DEF enablePaging
  <2>1. TypeOK'
    BY DEF TypeOK
  <2>2. base' = base
    BY DEF base
  <2>2a. TablesKept' /\ Depths'
    BY <2>2 DEF TablesKept, Depths, Booting
  <2>2b. Stages'
    BY DEF Stages, Booting
  <2>3. SavedBases' /\ ScreenKnown' /\ CacheSound'
    BY DEF SavedBases, ScreenKnown, CacheSound, Booting, Stale
  <2> QED
    BY <2>1, <2>2a, <2>2b, <2>3
<1> QED
  BY <1>1, <1>2, <1>3, <1>4, <1>5 DEF InitPaging

\* A step that leaves the tables, the depth and the cache alone and moves
\* between points with the same address space keeps everything else.
LEMMA SameSpace ==
  ASSUME IInv, UNCHANGED <<page_directory, page_table, control, process_number, old_phys_addr>>,
         pc \notin Booting, pc' \notin Booting
  PROVE  TablesKept' /\ Stages' /\ base' = base
<1>1. base' = base
  BY DEF base
<1>2. TablesKept'
  BY <1>1 DEF IInv, TablesKept, Booting
<1>3. Stages'
  BY DEF IInv, Stages, Booting, control
<1> QED
  BY <1>1, <1>2, <1>3

\* A change of the base of the program page leaves the rest of the tables.
LEMMA SetBaseKeeps ==
  ASSUME IInv, pc \notin Booting, pc' \notin Booting, NEW b \in Base, SetBase(b),
         UNCHANGED <<page_table, control>>
  PROVE  /\ base' = b
         /\ page_directory' \in [DirIndex -> DirEntry]
         /\ TablesKept'
         /\ Stages'
<1>1. page_directory \in [DirIndex -> DirEntry] /\ PRO_ADDR \in DirIndex
  BY IndexAssumption DEF IInv, TypeOK
<1>2. page_directory' = [page_directory EXCEPT ![PRO_ADDR].base = b]
  BY DEF SetBase
<1>3. page_directory'[PRO_ADDR] = [page_directory[PRO_ADDR] EXCEPT !.base = b]
  BY <1>1, <1>2
<1>4. page_directory[PRO_ADDR] \in DirEntry
  BY <1>1
<1>5. base' = b /\ page_directory'[PRO_ADDR] \in DirEntry
  BY <1>3, <1>4 DEF base, DirEntry
<1>6. page_directory' \in [DirIndex -> DirEntry]
  BY <1>1, <1>2, <1>5
<1> DEFINE old == base
<1>7. page_directory = [InitialDirectory EXCEPT ![PRO_ADDR].base = old]
  BY DEF IInv, TablesKept, Booting
<1> HIDE DEF old
<1>8. page_directory' = [InitialDirectory EXCEPT ![PRO_ADDR].base = b]
  <2> DEFINE D == InitialDirectory
  <2>1. D[PRO_ADDR] = BigPage(0, 1, 0)
    BY IndexAssumption DEF InitialDirectory, KERNEL, PRO_ADDR, USER_VMEM
  <2>2. D = [i \in DirIndex |-> D[i]]
    BY DEF InitialDirectory
  <2> HIDE DEF D
  <2>3. page_directory[PRO_ADDR] = [BigPage(0, 1, 0) EXCEPT !.base = old]
    BY <1>1, <1>7, <2>1, <2>2 DEF D
  <2>a. page_directory[PRO_ADDR] = BigPage(old, 1, 0)
    BY <2>3 DEF BigPage
  <2>b. [BigPage(old, 1, 0) EXCEPT !.base = b] = BigPage(b, 1, 0)
    BY DEF BigPage
  <2>4. [page_directory[PRO_ADDR] EXCEPT !.base = b] = BigPage(b, 1, 0)
    BY <2>a, <2>b
  <2>5. [D[PRO_ADDR] EXCEPT !.base = b] = BigPage(b, 1, 0)
    BY <2>1 DEF BigPage
  <2>6. page_directory' = [page_directory EXCEPT ![PRO_ADDR] = BigPage(b, 1, 0)]
    BY <1>2, <2>4
  <2>7. [D EXCEPT ![PRO_ADDR].base = b] = [D EXCEPT ![PRO_ADDR] = BigPage(b, 1, 0)]
    BY <2>5
  <2>8. page_directory' = [D EXCEPT ![PRO_ADDR] = BigPage(b, 1, 0)]
    BY <1>1, <1>7, <2>2, <2>6 DEF D
  <2> QED
    BY <2>7, <2>8 DEF D
<1>9. TablesKept'
  BY <1>5, <1>8 DEF IInv, TablesKept, Booting
<1>10. Stages'
  BY DEF IInv, Stages, Booting, control
<1> QED
  BY <1>5, <1>6, <1>9, <1>10

\* Only the translation of the program page depends on its base.
LEMMA ExpectedElsewhere ==
  ASSUME NEW p, NEW b, NEW c, p[1] # PRO_ADDR
  PROVE  Expected(p, b) = Expected(p, c)
BY DEF Expected

\* After a remap the cache is sound but for the program page.
LEMMA RemapSound ==
  ASSUME IInv, pc \notin Booting, pc' \in Stale, pc \notin Stale, UNCHANGED tlb
  PROVE  CacheSound'
<1> SUFFICES ASSUME NEW p \in Page
             PROVE  \/ tlb'[p] = None
                    \/ pc' \notin Booting /\ tlb'[p] = Expected(p, base')
                    \/ pc' \in Stale /\ p[1] = PRO_ADDR /\ tlb'[p].global = 0
  BY DEF CacheSound
<1>1. tlb[p] = None \/ tlb[p] = Expected(p, base)
  BY DEF IInv, CacheSound
<1>2. CASE p[1] = PRO_ADDR
  <2>1. Expected(p, base).global = 0
    BY <1>2 DEF Expected, KERNEL, PRO_ADDR
  <2> QED
    BY <1>1, <1>2, <2>1
<1>3. CASE p[1] # PRO_ADDR
  <2>1. Expected(p, base) = Expected(p, base')
    BY <1>3, ExpectedElsewhere
  <2> QED
    BY <1>1, <2>1 DEF Stale, Booting
<1> QED
  BY <1>2, <1>3

\* execute, halt and vidmap preserve the invariant.
LEMMA ProcessStep == IInv /\ Process => IInv'
<1> SUFFICES ASSUME IInv, Process PROVE IInv'
  OBVIOUS
<1>0. pc \notin Booting /\ process_number \in Nat /\ process_number <= MaxProcesses
  BY Ranges DEF IInv, TypeOK, Booting, Process, Execute, ExecuteFails, Remap,
     ExecuteFlush, LoadAndEnter, Halt, HaltFlush, sys_vidmap
<1>1. CASE Execute
  <2> USE <1>1 DEF Execute
  <2>1. TablesKept' /\ Stages' /\ base' = base
    BY <1>0, SameSpace DEF Booting
  <2>2. TypeOK'
    BY DEF IInv, TypeOK, control
  <2>3. Depths'
    BY <2>1 DEF IInv, Depths, BaseAt, Booting
  <2>4. SavedBases' /\ ScreenKnown'
    BY DEF IInv, SavedBases, ScreenKnown, BaseAt
  <2>5. CacheSound'
    BY <1>0, <2>1 DEF IInv, CacheSound, Stale, Booting
  <2> QED
    BY <2>1, <2>2, <2>3, <2>4, <2>5 DEF IInv
<1>2. CASE ExecuteFails
  <2> USE <1>2 DEF ExecuteFails
  <2>1. TablesKept' /\ Stages' /\ base' = base
    BY <1>0, SameSpace DEF Booting
  <2>2. TypeOK'
    BY DEF IInv, TypeOK, control
  <2>3. Depths'
    BY <1>0, <2>1 DEF IInv, Depths, BaseAt, Booting
  <2>4. SavedBases' /\ ScreenKnown'
    BY DEF IInv, SavedBases, ScreenKnown, BaseAt
  <2>5. CacheSound'
    BY <1>0, <2>1 DEF IInv, CacheSound, Stale, Booting
  <2> QED
    BY <2>1, <2>2, <2>3, <2>4, <2>5 DEF IInv
<1>3. CASE Remap
  <2> USE <1>3 DEF Remap
  <2> DEFINE n == process_number
  <2>1. n \in Pcb /\ n + 1 <= MaxProcesses
    BY <1>0, Ranges DEF IInv, Depths
  <2>2. PageFrame(n) = BaseAt(n + 1)
    BY <1>0 DEF BaseAt
  <2>3. PageFrame(n) \in Base /\ BaseAt(n) \in Base
    BY <1>0, <2>1, <2>2, BaseValue
  <2>4. pc' \notin Booting
    BY DEF Booting
  <2>5. /\ base' = PageFrame(n)
        /\ page_directory' \in [DirIndex -> DirEntry]
        /\ TablesKept'
        /\ Stages'
    BY <1>0, <2>3, <2>4, SetBaseKeeps
  <2>6. get_bigPage(PRO_ADDR).base = base
    BY DEF get_bigPage, base
  <2>7. base = BaseAt(n)
    BY DEF IInv, Depths
  <2>8. old_phys_addr' = [old_phys_addr EXCEPT ![n] = BaseAt(n)]
    BY <2>6, <2>7
  <2>a. old_phys_addr' \in [Pcb -> Base]
    BY <2>3, <2>8 DEF IInv, TypeOK
  <2>9. TypeOK'
    BY <2>5, <2>a DEF IInv, TypeOK, control
  <2>10. Depths'
    BY <2>1, <2>2, <2>5 DEF IInv, Depths, Booting
  <2>11. SavedBases'
    BY <2>1, <2>8 DEF IInv, SavedBases, TypeOK, BaseAt
  <2>12. CacheSound'
    BY <1>0, RemapSound DEF Stale
  <2>13. ScreenKnown'
    BY DEF IInv, ScreenKnown
  <2> QED
    BY <2>5, <2>9, <2>10, <2>11, <2>12, <2>13 DEF IInv
<1>4. CASE ExecuteFlush
  <2> USE <1>4 DEF ExecuteFlush
  <2>1. TablesKept' /\ Stages' /\ base' = base
    BY <1>0, SameSpace DEF Booting
  <2>2. tlb' \in [Page -> Translation]
    BY FlushSound DEF Flush
  <2>3. TypeOK'
    BY <2>2 DEF IInv, TypeOK, control
  <2>4. Depths'
    BY <2>1 DEF IInv, Depths, BaseAt, Booting
  <2>5. SavedBases' /\ ScreenKnown'
    BY DEF IInv, SavedBases, ScreenKnown, BaseAt
  <2>6. CacheSound'
    BY <2>1, FlushSound DEF CacheSound, Booting
  <2> QED
    BY <2>1, <2>3, <2>4, <2>5, <2>6 DEF IInv
<1>5. CASE LoadAndEnter
  <2> USE <1>5 DEF LoadAndEnter
  <2>1. /\ process_number + 1 \in Depth
        /\ process_number + 1 \in Child
        /\ process_number \in Pcb
    BY <1>0, Ranges DEF IInv, Depths
  <2>2. base' = base /\ TablesKept'
    BY <1>0 DEF IInv, TablesKept, Booting, base
  <2>3. Stages'
    BY DEF IInv, Stages, Booting, control
  <2>4. screen_start' \in [Child -> Page \cup {NoPage}]
    BY <2>1 DEF IInv, TypeOK
  <2>5. TypeOK'
    BY <2>1, <2>4 DEF IInv, TypeOK, control
  <2>6. Depths'
    BY <1>0, <2>1, <2>2 DEF IInv, Depths, Booting
  <2>7. SavedBases'
    BY <1>0, <2>1 DEF IInv, SavedBases, BaseAt
  <2>8. ScreenKnown'
    BY <2>1 DEF IInv, ScreenKnown, TypeOK
  <2>9. CacheSound'
    BY <1>0, <2>2 DEF IInv, CacheSound, Stale, Booting
  <2> QED
    BY <2>2, <2>3, <2>5, <2>6, <2>7, <2>8, <2>9 DEF IInv
<1>6. CASE Halt
  <2> USE <1>6 DEF Halt
  <2> DEFINE n == process_number - 1
  <2>1. n \in Pcb /\ n \in Depth /\ n < process_number /\ n < MaxProcesses
    BY <1>0, Ranges DEF IInv, Depths
  <2>2. old_phys_addr[n] = BaseAt(n)
    BY <2>1 DEF IInv, SavedBases
  <2>3. BaseAt(n) \in Base
    BY <2>1, BaseValue, Ranges
  <2>4. pc' \notin Booting
    BY DEF Booting
  <2>5. /\ base' = BaseAt(n)
        /\ page_directory' \in [DirIndex -> DirEntry]
        /\ TablesKept'
        /\ Stages'
    BY <1>0, <2>2, <2>3, <2>4, SetBaseKeeps
  <2>6. TypeOK'
    BY <2>1, <2>5 DEF IInv, TypeOK, control
  <2>7. Depths'
    BY <2>1, <2>5 DEF IInv, Depths, Booting
  <2>8. SavedBases'
    BY Ranges, <1>0, <2>1 DEF IInv, SavedBases, BaseAt
  <2>9. CacheSound'
    BY <1>0, RemapSound DEF Stale
  <2>10. ScreenKnown'
    BY DEF IInv, ScreenKnown
  <2> QED
    BY <2>5, <2>6, <2>7, <2>8, <2>9, <2>10 DEF IInv
<1>7. CASE HaltFlush
  <2> USE <1>7 DEF HaltFlush
  <2>1. TablesKept' /\ Stages' /\ base' = base
    BY <1>0, SameSpace DEF Booting
  <2>2. tlb' \in [Page -> Translation]
    BY FlushSound DEF Flush
  <2>3. TypeOK'
    BY <2>2 DEF IInv, TypeOK, control
  <2>4. Depths'
    BY <1>0, <2>1 DEF IInv, Depths, BaseAt, Booting
  <2>5. SavedBases' /\ ScreenKnown'
    BY DEF IInv, SavedBases, ScreenKnown, BaseAt
  <2>6. CacheSound'
    BY <2>1, FlushSound DEF CacheSound, Booting
  <2> QED
    BY <2>1, <2>3, <2>4, <2>5, <2>6 DEF IInv
<1>8. CASE sys_vidmap
  <2> USE <1>8 DEF sys_vidmap
  <2>1. TablesKept' /\ Stages' /\ base' = base
    BY <1>0, SameSpace DEF Booting
  <2>2. process_number \in Child
    BY <1>0, Ranges DEF IInv, Depths
  <2>3. <<USER_VMEM, VID_INDEX>> \in Page
    BY IndexAssumption DEF Page
  <2>4. screen_start' \in [Child -> Page \cup {NoPage}]
    BY <2>2, <2>3 DEF IInv, TypeOK
  <2>5. TypeOK'
    BY <2>4 DEF IInv, TypeOK, control
  <2>6. Depths'
    BY <2>1 DEF IInv, Depths, BaseAt, Booting
  <2>7. SavedBases'
    BY DEF IInv, SavedBases, BaseAt
  <2>8. ScreenKnown'
    BY <2>2 DEF IInv, ScreenKnown, TypeOK
  <2>9. CacheSound'
    BY <2>1 DEF IInv, CacheSound
  <2> QED
    BY <2>1, <2>5, <2>6, <2>7, <2>8, <2>9 DEF IInv
<1> QED
  BY <1>1, <1>2, <1>3, <1>4, <1>5, <1>6, <1>7, <1>8 DEF Process

\* The processor's own steps preserve the invariant.
LEMMA CacheStep ==
  ASSUME IInv, NEW p \in Page, Cache(p) \/ Drop(p)
  PROVE  IInv'
<1>1. UNCHANGED <<pc, page_directory, page_table, control, process_number,
                  old_phys_addr, screen_start>>
  BY DEF Cache, Drop
<1>2. base' = base
  BY <1>1 DEF base
<1>3. TablesKept' /\ Depths'
  BY <1>1, <1>2 DEF IInv, TablesKept, Depths, BaseAt
<1>4. Stages'
  BY <1>1 DEF IInv, Stages, control
<1>5. SavedBases' /\ ScreenKnown'
  BY <1>1 DEF IInv, SavedBases, ScreenKnown, BaseAt
<1>6. /\ tlb' = [tlb EXCEPT ![p] = tlb'[p]]
      /\ \/ tlb'[p] \in {None, tlb[p]}
         \/ pc \notin Booting /\ tlb'[p] = Expected(p, base)
  <2>1. CASE Drop(p)
    BY <2>1 DEF Drop, IInv, TypeOK
  <2>2. CASE Cache(p)
    <3>1. pg /\ pc \notin Booting
      BY <2>2 DEF Cache, IInv, Stages
    <3>2. Walk(p) = Expected(p, base)
      BY <3>1, WalkExpected
    <3>3. tlb' = [tlb EXCEPT ![p] = IF tlb[p] = None THEN Expected(p, base) ELSE tlb[p]]
      BY <2>2, <3>2 DEF Cache
    <3> QED
      BY <3>1, <3>3 DEF IInv, TypeOK
  <2> QED
    BY <2>1, <2>2
<1>7. tlb'[p] \in Translation
  <2>1. None \in Translation
    BY DEF None, Translation, Bit
  <2>2. tlb[p] \in Translation
    BY DEF IInv, TypeOK
  <2>3. page_directory[PRO_ADDR] \in DirEntry
    BY IndexAssumption DEF IInv, TypeOK
  <2>4. base \in Base
    BY <2>3 DEF base, DirEntry
  <2>5. Expected(p, base) \in Translation
    BY <2>4, ExpectedType
  <2> QED
    BY <1>6, <2>1, <2>2, <2>5
<1>8. TypeOK'
  <2>1. tlb' \in [Page -> Translation]
    BY <1>6, <1>7 DEF IInv, TypeOK
  <2> QED
    BY <1>1, <2>1 DEF IInv, TypeOK, control
<1>9. CacheSound'
  <2> SUFFICES ASSUME NEW q \in Page
               PROVE  \/ tlb'[q] = None
                      \/ pc' \notin Booting /\ tlb'[q] = Expected(q, base')
                      \/ pc' \in Stale /\ q[1] = PRO_ADDR /\ tlb'[q].global = 0
    BY DEF CacheSound
  <2>1. CASE q = p
    BY <1>1, <1>2, <1>6, <2>1 DEF IInv, CacheSound
  <2>2. CASE q # p
    <3>1. tlb'[q] = tlb[q]
      BY <1>6, <2>2 DEF IInv, TypeOK
    <3> QED
      BY <1>1, <1>2, <3>1 DEF IInv, CacheSound
  <2> QED
    BY <2>1, <2>2
<1> QED
  BY <1>3, <1>4, <1>5, <1>8, <1>9 DEF IInv

\* Every step preserves the invariant.
LEMMA NextInvariant == IInv /\ [Next]_vars => IInv'
<1> SUFFICES ASSUME IInv, [Next]_vars PROVE IInv'
  OBVIOUS
<1>1. CASE InitPaging
  BY <1>1, InitPagingStep
<1>2. CASE Process
  BY <1>2, ProcessStep
<1>3. CASE \E p \in Page : Cache(p) \/ Drop(p)
  BY <1>3, CacheStep
<1>4. CASE UNCHANGED vars
  <2> USE <1>4 DEF vars
  <2>1. TypeOK' /\ TablesKept'
    BY DEF IInv, TypeOK, TablesKept, base
  <2>2. Stages'
    BY DEF IInv, Stages
  <2>3. Depths' /\ SavedBases'
    BY DEF IInv, Depths, SavedBases, BaseAt, base
  <2>4. CacheSound' /\ ScreenKnown'
    BY DEF IInv, CacheSound, ScreenKnown, base
  <2> QED
    BY <2>1, <2>2, <2>3, <2>4 DEF IInv
<1> QED
  BY <1>1, <1>2, <1>3, <1>4 DEF Next

-----------------------------------------------------------------------------
(***************************************************************************)
(* Theorems.                                                               *)
(***************************************************************************)

\* The invariant holds in every reachable state.
THEOREM Invariance == Spec => []IInv
BY InitInvariant, NextInvariant, PTL DEF Spec

\* The entries, the cache and the saved addresses keep their widths, for any
\* number of processes up to 511 (init_paging, sys_execute_c, sys_halt_c).
THEOREM PagingTypeCorrect == Spec => []TypeOK
<1>1. IInv => TypeOK
  BY DEF IInv
<1> QED
  BY <1>1, Invariance, PTL

\* What an access reaches outside the two windows in which the program page
\* is stale.
LEMMA ReachExpected ==
  ASSUME IInv, pg, NEW p \in Page, pc \notin Stale \/ p[1] # PRO_ADDR
  PROVE  Reach(p) = Expected(p, base)
<1>1. Walk(p) = Expected(p, base)
  BY WalkExpected
<1>2. tlb[p] = None \/ tlb[p] = Expected(p, base)
  BY DEF IInv, CacheSound
<1> QED
  BY <1>1, <1>2 DEF Reach

\* From enablePaging on the kernel and its video memory stay where they were,
\* at every step of execute and halt (init_paging).
THEOREM KernelStaysCorrect == Spec => []KernelStays
<1>1. IInv => KernelStays
  <2> SUFFICES ASSUME IInv, pg
               PROVE  /\ cr3
                      /\ \A p \in KernelPages : Reach(p).frame = KERNEL * 1024 + p[2]
                      /\ Reach(<<0, VID_INDEX>>).frame = VID_INDEX
    BY DEF KernelStays
  <2>1. cr3
    BY DEF IInv, Stages, Booting
  <2>2. ASSUME NEW p \in KernelPages
        PROVE  Reach(p).frame = KERNEL * 1024 + p[2]
    <3>1. p \in Page /\ p[1] = KERNEL /\ p[1] # PRO_ADDR
      BY DEF KernelPages, KERNEL, PRO_ADDR
    <3>2. Reach(p) = Expected(p, base)
      BY <3>1, ReachExpected
    <3>3. p[2] \in Nat
      BY <3>1, IndexAssumption DEF Page
    <3> QED
      BY <3>1, <3>2, <3>3 DEF Expected, KERNEL
  <2>3. Reach(<<0, VID_INDEX>>).frame = VID_INDEX
    <3> DEFINE p == <<0, VID_INDEX>>
    <3>1. p \in Page /\ p[1] = 0 /\ p[2] = VID_INDEX
      BY IndexAssumption DEF Page
    <3> HIDE DEF p
    <3>2. Reach(p) = Expected(p, base)
      BY <3>1, ReachExpected DEF PRO_ADDR
    <3> QED
      BY <3>1, <3>2 DEF Expected, p, KERNEL, PRO_ADDR
  <2> QED
    BY <2>1, <2>2, <2>3
<1> QED
  BY <1>1, Invariance, PTL

\* Whoever uses the program page reaches the frame of its own process,
\* although sys_execute_c and sys_halt_c remap it under the cache.
THEOREM ProgramReachedCorrect == Spec => []ProgramReached
<1>1. IInv => ProgramReached
  <2> SUFFICES ASSUME IInv, pc \in {"user", "execute", "load"}, NEW p \in ProgramPages
               PROVE  Reach(p).frame = BaseAt(Owner) * 1024 + p[2]
    BY DEF ProgramReached
  <2>1. pg /\ pc \notin Stale
    BY DEF IInv, Stages, Booting, Stale
  <2>2. p \in Page /\ p[1] = PRO_ADDR
    BY DEF ProgramPages
  <2>3. Reach(p) = Expected(p, base)
    BY <2>1, <2>2, ReachExpected
  <2>4. base = BaseAt(Owner)
    BY DEF IInv, Depths, Owner
  <2>5. Expected(p, base).frame = base * 1024 + p[2]
    BY <2>2 DEF Expected, KERNEL, PRO_ADDR
  <2> QED
    BY <2>3, <2>4, <2>5
<1> QED
  BY <1>1, Invariance, PTL

\* A running program reaches its own 4MB and the screen, and nothing else.
THEOREM OnlyOwnMemoryCorrect == Spec => []OnlyOwnMemory
<1>1. IInv => OnlyOwnMemory
  <2> SUFFICES ASSUME IInv, pc = "user", NEW p \in Page, Reach(p) # None, Reach(p).user = 1
               PROVE  \/ Reach(p).frame = VID_INDEX
                      \/ Reach(p).frame \div 1024 = BaseAt(process_number)
    BY DEF OnlyOwnMemory
  <2>1. pg /\ pc \notin Stale
    BY DEF IInv, Stages, Booting, Stale
  <2>2. Reach(p) = Expected(p, base)
    BY <2>1, ReachExpected
  <2>3. base = BaseAt(process_number)
    BY DEF IInv, Depths
  <2>4. CASE p[1] = PRO_ADDR
    <3>1. p[2] \in Nat /\ p[2] < 1024
      BY IndexAssumption DEF Page
    <3>2. process_number \in Nat /\ process_number <= MaxProcesses
      BY Ranges DEF IInv, TypeOK
    <3>3. base \in Nat
      BY <2>3, <3>2, BaseValue
    <3>4. Reach(p).frame = base * 1024 + p[2]
      BY <2>2, <2>4 DEF Expected, KERNEL, PRO_ADDR
    <3>5. (base * 1024 + p[2]) \div 1024 = base
      BY <3>1, <3>3
    <3> QED
      BY <2>3, <3>4, <3>5
  <2>5. CASE p[1] # PRO_ADDR
    <3>1. Reach(p).frame = VID_INDEX
      BY <2>2, <2>5 DEF Expected, None
    <3> QED
      BY <3>1
  <2> QED
    BY <2>4, <2>5
<1> QED
  BY <1>1, Invariance, PTL

\* The address that sys_vidmap_c gave a program shows the screen for as long
\* as the program lives.
THEOREM VidmapCorrect == Spec => []VidmapShows
<1>1. IInv => VidmapShows
  <2> SUFFICES ASSUME IInv, pc = "user", NEW n \in 1..process_number, screen_start[n] # NoPage
               PROVE  /\ Reach(screen_start[n]).frame = VID_INDEX
                      /\ Reach(screen_start[n]).user = 1
    BY DEF VidmapShows
  <2> DEFINE p == <<USER_VMEM, VID_INDEX>>
  <2>1. n \in Child
    BY Ranges DEF IInv, TypeOK
  <2>2. screen_start[n] = p
    BY <2>1 DEF IInv, ScreenKnown
  <2>3. p \in Page /\ p[1] = USER_VMEM /\ p[2] = VID_INDEX
    BY IndexAssumption DEF Page
  <2> HIDE DEF p
  <2>4. pg /\ pc \notin Stale
    BY DEF IInv, Stages, Booting, Stale
  <2>5. Reach(p) = Expected(p, base)
    BY <2>3, <2>4, ReachExpected
  <2>6. Expected(p, base) = [frame |-> VID_INDEX, user |-> 1, global |-> 0]
    BY <2>3 DEF Expected, KERNEL, PRO_ADDR, USER_VMEM
  <2> QED
    BY <2>2, <2>5, <2>6
<1> QED
  BY <1>1, Invariance, PTL
=============================================================================
