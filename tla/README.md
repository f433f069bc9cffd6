# A TLA+ model of the teaching OS

TLA+ modules, TLC configurations and TLAPS proofs for the kernel under
`src/student-distrib` and the programs under `src/syscalls` and `src/fish`. Paths
below are relative to `src/student-distrib` unless they start with `src/` or
`ece391`, the latter being in `src/syscalls`.

## The system

| part | source | state | operations |
|---|---|---|---|
| processes | `sys_calls.c`, `kernel.c`, `pcb.h` | `process_number`, `cur_pcb`, the PCBs below 8MB, the program page, `tss.esp0` | execute, halt, exceptions, the loop that restarts the shell |
| file descriptors | `sys_calls.c`, driver open/close | `file_array` of each PCB | open, close, read, write |
| dispatch | `exceptions.S` | `ret_val`, EAX, EBX | the jump table, DONE, EXEC_DONE |
| terminal | `key_driver.c` | `key_buf`, `enter_flag`, modes, `dict` | key_handler, terminal_open/read/write |
| screen | `lib.c` | `screen_x`, `screen_y`, video memory | putc_terminal, deletec_terminal, scrolling, clear |
| file system | `filesys.c` | descriptors' position and inode index, `filename_buf`, `open_dentry`, a read-only image | file and directory operations, loads by execute |
| RTC | `rtc_driver.c` | `rtc_interrupt`, register A | rtc_open/write/read, rtc_handler |
| interrupts | `i8259.c`, `exceptions.S` | masks, in-service bits, IF | enable_irq, send_eoi, linkage |
| paging | `paging_c.c`, `paging.S` | page directory and tables | init_paging, remapping by execute and halt, vidmap |
| programs | `ece391*.c`, `src/fish` | their locals, the command line in the PCB, fish's list, grep's buffer | the calls they make, in order; RTC_ADD, RTC_REMOVE, RTC_SYNC, the tasklet; do_one_file |

There is one CPU and no scheduler. `execute` suspends its caller inside the
call and `halt` resumes it, so processes form a stack. Concurrency comes from
interrupts only: system calls run with interrupts on, handlers start with them
off but execute `sti` before `iret`, so handlers nest.

What is hard to test here: state restored piecewise when a program halts; key
events in the middle of `terminal_read`; two ways of keeping a place in a file
that must agree; nested handlers and double EOIs; the cursor against the line
in `key_buf`; one name buffer for all searches; page tables that change under
cached translations; programs that depend on what was left behind the command
line or in their buffers. `PROJECT.json` lists these hazards at their lines.

## Modules

- `Kernel`: execute, halt, exceptions and the file-array calls. A call is one
  step: no handler touches this state. Addresses are computed as in the code.
  `saved` stands for the frames on kernel stacks, `image` for the 4MB frames.
  File contents are reduced to lengths. `FrameByte` is the byte `sys_halt_c`
  finds at its `status` after it has switched EBP (35, the local `cs` of
  `sys_execute_c`, in the committed build).
- `ProcessStack`: the abstract promise, a bounded stack of programs with
  private tables. `KernelRefinement` gives the mapping.
- `UserCalls`, on `Kernel`: a program's context, the call wrappers, and what
  `Kernel` calls "other": getargs, set_handler, vidmap's test of its pointer and
  numbers that are no call. A command line is a sequence of words. Behind it in
  the PCB lies anything (`Residue`).
- `Programs`, on `UserCalls`: the shell and ten programs, one step per
  system call. It composes the programs with the kernel: `Kernel`'s own
  specification allows any sequence of calls, `Programs` the ones that occur.
- `Blink`: fish's list, whose nodes come from `blink_array`, with the ioctls in
  any order and the tasklet. `Search`: grep's `do_one_file`, a read or a line per
  step. `Algorithms` has both, for one run; they share nothing.
- `Terminal`: `terminal_read` and `terminal_open`, one access to a shared variable
  per step (the test of the copying loop and its load are two), and `key_handler`
  between any two of them. A backspace on a full line stores its 0 in the byte
  behind `key_buf`. In the committed build that is the low byte of `enter_flag`,
  which `key_handler` has just set to 0, so the store changes nothing.
- `FileStream`: `read_data` one iteration at a time, called by file_read and by
  the two loads of execute. A byte is named by its block and offset.
- `Directory`: `read_dentry_by_name` one entry at a time, called by `sys_open_c`
  and again by the driver it chooses, and by `sys_execute_c`; `dir_read`. Names
  are sequences of bytes because their ends are the point: a name of full length
  has no terminator. `screen_x` is the byte behind `filename_buf`, as in the
  committed build (`nm bootimg`); output may set it at any time.
- `Paging`: the tables of `init_paging`, the registers it sets and in which
  order, the remapping by execute and halt, and vidmap. The processor (external)
  caches any translation at any time and drops it at any time; loading CR3 drops
  those that are not global. A page is a pair of directory and table index.
  vidmap is called with pointers into the program page.
- `Interrupts`: the gates of the IDT as `set_idt_entry` leaves them, the 8259s and
  devices (external), the handlers as a stack of frames, and a program in the RTC
  calls or in a masked section.
- `Screen`: the cells, the cursor and `key_buf`, which `clear_key_buffer` empties
  byte by byte with keys in between. A write outside the mapped
  video page is recorded as a fault and ends the behaviour.
- `KernelProofs`, `PagingProofs`, `TerminalProofs`, `FileStreamProofs`,
  `DirectoryProofs`, `InterruptsProofs`, `AlgorithmsProofs`, `ScreenProofs`: the
  theorems.

Definitions whose comment describes a defect (`HaltLeak`, `LoadStuck`, ...) are
not part of any specification. Each is a plausible mistake that makes one
property fail, which shows that the property depends on that piece of code.

## Runs

| run | bounds | shows |
|---|---|---|
| process_depth | 3 processes, 3 descriptors, any calls | registers, PCB chain, page and stacks stay together; suspended PCBs are not written; a shell comes back |
| programs | 3 processes, 8 descriptors, 15 directory entries, 22 command lines | arguments are exact; ls and grep see every entry; every test of syserr passes; the shell reports how a command ended; commands end; jump table and type agree, both searches of open agree, halt closes everything; `Kernel` implements `ProcessStack`, with its fairness |
| algorithms | 3 nodes and 3 cells; texts of up to 5 bytes, a buffer of 3 | fish's list stays a list of the nodes in use, the screen shows their state, they keep blinking; grep finds exactly the lines with the word, and ends |
| terminal_line | line of 2, Enter, Backspace, a release, Caps Lock and Ctrl, 3 counted keys during a copy | no torn line, one Enter per read, the newline, the copy ends |
| file_stream | blocks of 2 bytes, files of 5, 2 and 0 bytes, 2 descriptors | files are delivered byte by byte; only the end of a file cuts a read short |
| interrupts | nesting 3, 2 waiting keys, 5 rate bytes | EOIs, edges, the flag and the rate, interrupts come back, reads return |
| screen_echo | 3 rows of 2, page of 7 cells, line of 3, output of up to 5 | echo follows the line through wrapping and scrolling and while the line is cleared; what programs printed stays |
| directory | names of up to 2 bytes, 4 entries of all types, 2 descriptors, reads of 0 to 2 bytes | a search finds exactly the entry asked for, both searches of open agree, `open_dentry` is one whole entry, the n-th read of a descriptor delivers the n-th name |
| paging | 3 processes, 5 directory and 2 table indices | the kernel stays mapped, each process reaches its own memory and no other, vidmap shows the screen |

Three processes give a process with both a parent that is suspended and one
that is not the boot loop; the arithmetic for six is covered by the proofs.
Eight descriptors are the code's own number: syserr fills the array and grep
needs two entries at a time for all 15 files. The command lines start every
program, with and without arguments, and a text file, a directory, a device and
a missing name where a file is expected; two frames of different length make
fish close one of them repeatedly. The buffer of three bytes cuts the texts at
every place of a line. Three nodes give a first, a middle and a last one to
remove and let the pool run out. The three files of `file_stream` end inside a
block, at a block's end, and before the first byte. Three levels of handlers are
one more than the two devices. The small screen makes a line wrap and scroll. The
directory has names shorter than the buffer and of its full length, one the
beginning of another, and is asked for words that are, begin and extend its
names. The indices of `paging` are the four that are mapped, one that is not, and
in a table the video page and another one.

Limits of what these runs say. `LineNotTorn` is claimed for at most two keys
during the copy, where two may clip the last byte to a 0: both are backspaces and
come between the test of the loop and its load. Three keys do tear a line, even
one of two bytes. Shift is left out of `terminal_line`: like Caps Lock it only
chooses the dictionary. `EchoMatches` and
`OutputKept` are claimed for lines of glyphs typed without output, tabs or Ctrl+L
in between; tabs are printed only up to column `MaxX`. `CopyExact` covers loads
only of files with at least as many bytes as the image has data blocks.
`ArgumentsExact` is about commands with a space and the 1024 bytes that all
programs ask for. `SearchExact` is about lines shorter than the buffer, and
leaves out an end of line that the stack happens to hold at `data[BUFSIZE]`,
which `do_one_file` compares before it has stored anything there. In `programs`
users need not answer a question, RTC reads return (which `interrupts` shows),
and a program that halts with 256 or -1 does not occur.

Three further runs check a sentence of the repository and find it violated:

- `shell_reads_status`: `ece391shell.c` reads 256 as an exception and -1 as a
  missing command, but a program's own status reaches it unmasked.
- `terminal_lost_enter`: `terminal_read` misses an Enter that is followed by
  another key event before its poll.
- `directory_cursor`: `read_dentry_by_name` copies 33 bytes of a name of full
  length into 32, and the last one, the type, becomes the column of the cursor.
  The shipped image has such a name, `verylargetextwithverylongname.tx`.

More matters are in the models without a run of their own: an Enter pressed
before `terminal_read` ends the call at once; a key between two of the resets of
`terminal_open` leaves `dict` to modes that are gone, until the next key; execute reads the header of a file
that is shorter than the number of blocks from another file's block
(`created.txt` in the shipped image, 21 bytes and 59 blocks); after Ctrl+L
backspace deletes cells that never held the line; a program that calls getargs
without an argument searches what lies behind its command line, and may get
words of an older command or be ended by a fault; RTC_SYNC of fish always draws
the off character, because its `cmovl` tests a condition that `testb` never sets;
the entry of set_handler calls getargs, which ends the program.

## Fairness

`Kernel`: the boot loop, which is all that runs when no program does.
`Programs`: the program that runs goes on, except where it waits for its user.
`Algorithms`: the RTC ticks and grep goes on. `Terminal`: a call that has begun
goes on executing; nobody need type. `terminal_lost_enter` assumes the stronger
form, so that the read fails although its poll keeps getting the CPU.
`Interrupts`: the RTC ticks, handlers and masked sections go on, an interrupt
offered time and again is taken, and interrupts leave time for the program.
`ReadReturns` there is stated for behaviours in which the keyboard leaves such
time, since it has priority.

## Proofs

All for every value of the constants that the named assumptions allow.

**`KernelProofs`**: for any number of processes up to 511, any file array longer
than two and any directory: type correctness, `ProcessChain`, `Coherent`,
`SuspendedIntact`, `DescriptorsAgree`, `StacksClearOfPcbs`, `OpenedIsReady` and
the action properties `SuspendedUntouched` and `HaltClosesAll`. The inductive
invariant is the conjunction of the first five. None is inductive alone: after a
halt, `Coherent` needs what `ProcessChain` says the PCB saved and what
`SuspendedIntact` says the parent's frame and stack still hold, and
`HaltClosesAll` needs `DescriptorsAgree` so that no driver refuses to close. The
address lemmas (`PcbAddrsDiffer`, `StackTopsDiffer`, `FramesDiffer`) carry the
arithmetic. `StacksClearOfPcbs` assumes that one kernel stack uses at most the
8KB block less one PCB (`StackAssumption`); the code has no check of this.

The same module proves the safety part of the refinement. The initial state
maps to the empty stack, and every step of `Kernel`, given that invariant, to a
push, a pop, a change of the top's table, or a stutter (`StepRefines`). What has
to be shown is that the entries of suspended processes, which the mapping reads
from PCBs in memory, stay the same. The fairness part is model-checked.

**`PagingProofs`**: for any number of processes up to 511 and any choice of
directory and table indices that contains the mapped ones, all invariants of
`Paging`. The inductive invariant says what the tables are at each stage of
`init_paging` (`TablesKept`, `Stages`), which frame the program page has at each
point of execute and halt (`Depths`) and which one each PCB saved
(`SavedBases`), that vidmap handed out one address only (`ScreenKnown`), and,
the core, that every cached translation is the one of the tables
(`CacheSound`), except for the program page between a remapping and the load of
CR3 that follows it. There nothing uses the program page; the load of CR3 drops
what is stale because only the kernel's entry is global, and that one never
changes.

**`TerminalProofs`**: for any size of the line and any sets of keys: types (the line
never outgrows `key_buf`, the copy is never longer than it, and no load reads
behind it), `EnterPerRead`, `LineEndsWithNewline` and `LineNotTorn`. The last needs
`CopyState`: as long as at most two keys have come, what has been copied is at the
test of the loop (`AtTest`) either the beginning of the line as it is now, or was
the whole line at one moment and is not shorter than the line now, so that the
copy is over; between test and load (`AtLoad`) the byte about to be copied is that
of the line, or of a line that has been, or the 0 of the second of two
backspaces. `MaxHits > 2` says that the counter of keys tells two from three.

**`FileStreamProofs`**: for any block size, any image whose inodes name as many data
blocks as their length needs, and any reads: `StreamExact`, `CopyExact` and
`ShortOnlyAtEnd`. `DescState` relates the index in a descriptor's flags to its
position between calls (`Crossed`, the number of block boundaries stepped over:
the step for a position at a boundary is still to come), `LoopState` the same
inside a call, where a load starts one word too early (`Base`).

**`DirectoryProofs`**: for any `NAME_LEN`, any directory with distinct nonempty names
and any words, commands and read sizes: `LookupExact` and `ListExact`. The lemmas
say what strlen finds on disk, one byte too many for some names of full length
(`DiskLength`), that the buffer then holds the name all the same (`CopyHolds`),
and that strncmp decides equality of the whole names (`MatchExact`). The
invariant says that a search has passed no entry of its name, what the buffer
holds once it hits, and that the driver's search looks for a name the first
search found, which therefore it finds at the same entry. `ListExact` compares a
read with the number of reads the descriptor has had since it was opened
(`reads`, a history variable); `Positions` says that `file_pos` is that number,
up to the end of the directory.

**`InterruptsProofs`**: for any nesting, any number of waiting keys and any bytes
passed to rtc_write: `InServiceIsRunning`, `NothingLost`, `RtcAsAsked`. The
invariant `Service` says that only the innermost handler can have something in
service, with interrupts off, and that every other frame was interrupted after
its EOI.

**`AlgorithmsProofs`**: for a pool and a screen of any size and any structures,
`ListIntact` and `ShownAgrees` of fish's list; for a buffer of any size, any texts
and any words, `SearchExact` of grep.

- The list is what `Walk` meets, a recursive function of the number of steps.
  `WalkIs` gives its recursion equation, `AddWalk`, `RemoveWalk` and `SameWalk`
  what it becomes when a node is put in front, when one is unlinked (the nodes
  behind it move one place forward) and when no link changes. `NoGap` and
  `NotFull` say that nothing follows a NULL and that the walk ends within the
  pool, which is a counting argument: the nodes met are distinct. The invariant
  `BlinkInv` adds to the two properties the types and that no node ever claims
  cell 0, the location by which `mp1_malloc` tells a free node.
- The invariant `SearchInv` of grep says what part of the file has been consumed
  (`Consumed`), that the buffer holds the file from there on, that what is
  consumed ends with a line (`Boundary`), and that the lines written are those of
  the consumed part that contain the word (`Hits`). A short buffer before a search
  means that the file is at its end, so a line cut there is the last one.
  A line that the buffer cuts is moved down whole (`CutString`, `MoveCore`), and
  one that is searched is a whole line of the file (`WholeLine`).

**`ScreenProofs`**: for a screen of at least two rows, any page that holds it and a
key buffer that fits above the last row, `EchoMatches` and the action property
`OutputKept`. `PutcInPlace` is the arithmetic of one character: it comes to stand
before the cursor, and what stood there still does, a row higher after
scrolling. `NextShown` and `PrintedShown` carry it over to a line and to a string,
`BackInPlace` undoes it. The invariant `ScreenInv` says in addition that the
cursor never gets below the last row; `Sound`, that a print which faults leaves it
outside the columns or above the screen, so that no plain line begins there.

Recursive functions are proved about in two steps. That the function exists
follows from a witness (`RunExists` builds one step after the other); what it
computes, by the least counterexample (`LeastElement`, `UpTo`), which takes a set
where the induction rule of the library takes an operator.

Only model-checked: everything temporal under fairness (liveness and ENABLED are
outside the prover's reach), and `Programs` and `UserCalls`, whose commands are a
fixed set of strings.

## Not modelled

- `itoa`, `printf`, `putc` and the mem functions of `lib.c`, and their copies for
  programs: formatting and copying without state of their own; `putc` prints only
  before the first program runs.
- The order of the boot sequence up to the first program, other than paging and
  the gates: it runs once. Its `sti` (`kernel.c:287`) comes while every IRQ is
  masked; the masks open with the first `terminal_open`.
- grep's "file read failed": `read_data` has no reason to refuse a file that open
  has found. The branch of `exec_done` for EAX = 0: neither `FrameByte` nor the -1
  of `sys_execute_c` is 0.
- The size of a program's buffer: `terminal_read` ignores nbytes and stores a
  whole line. The programs of the repository ask for at least 127 bytes.
- The rate of the RTC as shared by several processes: the code has one rate, and
  no program executes another while it uses the RTC.
- RTC_FIND of fish's list, which only copies a node out and which fish never calls.
- `exceptions_c.c` (no vector calls it), `tests.c` (not called),
  `ece391emulate.c` (builds the programs for Linux), descriptor-table encodings,
  and `createfs` and `elfconvert`, which are binaries.
