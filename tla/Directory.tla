------------------------------ MODULE Directory ------------------------------
(***************************************************************************)
(* The directory of the file system image: the search for a name           *)
(* (read_dentry_by_name, one step per entry, since interrupts are on), its *)
(* callers sys_open_c, sys_execute_c, file_open and dir_open, and the      *)
(* listing by dir_read through read_dentry_by_index.                       *)
(*                                                                         *)
(* Names are sequences of nonzero bytes.  On disk a name is padded with    *)
(* zeros to NAME_LEN bytes and the type follows, so the name of full       *)
(* length has no terminator of its own: strlen runs on into the type.      *)
(* filename_buf has NAME_LEN bytes; the committed build places screen_x of *)
(* lib.c directly behind it.                                               *)
(***************************************************************************)
EXTENDS Integers, Sequences

CONSTANTS
  NAME_LEN,    \* 32 in filesys.h
  Entry,       \* the directory: a sequence of [name, filetype, inode_num]
  Word,        \* the names that programs pass to open
  Command,     \* the command lines that programs pass to execute
  NBytes,      \* the values of nbytes that programs pass to read
  Fd,          \* the entries of the file array that programs use
  Column       \* the columns the cursor visits

RTC_FILE == 0
DIR_FILE == 1
REG_FILE == 2
SPACE == 32
NEWLINE == 10

n_dir_entries == Len(Entry)
Padded(name) == [i \in 1..NAME_LEN |-> IF i <= Len(name) THEN name[i] ELSE 0]
Names == {Entry[i].name : i \in 1..n_dir_entries}

\* The entries of the boot block: names are bytes up to the first zero.
Name == Seq(1..255)
Dentry == [name : Name, filetype : {RTC_FILE, DIR_FILE, REG_FILE}, inode_num : Nat]

\* A well-formed image: distinct nonempty names of at most NAME_LEN bytes.
ASSUME ImageAssumption ==
  /\ NAME_LEN \in Nat \ {0}
  /\ Entry \in Seq(Dentry)
  /\ \A i \in 1..n_dir_entries : Len(Entry[i].name) \in 1..NAME_LEN
  /\ \A i, j \in 1..n_dir_entries : Entry[i].name = Entry[j].name => i = j
ASSUME ArgumentAssumption ==
  /\ Word \subseteq Name /\ Command \subseteq Name
  /\ NBytes \subseteq Nat
  /\ Fd \subseteq Nat
  /\ Column \subseteq 0..255

VARIABLES
  stage,          \* "idle", or whose search is running: "open", "driver", "execute"
  fname,          \* the name searched for
  asked,          \* the word of the program that fname was taken from
  dir_it,         \* the loop index of the search
  hit,            \* whether the loop has been left by its break
  dentry,         \* the local dentry of sys_open_c and sys_execute_c
  filename_buf,   \* the buffer of the search
  screen_x,       \* the byte behind it: the column of the cursor
  open_dentry,    \* the global the drivers search into
  desc,           \* the file array: what is open, its inode and position
  result,         \* what the last call returned
  reads           \* how often each descriptor was read since it was opened, up
                  \* to n_dir_entries

vars == <<stage, fname, asked, dir_it, hit, dentry, filename_buf, screen_x,
          open_dentry, desc, result, reads>>

ZeroDentry == [filename |-> Padded(<<>>), filetype |-> 0, inode_num |-> 0]
Free == [kind |-> "free", inode |-> 0, file_pos |-> 0]
NoResult == [op |-> "none", value |-> 0, filetype |-> 0, inode_num |-> 0,
             stored |-> <<>>, at |-> 0, nbytes |-> 0]

NoDentry == [filetype |-> 0, inode_num |-> 0]

-----------------------------------------------------------------------------
(***************************************************************************)
(* The string functions of lib.c, on bytes that start at an address.       *)
(***************************************************************************)
strlen(s) == CHOOSE n \in 0..(Len(s) - 1) : s[n + 1] = 0 /\ \A k \in 1..n : s[k] # 0

\* strncmp(s, t, n) == 0: equal up to n bytes or to the terminator of s.
SameString(s, t, n) ==
  \A i \in 1..n : (\A k \in 1..(i - 1) : s[k] # 0) => s[i] = t[i]

\* The bytes of entry i of the boot block: the name, then the type.
OnDisk(i) == Padded(Entry[i].name) \o <<Entry[i].filetype, 0>>

\* The inode number that both readers of an entry deliver.
InodeOf(i) == IF Entry[i].filetype = REG_FILE THEN Entry[i].inode_num ELSE 0

-----------------------------------------------------------------------------
(***************************************************************************)
(* read_dentry_by_name.                                                    *)
(***************************************************************************)

\* The search begins, unless the name is too long.
StartSearch(who, word, name) ==
  /\ asked' = word
  /\ dentry' = NoDentry
  /\ IF Len(name) > NAME_LEN
       THEN /\ stage' = "idle"
            /\ fname' = <<>> /\ dir_it' = 1
            /\ result' = [NoResult EXCEPT !.op = who, !.value = -1]
       ELSE /\ stage' = who
            /\ fname' = name /\ dir_it' = 1
            /\ result' = NoResult

\* strncpy of the name of entry dir_it, up to what strlen says, and the
\* terminator where there is room for one.  CopyUnterminated forgets it.
CopyUnterminated ==
  LET n == strlen(OnDisk(dir_it))
  IN /\ filename_buf' = [i \in 1..NAME_LEN |->
                           IF i <= n THEN OnDisk(dir_it)[i] ELSE filename_buf[i]]
     /\ screen_x' = IF n > NAME_LEN THEN OnDisk(dir_it)[NAME_LEN + 1] ELSE screen_x
CopyName ==
  LET n == strlen(OnDisk(dir_it))
  IN /\ filename_buf' = [i \in 1..NAME_LEN |->
                           IF i <= n THEN OnDisk(dir_it)[i]
                           ELSE IF i = n + 1 THEN 0 ELSE filename_buf[i]]
     /\ screen_x' = IF n > NAME_LEN THEN OnDisk(dir_it)[NAME_LEN + 1] ELSE screen_x

\* Whether the name now in the buffer is fname, its terminator included.
Matches(buf) == SameString(fname \o <<0>>, buf, NAME_LEN)

\* One iteration of the loop.
Scan ==
  /\ stage # "idle" /\ ~hit /\ dir_it <= n_dir_entries
  /\ CopyName
  /\ IF Matches(filename_buf') THEN hit' = TRUE /\ UNCHANGED dir_it
                               ELSE dir_it' = dir_it + 1 /\ UNCHANGED hit
  /\ UNCHANGED <<stage, fname, asked, dentry, open_dentry, desc, result, reads>>

\* The name that is copied to open_dentry, whichever dentry the caller passed;
\* what lies behind it stays.
CopiedName(n) ==
  [i \in 1..NAME_LEN |-> IF i <= n THEN filename_buf[i] ELSE open_dentry.filename[i]]

\* What a search into a local dentry leaves in open_dentry: the name, and in
\* its type the byte that strncpy copied from behind filename_buf.
Spilled ==
  LET n == strlen(OnDisk(dir_it))
  IN [open_dentry EXCEPT !.filename = CopiedName(n),
                         !.filetype = IF n > NAME_LEN THEN screen_x ELSE @]

\* What a search into open_dentry leaves there.
Filled ==
  LET n == strlen(OnDisk(dir_it))
  IN [filename |-> [i \in 1..NAME_LEN |-> IF i <= n THEN CopiedName(n)[i] ELSE 0],
      filetype |-> Entry[dir_it].filetype, inode_num |-> InodeOf(dir_it)]

Finish(op, value, d) ==
  /\ stage' = "idle"
  /\ hit' = FALSE
  /\ result' = [NoResult EXCEPT !.op = op, !.value = value, !.at = dir_it,
                                !.filetype = d.filetype, !.inode_num = d.inode_num]

-----------------------------------------------------------------------------
(***************************************************************************)
(* open.  sys_open_c searches into its own dentry to choose a jump table,  *)
(* then the driver searches once more, into open_dentry.                   *)
(***************************************************************************)
FirstFree(i) == i \in Fd /\ desc[i].kind = "free"
                /\ \A k \in Fd : k < i => desc[k].kind # "free"

sys_open(word) ==
  /\ stage = "idle"
  /\ StartSearch("open", word, word)
  /\ UNCHANGED <<hit, filename_buf, screen_x, open_dentry, desc, reads>>

\* The search of sys_open_c succeeded.  rtc_open does not search.
OpenFound ==
  /\ stage = "open" /\ hit
  /\ dentry' = [filetype |-> Entry[dir_it].filetype, inode_num |-> InodeOf(dir_it)]
  /\ open_dentry' = Spilled
  /\ \/ /\ \A i \in Fd : ~FirstFree(i)
        /\ Finish("open", -1, dentry')
        /\ UNCHANGED <<dir_it, desc>>
     \/ /\ dentry'.filetype = RTC_FILE
        /\ \E i \in Fd : /\ FirstFree(i)
                         /\ desc' = [desc EXCEPT ![i] = [Free EXCEPT !.kind = "rtc"]]
                         /\ Finish("open", i, dentry')
        /\ UNCHANGED dir_it
     \/ /\ dentry'.filetype # RTC_FILE
        /\ \E i \in Fd : FirstFree(i)
        /\ stage' = "driver"
        /\ hit' = FALSE
        /\ dir_it' = 1
        /\ UNCHANGED <<desc, result>>
  /\ UNCHANGED <<fname, asked, filename_buf, screen_x, reads>>

KindOf(t) == IF t = DIR_FILE THEN "dir" ELSE "file"

\* dir_open or file_open, chosen by the type in dentry, goes by the type that
\* its own search delivered; sys_open_c ignores a refusal.
DriverFound ==
  /\ stage = "driver" /\ hit
  /\ open_dentry' = Filled
  /\ \E i \in Fd :
       /\ FirstFree(i)
       /\ desc' = IF open_dentry'.filetype # dentry.filetype THEN desc
                  ELSE [desc EXCEPT ![i] = [kind |-> KindOf(dentry.filetype),
                                            inode |-> open_dentry'.inode_num,
                                            file_pos |-> 0]]
       /\ reads' = [reads EXCEPT ![i] = 0]
       /\ Finish("open", i, open_dentry')
  /\ UNCHANGED <<fname, asked, dir_it, dentry, filename_buf, screen_x>>

-----------------------------------------------------------------------------
(***************************************************************************)
(* execute, up to the check of the type: the name is the command up to the *)
(* first separator, or its first NAME_LEN + 1 bytes.                       *)
(***************************************************************************)
Separator == {SPACE, NEWLINE}
WordLen(c) == CHOOSE n \in 0..Len(c) : /\ \A k \in 1..n : c[k] \notin Separator
                                       /\ n < Len(c) => c[n + 1] \in Separator
FileName(c) ==
  SubSeq(c, 1, IF WordLen(c) > NAME_LEN + 1 THEN NAME_LEN + 1 ELSE WordLen(c))

sys_execute(command) ==
  /\ stage = "idle"
  /\ StartSearch("execute", SubSeq(command, 1, WordLen(command)), FileName(command))
  /\ UNCHANGED <<hit, filename_buf, screen_x, open_dentry, desc, reads>>

ExecuteFound ==
  /\ stage = "execute" /\ hit
  /\ dentry' = [filetype |-> Entry[dir_it].filetype, inode_num |-> InodeOf(dir_it)]
  /\ open_dentry' = Spilled
  /\ Finish("execute", IF dentry'.filetype = REG_FILE THEN 0 ELSE -1, dentry')
  /\ UNCHANGED <<fname, asked, dir_it, filename_buf, screen_x, desc, reads>>

\* The loop ran past the last entry; what the driver's search returns is
\* ignored.
NotFound ==
  /\ stage # "idle" /\ ~hit /\ dir_it > n_dir_entries
  /\ stage' = "idle"
  /\ result' = IF stage = "driver"
                 THEN [NoResult EXCEPT !.op = "open", !.value = CHOOSE i \in Fd : FirstFree(i)]
                 ELSE [NoResult EXCEPT !.op = stage, !.value = -1]
  /\ UNCHANGED <<fname, asked, dir_it, hit, dentry, filename_buf, screen_x,
                 open_dentry, desc, reads>>

-----------------------------------------------------------------------------
(***************************************************************************)
(* Listing the directory.                                                  *)
(***************************************************************************)

\* read_dentry_by_index(index, &read_dentry), which sets all of read_dentry:
\* the name that dir_read finds there.
NameByIndex(index) == Padded(SubSeq(OnDisk(index + 1), 1, strlen(OnDisk(index + 1))))

\* What belonged to an earlier open or execute.
LocalsGone == fname' = <<>> /\ asked' = <<>> /\ dir_it' = 1 /\ dentry' = NoDentry

Least(m, n) == IF m <= n THEN m ELSE n

\* The bytes that dir_read stores: the name as far as nbytes goes, and a
\* terminator when it is whole.
Stored(name, nbytes) ==
  LET len == strlen(name \o <<0>>)
  IN SubSeq(name, 1, Least(nbytes, len)) \o (IF nbytes >= len THEN <<0>> ELSE <<>>)

\* file_pos after a read; PosKept leaves it where it was.
PosKept(file_pos) == file_pos
NextPos(file_pos) == file_pos + 1

\* dir_read, a name per call.
dir_read(fd, nbytes) ==
  LET pos == desc[fd].file_pos
      name == NameByIndex(pos)
  IN /\ stage = "idle"
     /\ desc[fd].kind = "dir"
     /\ \/ /\ pos >= n_dir_entries
           /\ result' = [NoResult EXCEPT !.op = "read", !.at = reads[fd], !.nbytes = nbytes]
           /\ UNCHANGED desc
        \/ /\ pos < n_dir_entries
           /\ desc' = [desc EXCEPT ![fd].file_pos = NextPos(@)]
           /\ result' = [NoResult EXCEPT !.op = "read",
                                         !.value = Least(nbytes, strlen(name \o <<0>>)),
                                         !.stored = Stored(name, nbytes),
                                         !.at = reads[fd], !.nbytes = nbytes]
     /\ reads' = [reads EXCEPT ![fd] = Least(@ + 1, n_dir_entries)]
     /\ LocalsGone
     /\ UNCHANGED <<stage, hit, filename_buf, screen_x, open_dentry>>

\* dir_close, file_close and rtc_close clear the flags; file_close also clears
\* the name in open_dentry (and in read_dentry, which dir_read sets anew).
Close(fd) ==
  /\ stage = "idle"
  /\ desc[fd].kind # "free"
  /\ desc' = [desc EXCEPT ![fd].kind = "free"]
  /\ open_dentry' = IF desc[fd].kind = "file"
                      THEN [open_dentry EXCEPT !.filename = Padded(<<>>)]
                      ELSE open_dentry
  /\ result' = [NoResult EXCEPT !.op = "close"]
  /\ LocalsGone
  /\ UNCHANGED <<stage, hit, filename_buf, screen_x, reads>>

-----------------------------------------------------------------------------
\* Characters are printed between calls and echoed during them.
Echo ==
  /\ screen_x' \in Column
  /\ UNCHANGED <<stage, fname, asked, dir_it, hit, dentry, filename_buf, open_dentry,
                 desc, result, reads>>

\* The state that init_filesys and set_screen(0, 0) leave.
Init ==
  /\ stage = "idle"
  /\ fname = <<>> /\ asked = <<>>
  /\ dir_it = 1 /\ hit = FALSE
  /\ dentry = NoDentry
  /\ filename_buf = Padded(<<>>)
  /\ screen_x = 0
  /\ open_dentry = ZeroDentry
  /\ desc = [fd \in Fd |-> Free]
  /\ result = NoResult
  /\ reads = [fd \in Fd |-> 0]

Search == Scan \/ OpenFound \/ DriverFound \/ ExecuteFound \/ NotFound

Next ==
  \/ \E w \in Word : sys_open(w)
  \/ \E c \in Command : sys_execute(c)
  \/ Search
  \/ \E fd \in Fd : Close(fd) \/ \E n \in NBytes : dir_read(fd, n)
  \/ Echo

Spec == Init /\ [][Next]_vars

-----------------------------------------------------------------------------
(***************************************************************************)
(* Properties.                                                             *)
(***************************************************************************)

IsEntry(name, d) ==
  \E i \in 1..n_dir_entries : /\ Entry[i].name = name
                              /\ d.filetype = Entry[i].filetype
                              /\ d.inode_num = InodeOf(i)
TypeOfName(name) ==
  CHOOSE t \in 0..2 : \E i \in 1..n_dir_entries : Entry[i].name = name /\ Entry[i].filetype = t

\* open and execute accept exactly the words that are names of the directory,
\* whole names of the full NAME_LEN bytes included, and no longer word for
\* the name it begins with; what they go by is the entry of that name.  The
\* second search of open, by the driver, finds what the first one found: the
\* descriptor that open returns is set up, for the type that chose the jump
\* table, although sys_open_c ignores what the driver returns; and open_dentry
\* is then that entry, with no rest of a longer name found before, nor of the
\* searches into other dentries that write its name.
LookupExact ==
  /\ stage = "idle" /\ result.op = "open" =>
       IF result.value = -1
         THEN asked \notin Names \/ \A fd \in Fd : desc[fd].kind # "free"
         ELSE /\ IsEntry(asked, result)
              /\ desc[result.value] =
                   [kind |-> IF dentry.filetype = RTC_FILE THEN "rtc" ELSE KindOf(dentry.filetype),
                    inode |-> dentry.inode_num, file_pos |-> 0]
              /\ dentry.filetype # RTC_FILE =>
                   open_dentry.filename = Padded(asked) /\ IsEntry(asked, open_dentry)
  /\ stage = "idle" /\ result.op = "execute" =>
       IF result.value = -1
         THEN asked \in Names => TypeOfName(asked) # REG_FILE
         ELSE asked \in Names /\ TypeOfName(asked) = REG_FILE /\ IsEntry(asked, result)

\* The reads of a descriptor, counted from its open, list the directory entry
\* by entry: the first one the first name, each next one the next name, none
\* skipped or delivered twice, each up to nbytes; and once all names have been
\* delivered a read returns 0.  Other descriptors that list at the same time,
\* and closing and opening in between, do not matter.  At most one byte more
\* than asked for is stored, the terminator behind a name that fits exactly: a
\* buffer of nbytes + 1, as the one of ls, is enough.
ListExact ==
  result.op = "read" =>
    /\ IF result.at = n_dir_entries
         THEN result.value = 0
         ELSE LET name == Entry[result.at + 1].name
              IN /\ result.value = Least(result.nbytes, Len(name))
                 /\ SubSeq(result.stored, 1, result.value) = SubSeq(name, 1, result.value)
    /\ Len(result.stored) <= result.nbytes + 1
    /\ Len(result.stored) > result.value => result.stored[result.value + 1] = 0

\* The header of read_dentry_by_name: "copies dentry struct from memory to
\* input dentry" and "OUTPUTS: none" (filesys.c:110, 113).  No iteration of
\* its loop moves the cursor.
CursorKept == [][dir_it' = dir_it + 1 \/ (hit' /\ ~hit) => screen_x' = screen_x]_vars
=============================================================================
