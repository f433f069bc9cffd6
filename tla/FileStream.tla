----------------------------- MODULE FileStream -----------------------------
(***************************************************************************)
(* Reading regular files: read_data of filesys.c, one iteration of its     *)
(* loop at a time, behind file_open, file_read and file_close for          *)
(* descriptors and behind the loads of sys_execute_c.                      *)
(*                                                                         *)
(* read_data does not compute the data block from the position: it keeps   *)
(* an index into the inode in the descriptor's flags and steps it when the *)
(* position crosses a block.  The properties say that the index and the    *)
(* position, which are stored and updated separately, never part, so that  *)
(* every descriptor delivers its file byte by byte.                        *)
(*                                                                         *)
(* A byte is named by where it lies, <<data block, offset>>.               *)
(***************************************************************************)
EXTENDS Integers, Sequences

CONSTANTS
  FOUR_KB,      \* the block size
  Slots,        \* words in an inode: FOUR_KB/4
  D,            \* bblock.D, the number of data blocks
  Ino,          \* the inodes of regular files
  Size,         \* word 0 of each inode: the length of the file
  Blocks,       \* words 1, 2, ... of each inode: data block numbers
  Fds,          \* the descriptors that may be open
  ReadLen,      \* the values of nbytes that programs pass to read
  HeaderLen,    \* the bytes of a header sys_execute_c reads: 32
  LoadLen,      \* the bytes of a program it asks for: FOUR_MB
  MagicLen,     \* the bytes it compares with the ELF magic: 4
  Elf           \* the data blocks that begin with the ELF magic

ASSUME GeometryAssumption ==
  /\ FOUR_KB \in Nat \ {0} /\ Slots \in Nat \ {0} /\ D \in Nat
  /\ ReadLen \subseteq Nat /\ HeaderLen \in Nat /\ LoadLen \in Nat
  /\ MagicLen \in 1..HeaderLen /\ Elf \subseteq 0..(D - 1)
  /\ -1 \notin Fds

\* The image is well formed: an inode names a valid block for every part of
\* its file.
ASSUME ImageAssumption ==
  \A i \in Ino :
    /\ Size[i] \in Nat
    /\ Size[i] <= FOUR_KB * (Slots - 1)
    /\ \A k \in 1..(Slots - 1) :
         /\ Blocks[i][k] \in Nat
         /\ (k - 1) * FOUR_KB < Size[i] => Blocks[i][k] < D

VARIABLES
  desc,       \* the descriptors: in use, inode, file_pos and inode index
  pc,         \* "idle", or "loop" inside read_data
  stage,      \* which of its two reads sys_execute_c is at, or "none"
  fd,         \* the arguments and locals of the read_data in progress
  inode, offset, length, inode_idx, byte_ptr,
  buf,        \* the bytes copied so far: its "it" is Len(buf)
  ret,        \* what the last call returned
  got         \* what each descriptor has delivered since it was opened

locals == <<fd, inode, offset, length, inode_idx, byte_ptr>>
vars == <<desc, pc, stage, locals, buf, ret, got>>

Word(i, k) == IF k = 0 THEN Size[i] ELSE Blocks[i][k]

Unused == [used |-> 0, inode |-> 0, file_pos |-> 0, inode_idx |-> 0]

\* Byte number p of file i.
FileByte(i, p) == <<Blocks[i][(p \div FOUR_KB) + 1], p % FOUR_KB>>
Part(i, n) == [p \in 1..n |-> FileByte(i, p - 1)]

-----------------------------------------------------------------------------
\* file_open, once the name has been found; OpenAtWordZero forgets that word
\* 0 of an inode is the length.
OpenAtWordZero(f, i) ==
  /\ pc = "idle" /\ stage = "none" /\ desc[f].used = 0
  /\ desc' = [desc EXCEPT ![f] =
                [used |-> 1, inode |-> i, file_pos |-> 0, inode_idx |-> 0]]
  /\ got' = [got EXCEPT ![f] = <<>>]
  /\ ret' = 0
  /\ UNCHANGED <<pc, stage, locals, buf>>
file_open(f, i) ==
  /\ pc = "idle" /\ stage = "none" /\ desc[f].used = 0
  /\ desc' = [desc EXCEPT ![f] =
                [used |-> 1, inode |-> i, file_pos |-> 0, inode_idx |-> 1]]
  /\ got' = [got EXCEPT ![f] = <<>>]
  /\ ret' = 0
  /\ UNCHANGED <<pc, stage, locals, buf>>

file_close(f) ==
  /\ pc = "idle" /\ stage = "none" /\ desc[f].used = 1
  /\ desc' = [desc EXCEPT ![f].used = 0, ![f].inode_idx = 0]
  /\ ret' = 0
  /\ UNCHANGED <<pc, stage, locals, buf, got>>

\* The head of read_data: an early return of 0, or the start of the loop.
StartRead(f, i, off, idx, n) ==
  /\ pc = "idle"
  /\ buf' = <<>>
  /\ fd' = f /\ inode' = i /\ offset' = off /\ length' = n /\ inode_idx' = idx
  /\ IF off >= Size[i] \/ idx >= Slots
       THEN ret' = 0 /\ UNCHANGED <<pc, byte_ptr>>
       ELSE /\ pc' = "loop"
            /\ byte_ptr' = <<Word(i, idx), off % FOUR_KB>>
            /\ UNCHANGED ret
  /\ UNCHANGED <<desc, got>>

file_read(f, n) ==
  /\ stage = "none" /\ desc[f].used = 1
  /\ UNCHANGED stage
  /\ StartRead(f, desc[f].inode, desc[f].file_pos, desc[f].inode_idx, n)

\* sys_execute_c reads the header of any regular file, with fd = -1.
LoadHeader(i) ==
  /\ stage = "none" /\ stage' = "header"
  /\ StartRead(-1, i, 0, 0, HeaderLen)

\* The comparison with the ELF magic.  From an empty file read_data stores
\* nothing, and the header is whatever the stack held: either outcome.
MagicFound ==
  \/ buf = <<>>
  \/ Len(buf) >= MagicLen /\ \E b \in Elf : buf[1] = <<b, 0>>
MagicMissing == buf = <<>> \/ ~MagicFound

LoadProgram ==
  /\ stage = "header" /\ stage' = "program"
  /\ MagicFound
  /\ StartRead(-1, inode, 0, 0, LoadLen)

NotExecutable ==
  /\ pc = "idle" /\ stage = "header" /\ stage' = "none"
  /\ MagicMissing
  /\ ret' = -1
  /\ UNCHANGED <<desc, pc, locals, buf, got>>

\* The rest of sys_execute_c, which Kernel models.
Loaded ==
  /\ pc = "idle" /\ stage = "program" /\ stage' = "none"
  /\ UNCHANGED <<desc, pc, locals, buf, ret, got>>

\* What follows the return of read_data in file_read; full tells whether the
\* loop ended with all the bytes copied.  ReturnForgetsIndex does not save the
\* index.
ReturnForgetsIndex(full) ==
  /\ pc' = "idle" /\ ret' = Len(buf)
  /\ IF fd = -1
       THEN UNCHANGED <<desc, got>>
       ELSE /\ desc' = [desc EXCEPT ![fd].file_pos = @ + Len(buf)]
            /\ got' = [got EXCEPT ![fd] = @ \o buf]
  /\ UNCHANGED <<stage, locals, buf>>
Return(full) ==
  /\ pc' = "idle" /\ ret' = Len(buf)
  /\ IF fd = -1
       THEN UNCHANGED <<desc, got>>
       ELSE /\ desc' = [desc EXCEPT ![fd].file_pos = @ + Len(buf),
                                    ![fd].inode_idx = IF full THEN inode_idx ELSE @]
            /\ got' = [got EXCEPT ![fd] = @ \o buf]
  /\ UNCHANGED <<stage, locals, buf>>

\* The for loop ends: all bytes copied.
LoopDone ==
  /\ pc = "loop" /\ Len(buf) >= length
  /\ Return(TRUE)

\* The test for the end of the file in the loop.
EndOfFile ==
  /\ pc = "loop" /\ Len(buf) < length /\ offset >= Size[inode]
  /\ Return(FALSE)

\* The next index: one further at the start of a block other than the first.
Crosses == offset # 0 /\ offset % FOUR_KB = 0

\* Where the while loop stops that skips entries that name no data block;
\* SkippedStrict takes the last data block for none.
SkippedStrict(from, to) ==
  /\ to < Slots => Word(inode, to) < D - 1
  /\ \A k \in from..(to - 1) : Word(inode, k) >= D - 1
Skipped(from, to) ==
  /\ to < Slots => Word(inode, to) < D
  /\ \A k \in from..(to - 1) : Word(inode, k) >= D

\* One iteration: step the index, skip, copy a byte.
CopyByte ==
  LET first == IF Crosses THEN inode_idx + 1 ELSE inode_idx
  IN /\ pc = "loop" /\ Len(buf) < length /\ offset < Size[inode]
     /\ \E last \in first..Slots :
          /\ Skipped(first, last)
          /\ IF last = Slots
               THEN Return(FALSE)
               ELSE LET ptr == IF last = inode_idx THEN byte_ptr
                                                   ELSE <<Word(inode, last), 0>>
                    IN /\ buf' = Append(buf, ptr)
                       /\ byte_ptr' = <<ptr[1], ptr[2] + 1>>
                       /\ inode_idx' = last
                       /\ offset' = offset + 1
                       /\ UNCHANGED <<desc, pc, stage, fd, inode, length, ret, got>>

read_data == LoopDone \/ EndOfFile \/ CopyByte

-----------------------------------------------------------------------------
Init ==
  /\ desc = [f \in Fds |-> Unused]
  /\ pc = "idle" /\ stage = "none"
  /\ fd = -1 /\ inode = 0 /\ offset = 0 /\ length = 0 /\ inode_idx = 0
  /\ byte_ptr = <<0, 0>>
  /\ buf = <<>> /\ ret = 0
  /\ got = [f \in Fds |-> <<>>]

Next ==
  \/ \E f \in Fds : \/ \E i \in Ino : file_open(f, i)
                    \/ file_close(f)
                    \/ \E n \in ReadLen : file_read(f, n)
  \/ \E i \in Ino : LoadHeader(i)
  \/ LoadProgram \/ NotExecutable \/ Loaded
  \/ read_data

Spec == Init /\ [][Next]_vars

-----------------------------------------------------------------------------
(***************************************************************************)
(* Properties.                                                             *)
(***************************************************************************)

\* The positions and indices stay within the file and its inode.
TypeOK ==
  /\ desc \in [Fds -> [used : {0, 1}, inode : Ino \cup {0}, file_pos : Nat,
                       inode_idx : 0..Slots]]
  /\ pc \in {"idle", "loop"} /\ stage \in {"none", "header", "program"}
  /\ fd \in Fds \cup {-1} /\ inode \in Ino \cup {0}
  /\ offset \in Nat /\ length \in Nat /\ inode_idx \in 0..Slots
  /\ \A f \in Fds : desc[f].used = 1 => desc[f].file_pos <= Size[desc[f].inode]

\* Whatever the sizes of the reads, and however they fall on block
\* boundaries, a descriptor has delivered exactly the first file_pos bytes of
\* its file.
StreamExact ==
  \A f \in Fds : desc[f].used = 1 =>
    got[f] = Part(desc[f].inode, desc[f].file_pos)

\* The bytes copied so far by a call continue the file where the descriptor
\* stands; a load copies the file from its first byte, provided the file has
\* at least as many bytes as the image has data blocks: a load starts at word 0
\* of the inode and skips it only if the length is no block number.
CopyExact ==
  pc = "loop" /\ (fd = -1 => Size[inode] >= D) =>
    LET start == IF fd = -1 THEN 0 ELSE desc[fd].file_pos
    IN /\ offset = start + Len(buf)
       /\ \A p \in 1..Len(buf) : buf[p] = FileByte(inode, start + p - 1)

\* A read returns fewer bytes than asked for only at the end of the file:
\* "0 upon completion of reading entire file" (filesys.c:235).
ShortOnlyAtEnd ==
  [][pc = "loop" /\ pc' = "idle" /\ Len(buf) < length => offset = Size[inode]]_vars
=============================================================================
