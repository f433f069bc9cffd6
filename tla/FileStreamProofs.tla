-------------------------- MODULE FileStreamProofs --------------------------
(***************************************************************************)
(* Proofs about FileStream for every block size, every well-formed image   *)
(* and every sequence of reads of any sizes on any number of descriptors.  *)
(***************************************************************************)
EXTENDS FileStream, SequenceTheorems, TLAPS

-----------------------------------------------------------------------------
(* Positions and blocks. *)

\* The number of block boundaries that the index has been stepped over when
\* the position is o: the step for o itself comes with the next byte.
Passed(o) == IF o = 0 THEN 0 ELSE (o - 1) \div FOUR_KB

LEMMA Division ==
  ASSUME NEW n \in Nat
  PROVE  /\ n \div FOUR_KB \in Nat /\ n % FOUR_KB \in Nat
         /\ (n \div FOUR_KB) * FOUR_KB <= n
         /\ (n + 1) % FOUR_KB # 0 =>
              /\ (n + 1) \div FOUR_KB = n \div FOUR_KB
              /\ (n + 1) % FOUR_KB = (n % FOUR_KB) + 1
         /\ (n + 1) % FOUR_KB = 0 => (n + 1) \div FOUR_KB = (n \div FOUR_KB) + 1
         /\ 0 \div FOUR_KB = 0 /\ 0 % FOUR_KB = 0
<1>1. FOUR_KB \in Nat \ {0}
  BY GeometryAssumption
<1>2. n \div FOUR_KB \in Nat /\ n % FOUR_KB \in Nat /\ (n \div FOUR_KB) * FOUR_KB <= n
  BY <1>1
<1>3. (n + 1) % FOUR_KB # 0 =>
        (n + 1) \div FOUR_KB = n \div FOUR_KB /\ (n + 1) % FOUR_KB = (n % FOUR_KB) + 1
  BY <1>1
<1>4. (n + 1) % FOUR_KB = 0 => (n + 1) \div FOUR_KB = (n \div FOUR_KB) + 1
  BY <1>1
<1>5. 0 \div FOUR_KB = 0 /\ 0 % FOUR_KB = 0
  BY <1>1
<1> QED
  BY <1>2, <1>3, <1>4, <1>5

\* Stepping the index when the position crosses a block gives the block of
\* the position.
LEMMA Stepping ==
  ASSUME NEW o \in Nat
  PROVE  /\ Passed(o) \in Nat
         /\ Passed(o + 1) = o \div FOUR_KB
         /\ o # 0 /\ o % FOUR_KB = 0 => o \div FOUR_KB = Passed(o) + 1
         /\ ~(o # 0 /\ o % FOUR_KB = 0) => o \div FOUR_KB = Passed(o)
<1>1. CASE o = 0
  BY <1>1, Division DEF Passed
<1>2. CASE o # 0
  <2>1. o - 1 \in Nat /\ (o - 1) + 1 = o
    BY <1>2
  <2>2. /\ (o - 1) \div FOUR_KB \in Nat
        /\ o % FOUR_KB # 0 => o \div FOUR_KB = (o - 1) \div FOUR_KB
        /\ o % FOUR_KB = 0 => o \div FOUR_KB = ((o - 1) \div FOUR_KB) + 1
    BY <2>1, Division
  <2>3. Passed(o) = (o - 1) \div FOUR_KB /\ Passed(o + 1) = o \div FOUR_KB
    BY <1>2 DEF Passed
  <2> QED
    BY <1>2, <2>2, <2>3
<1> QED
  BY <1>1, <1>2

\* Every byte of a file lies in a data block that its inode names.
LEMMA BlockOf ==
  ASSUME NEW i \in Ino, NEW p \in Nat, p < Size[i]
  PROVE  /\ (p \div FOUR_KB) + 1 \in 1..(Slots - 1)
         /\ Blocks[i][(p \div FOUR_KB) + 1] \in Nat
         /\ Blocks[i][(p \div FOUR_KB) + 1] < D
         /\ p \div FOUR_KB > 0 => Blocks[i][p \div FOUR_KB] < D
<1> DEFINE k == p \div FOUR_KB
<1>1. FOUR_KB \in Nat \ {0} /\ Slots \in Nat /\ Size[i] \in Nat /\ Size[i] <= FOUR_KB * (Slots - 1)
  BY GeometryAssumption, ImageAssumption
<1>2. k \in Nat /\ k * FOUR_KB <= p
  BY Division
<1> HIDE DEF k
<1>3. k * FOUR_KB < Size[i]
  BY <1>1, <1>2
<1>4. k < Slots - 1
  BY <1>1, <1>2, <1>3
<1>5. k + 1 \in 1..(Slots - 1) /\ (k > 0 => k \in 1..(Slots - 1))
  BY <1>1, <1>2, <1>4
<1>6. Blocks[i][k + 1] \in Nat /\ Blocks[i][k + 1] < D
  BY <1>2, <1>3, <1>5, ImageAssumption
<1>7. k > 0 => (k - 1) * FOUR_KB < Size[i]
  BY <1>1, <1>2, <1>3
<1>8. k > 0 => Blocks[i][k] < D
  BY <1>5, <1>7, ImageAssumption
<1> QED
  BY <1>5, <1>6, <1>8 DEF k

\* The beginning of a file is a sequence of bytes.
Byte == Nat \X Nat

LEMMA PartIsSeq ==
  ASSUME NEW i \in Ino, NEW n \in Nat, n <= Size[i]
  PROVE  /\ Part(i, n) \in Seq(Byte) /\ Len(Part(i, n)) = n
         /\ \A p \in 1..n : Part(i, n)[p] = FileByte(i, p - 1)
<1>1. Size[i] \in Nat
  BY ImageAssumption
<1>2. ASSUME NEW p \in 1..n PROVE FileByte(i, p - 1) \in Byte
  <2>1. p - 1 \in Nat /\ p - 1 < Size[i]
    BY <1>1
  <2> QED
    BY <2>1, BlockOf, Division DEF FileByte, Byte
<1>3. Part(i, n) \in [1..n -> Byte]
  BY <1>2 DEF Part
<1>4. Part(i, n) \in Seq(Byte)
  BY <1>3, SeqDef
<1>5. Len(Part(i, n)) = n
  BY <1>3, <1>4, LenProperties
<1> QED
  BY <1>4, <1>5 DEF Part

-----------------------------------------------------------------------------
(***************************************************************************)
(* The inductive invariant.  The index that a descriptor keeps in its      *)
(* flags, and the one of a read_data in progress, count the boundaries     *)
(* that the position has passed; the descriptor's may be stale at the end  *)
(* of the file, where no read uses it.  A load counts from word 0 of the   *)
(* inode until it has skipped that word, if it ever does.                  *)
(***************************************************************************)
Start == IF fd = -1 THEN 0 ELSE desc[fd].file_pos
Exact == fd = -1 => Size[inode] >= D
Base == IF fd = -1 /\ (offset = 0 \/ Size[inode] < D) THEN 0 ELSE 1

Desc == [used : {0, 1}, inode : Ino \cup {0}, file_pos : Nat, inode_idx : 0..Slots]

Types ==
  /\ desc \in [Fds -> Desc]
  /\ pc \in {"idle", "loop"} /\ stage \in {"none", "header", "program"}
  /\ fd \in Fds \cup {-1} /\ inode \in Ino \cup {0}
  /\ offset \in Nat /\ length \in Nat /\ inode_idx \in 0..Slots
  /\ buf \in Seq(Byte) /\ DOMAIN got = Fds

DescState ==
  \A f \in Fds : desc[f].used = 1 =>
    /\ desc[f].inode \in Ino
    /\ desc[f].file_pos <= Size[desc[f].inode]
    /\ desc[f].file_pos < Size[desc[f].inode] =>
         desc[f].inode_idx = 1 + Passed(desc[f].file_pos)

LoopState ==
  /\ stage # "none" => inode \in Ino
  /\ pc = "loop" =>
       /\ inode \in Ino /\ offset <= Size[inode] /\ byte_ptr \in Byte
       /\ fd # -1 => desc[fd].used = 1 /\ desc[fd].inode = inode
       /\ offset = Start + Len(buf)
       /\ inode_idx = Base + Passed(offset)
       /\ Base = 1 /\ Exact /\ ~Crosses => byte_ptr = FileByte(inode, offset)

IInv == Types /\ DescState /\ LoopState /\ StreamExact /\ CopyExact

LEMMA InitIInv == Init => IInv
<1> SUFFICES ASSUME Init PROVE IInv
  OBVIOUS
<1>1. Types
  BY GeometryAssumption, EmptySeq DEF Init, Types, Desc, Unused
<1>2. \A f \in Fds : desc[f].used # 1
  BY DEF Init, Unused
<1>3. pc = "idle" /\ stage = "none"
  BY DEF Init
<1> QED
  BY <1>1, <1>2, <1>3 DEF IInv, DescState, LoopState, StreamExact, CopyExact

\* file_open starts an empty stream, file_close ends one.
LEMMA OpenStep == ASSUME IInv, NEW f \in Fds, NEW i \in Ino, file_open(f, i) PROVE IInv'
<1> DEFINE d == [used |-> 1, inode |-> i, file_pos |-> 0, inode_idx |-> 1]
<1>1. /\ desc' = [desc EXCEPT ![f] = d] /\ got' = [got EXCEPT ![f] = <<>>]
      /\ pc' = "idle" /\ stage' = "none"
      /\ UNCHANGED <<fd, inode, offset, length, inode_idx, byte_ptr, buf>>
  BY DEF file_open, locals
<1>2. Types'
  BY <1>1, GeometryAssumption DEF IInv, Types, Desc
<1>3. desc'[f] = d /\ got'[f] = <<>>
      /\ \A g \in Fds : g # f => desc'[g] = desc[g] /\ got'[g] = got[g]
  BY <1>1 DEF IInv, Types
<1>4. DescState'
  <2>1. Passed(0) = 0 /\ Size[i] \in Nat
    BY ImageAssumption DEF Passed
  <2> QED
    BY <1>3, <2>1 DEF IInv, DescState
<1>5. StreamExact'
  <2>1. Part(i, 0) = <<>>
    <3>1. Part(i, 0) \in Seq(Byte) /\ Len(Part(i, 0)) = 0
      BY ImageAssumption, PartIsSeq
    <3> QED
      BY <3>1, EmptySeq
  <2> QED
    BY <1>3, <2>1 DEF IInv, StreamExact
<1>6. LoopState' /\ CopyExact'
  BY <1>1 DEF LoopState, CopyExact
<1> QED
  BY <1>2, <1>4, <1>5, <1>6 DEF IInv

LEMMA CloseStep == ASSUME IInv, NEW f \in Fds, file_close(f) PROVE IInv'
<1>1. /\ desc' = [desc EXCEPT ![f].used = 0, ![f].inode_idx = 0]
      /\ pc' = "idle" /\ stage' = "none"
      /\ UNCHANGED <<fd, inode, offset, length, inode_idx, byte_ptr, buf, got>>
  BY DEF file_close, locals
<1>2. desc'[f] = [desc[f] EXCEPT !.used = 0, !.inode_idx = 0]
      /\ DOMAIN desc' = Fds /\ \A g \in Fds : g # f => desc'[g] = desc[g]
  BY <1>1 DEF IInv, Types
<1>3. desc'[f].used = 0 /\ desc'[f] \in Desc
  <2>1. desc[f] \in Desc /\ 0 \in 0..Slots
    BY GeometryAssumption DEF IInv, Types
  <2> QED
    BY <1>2, <2>1 DEF Desc
<1>4. Types'
  <2>1. desc' \in [Fds -> Desc]
    BY <1>1, <1>2, <1>3 DEF IInv, Types
  <2> QED
    BY <1>1, <2>1 DEF IInv, Types
<1>5. DescState' /\ StreamExact'
  BY <1>1, <1>2, <1>3 DEF IInv, DescState, StreamExact
<1>6. LoopState' /\ CopyExact'
  BY <1>1 DEF LoopState, CopyExact
<1> QED
  BY <1>4, <1>5, <1>6 DEF IInv

\* The head of read_data, for a descriptor and for a load.
LEMMA StartStep ==
  ASSUME IInv, NEW f \in Fds \cup {-1}, NEW i \in Ino, NEW off \in Nat,
         NEW idx \in 0..Slots, NEW n \in Nat,
         StartRead(f, i, off, idx, n), stage' \in {"none", "header", "program"},
         f = -1 => off = 0 /\ idx = 0,
         f # -1 => /\ desc[f].used = 1 /\ desc[f].inode = i /\ desc[f].file_pos = off
                   /\ desc[f].inode_idx = idx
  PROVE  IInv'
<1>1. /\ buf' = <<>> /\ Len(buf') = 0 /\ buf' \in Seq(Byte)
      /\ fd' = f /\ inode' = i /\ offset' = off /\ length' = n /\ inode_idx' = idx
      /\ pc' \in {"idle", "loop"}
      /\ pc' = "loop" => off < Size[i] /\ idx < Slots /\ byte_ptr' = <<Word(i, idx), off % FOUR_KB>>
      /\ UNCHANGED <<desc, got>>
  <2>1. Size[i] \in Nat /\ Slots \in Nat /\ pc = "idle"
    BY ImageAssumption, GeometryAssumption DEF StartRead
  <2> QED
    BY <2>1, EmptySeq DEF StartRead
<1>2. Types'
  BY <1>1 DEF IInv, Types
<1>3. DescState' /\ StreamExact'
  BY <1>1 DEF IInv, DescState, StreamExact
<1>4. ASSUME pc' = "loop"
      PROVE  /\ offset' <= Size[inode'] /\ byte_ptr' \in Byte
             /\ offset' = Start' + Len(buf')
             /\ inode_idx' = Base' + Passed(offset')
             /\ Base' = 1 /\ ~Crosses' => byte_ptr' = FileByte(inode', offset')
  <2>1. off < Size[i] /\ idx < Slots /\ byte_ptr' = <<Word(i, idx), off % FOUR_KB>>
        /\ Size[i] \in Nat
    BY <1>1, <1>4, ImageAssumption
  <2>2. Word(i, idx) \in Nat
    <3>1. idx # 0 => idx \in 1..(Slots - 1)
      BY <2>1, GeometryAssumption
    <3> QED
      BY <2>1, <3>1, ImageAssumption DEF Word
  <2>3. byte_ptr' \in Byte
    BY <2>1, <2>2, Division DEF Byte
  <2>4. CASE f = -1
    <3>1. Base' = 0 /\ Start' = 0 /\ Passed(off) = 0
      BY <1>1, <2>4 DEF Base, Start, Passed
    <3> QED
      BY <1>1, <2>1, <2>3, <2>4, <3>1
  <2>5. CASE f # -1
    <3>1. Base' = 1 /\ Start' = off
      BY <1>1, <2>5 DEF Base, Start
    <3>2. idx = 1 + Passed(off)
      BY <2>1, <2>5 DEF IInv, DescState
    <3>3. Crosses' <=> off # 0 /\ off % FOUR_KB = 0
      BY <1>1 DEF Crosses
    <3>4. ~Crosses' => idx = (off \div FOUR_KB) + 1
      BY <3>2, <3>3, Stepping
    <3>5. idx # 0
      BY <3>2, Stepping
    <3>6. ~Crosses' => byte_ptr' = FileByte(i, off)
      BY <2>1, <3>4, <3>5 DEF FileByte, Word
    <3> QED
      BY <1>1, <2>1, <2>3, <3>1, <3>2, <3>6
  <2> QED
    BY <2>4, <2>5
<1>5. LoopState'
  BY <1>1, <1>4 DEF LoopState
<1>6. CopyExact'
  BY <1>1, <1>4 DEF CopyExact, Start
<1> QED
  BY <1>2, <1>3, <1>5, <1>6 DEF IInv

-----------------------------------------------------------------------------
(* The loop of read_data. *)

\* The skipping loop stops at the block of the position: an entry that names
\* no data block is word 0, of a load whose file is long enough.
LEMMA SkipStops ==
  ASSUME IInv, pc = "loop", offset < Size[inode],
         NEW last \in (IF Crosses THEN inode_idx + 1 ELSE inode_idx)..Slots,
         Skipped(IF Crosses THEN inode_idx + 1 ELSE inode_idx, last)
  PROVE  /\ last < Slots
         /\ last = (offset \div FOUR_KB) + (IF Exact THEN 1 ELSE 0)
         /\ Exact => Word(inode, last) = Blocks[inode][(offset \div FOUR_KB) + 1]
         /\ Word(inode, last) \in Nat
<1> DEFINE first == IF Crosses THEN inode_idx + 1 ELSE inode_idx
           k == offset \div FOUR_KB
<1>1. /\ inode \in Ino /\ offset \in Nat /\ inode_idx = Base + Passed(offset)
      /\ Size[inode] \in Nat /\ D \in Nat /\ Slots \in Nat \ {0} /\ fd \in Fds \cup {-1}
  BY GeometryAssumption, ImageAssumption DEF IInv, Types, LoopState
<1>2. k \in Nat /\ first = Base + k
  <2>1. Base \in {0, 1}
    BY DEF Base
  <2>2. k \in Nat /\ (Crosses => k = Passed(offset) + 1) /\ (~Crosses => k = Passed(offset))
    BY <1>1, Stepping, Division DEF Crosses
  <2>3. Passed(offset) \in Nat
    BY <1>1, Stepping
  <2> HIDE DEF k
  <2> QED
    BY <1>1, <2>1, <2>2, <2>3
<1>3. /\ k + 1 \in 1..(Slots - 1) /\ Blocks[inode][k + 1] \in Nat
      /\ Blocks[inode][k + 1] < D /\ (k > 0 => Blocks[inode][k] < D)
  BY <1>1, BlockOf
<1>4. last \in first..Slots /\ (last < Slots => Word(inode, last) < D)
      /\ \A j \in first..(last - 1) : Word(inode, j) >= D
  BY DEF Skipped
<1>5. Word(inode, k + 1) = Blocks[inode][k + 1] /\ (k > 0 => Word(inode, k) = Blocks[inode][k])
      /\ Word(inode, 0) = Size[inode]
  BY <1>2 DEF Word
<1> HIDE DEF first, k
<1>6. CASE Base = 1
  <2>1. first = k + 1 /\ Word(inode, first) < D /\ Word(inode, first) \in Nat
    BY <1>2, <1>3, <1>5, <1>6
  <2>2. ~(first < last)
    BY <1>1, <1>2, <1>4, <2>1
  <2>3. last = k + 1
    BY <1>2, <1>4, <2>1, <2>2
  <2>4. Exact
    BY <1>1, <1>6 DEF Exact, Base
  <2> QED
    BY <1>1, <1>2, <1>3, <1>5, <2>3, <2>4 DEF k
<1>7. CASE Base = 0 /\ Size[inode] < D
  <2>1. ~Exact
    BY <1>1, <1>7 DEF Exact, Base
  <2>2. first = k /\ Word(inode, first) < D /\ Word(inode, first) \in Nat
    <3>1. k = 0 => Word(inode, k) = Size[inode]
      BY <1>5
    <3>2. k > 0 => Word(inode, k) < D /\ Word(inode, k) \in Nat
      <4>1. k > 0 => k \in 1..(Slots - 1)
        BY <1>1, <1>2, <1>3
      <4> QED
        BY <1>1, <1>3, <1>5, <4>1, ImageAssumption
    <3> QED
      BY <1>1, <1>2, <1>7, <3>1, <3>2
  <2>3. ~(first < last)
    BY <1>1, <1>2, <1>4, <2>2
  <2>4. last = k
    BY <1>2, <1>4, <2>2, <2>3
  <2> QED
    BY <1>1, <1>2, <1>3, <2>1, <2>2, <2>4 DEF k
<1>8. CASE Base = 0 /\ Size[inode] >= D
  <2>1. Exact /\ offset = 0
    BY <1>1, <1>8 DEF Exact, Base
  <2>2. k = 0 /\ first = 0
    BY <1>2, <1>8, <2>1, Division DEF k
  <2>3. Word(inode, 1) < D /\ Word(inode, 1) \in Nat /\ 1 < Slots
    BY <1>1, <1>3, <1>5, <2>2
  <2>4. last # 0
    BY <1>1, <1>4, <1>5, <1>8
  <2>5. ~(1 < last)
    BY <1>1, <1>4, <2>2, <2>3
  <2>6. last = 1
    BY <1>1, <1>4, <2>2, <2>4, <2>5
  <2> QED
    BY <1>5, <2>1, <2>2, <2>3, <2>6 DEF k
<1>9. Base \in {0, 1}
  BY DEF Base
<1> QED
  BY <1>1, <1>6, <1>7, <1>8, <1>9

\* So every iteration copies the byte at the position.
LEMMA CopyStep ==
  ASSUME IInv, CopyByte
  PROVE  /\ IInv' /\ pc' = "loop"
<1>1. pc = "loop" /\ offset < Size[inode] /\ inode \in Ino /\ offset \in Nat
      /\ Size[inode] \in Nat /\ byte_ptr \in Byte /\ buf \in Seq(Byte) /\ Len(buf) \in Nat
      /\ D \in Nat /\ inode_idx = Base + Passed(offset) /\ fd \in Fds \cup {-1}
  BY ImageAssumption, GeometryAssumption, LenProperties
     DEF CopyByte, IInv, Types, LoopState
<1> DEFINE first == IF Crosses THEN inode_idx + 1 ELSE inode_idx
           k == offset \div FOUR_KB
           Ptr(last) == IF last = inode_idx THEN byte_ptr ELSE <<Word(inode, last), 0>>
<1>2. PICK last \in first..Slots :
        /\ Skipped(first, last)
        /\ last # Slots =>
             /\ buf' = Append(buf, Ptr(last))
             /\ byte_ptr' = <<Ptr(last)[1], Ptr(last)[2] + 1>>
             /\ inode_idx' = last
             /\ offset' = offset + 1
             /\ UNCHANGED <<desc, pc, stage, fd, inode, length, ret, got>>
  BY DEF CopyByte
<1> DEFINE ptr == Ptr(last)
<1>3. /\ last < Slots /\ last = k + (IF Exact THEN 1 ELSE 0)
      /\ Exact => Word(inode, last) = Blocks[inode][k + 1]
      /\ Word(inode, last) \in Nat
  BY <1>1, <1>2, SkipStops
<1>4. /\ buf' = Append(buf, ptr) /\ byte_ptr' = <<ptr[1], ptr[2] + 1>>
      /\ inode_idx' = last /\ offset' = offset + 1
      /\ UNCHANGED <<desc, pc, stage, fd, inode, length, got>>
  BY <1>2, <1>3, GeometryAssumption
<1>5. k \in Nat /\ offset % FOUR_KB \in Nat /\ Passed(offset) \in Nat
      /\ (Crosses => k = Passed(offset) + 1) /\ (~Crosses => k = Passed(offset))
      /\ Passed(offset + 1) = k
  BY <1>1, Stepping, Division DEF Crosses
<1>6. ptr \in Byte
  BY <1>1, <1>3 DEF Byte
<1>7. Exact => ptr = FileByte(inode, offset)
  <2> SUFFICES ASSUME Exact PROVE ptr = FileByte(inode, offset)
    OBVIOUS
  <2>1. FileByte(inode, offset) = <<Word(inode, last), offset % FOUR_KB>> /\ last = k + 1
    BY <1>3 DEF FileByte
  <2>2. CASE Crosses
    <3>1. last # inode_idx
      BY <1>1, <1>5, <2>1, <2>2 DEF Base
    <3>2. offset % FOUR_KB = 0
      BY <2>2 DEF Crosses
    <3> QED
      BY <2>1, <3>1, <3>2
  <2>3. CASE ~Crosses /\ Base = 1
    <3>1. last = inode_idx
      BY <1>1, <1>5, <2>1, <2>3
    <3> QED
      BY <1>1, <2>3, <3>1 DEF IInv, LoopState
  <2>4. CASE ~Crosses /\ Base = 0
    <3>1. offset = 0 /\ last # inode_idx
      BY <1>1, <1>5, <2>1, <2>4 DEF Base, Exact
    <3>2. offset % FOUR_KB = 0
      BY <3>1, Division
    <3> QED
      BY <2>1, <3>1, <3>2
  <2> QED
    BY <2>2, <2>3, <2>4 DEF Base
<1> HIDE DEF ptr, k, first
<1>8. /\ buf' \in Seq(Byte) /\ Len(buf') = Len(buf) + 1
      /\ \A p \in 1..Len(buf) : buf'[p] = buf[p]
      /\ buf'[Len(buf) + 1] = ptr
  BY <1>1, <1>4, <1>6, AppendProperties
<1>9. Types'
  <2>1. last \in 0..Slots
    BY <1>2, <1>3, <1>5, GeometryAssumption
  <2> QED
    BY <1>1, <1>4, <1>8, <2>1 DEF IInv, Types
<1>10. DescState' /\ StreamExact'
  BY <1>4 DEF IInv, DescState, StreamExact
<1>11. Start' = Start /\ Start \in Nat /\ offset' = Start + Len(buf')
       /\ (Exact' <=> Exact) /\ inode' = inode
  <2>1. Start' = Start /\ (Exact' <=> Exact) /\ inode' = inode
    BY <1>4 DEF Start, Exact
  <2>2. offset = Start + Len(buf)
    BY <1>1 DEF IInv, LoopState
  <2>3. Start \in Nat
    BY <1>1 DEF Start, IInv, Types, Desc
  <2> QED
    BY <1>1, <1>4, <1>8, <2>1, <2>2, <2>3
<1>12. LoopState'
  <2>1. Base' = IF Exact THEN 1 ELSE 0
    BY <1>1, <1>4 DEF Base, Exact
  <2>2. inode_idx' = Base' + Passed(offset')
    BY <1>3, <1>4, <1>5, <2>1
  <2>3. byte_ptr' \in Byte
    BY <1>4, <1>6 DEF Byte
  <2>4. ASSUME Exact, ~Crosses' PROVE byte_ptr' = FileByte(inode, offset')
    <3>1. (offset + 1) % FOUR_KB # 0
      BY <1>1, <1>4, <2>4 DEF Crosses
    <3>2. /\ (offset + 1) \div FOUR_KB = offset \div FOUR_KB
          /\ (offset + 1) % FOUR_KB = (offset % FOUR_KB) + 1
      BY <1>1, <3>1, Division
    <3>3. ptr = <<Blocks[inode][(offset \div FOUR_KB) + 1], offset % FOUR_KB>>
      BY <1>7, <2>4 DEF FileByte
    <3> QED
      BY <1>4, <3>2, <3>3 DEF FileByte
  <2> QED
    BY <1>1, <1>4, <1>11, <2>2, <2>3, <2>4 DEF IInv, LoopState
<1>13. CopyExact'
  <2> SUFFICES ASSUME Exact
               PROVE  \A p \in 1..Len(buf') : buf'[p] = FileByte(inode, Start + p - 1)
    BY <1>1, <1>4, <1>11 DEF CopyExact, Exact, Start
  <2>1. \A p \in 1..Len(buf) : buf[p] = FileByte(inode, Start + p - 1)
    BY <1>1 DEF IInv, CopyExact, Exact, Start
  <2>2. offset = Start + (Len(buf) + 1) - 1
    BY <1>1, <1>4, <1>8, <1>11
  <2>3. ASSUME NEW p \in 1..Len(buf') PROVE p \in 1..Len(buf) \/ p = Len(buf) + 1
    BY <1>1, <1>8
  <2> QED
    BY <1>7, <1>8, <2>1, <2>2, <2>3
<1> QED
  BY <1>1, <1>4, <1>9, <1>10, <1>12, <1>13 DEF IInv

\* The return of read_data appends what was copied to the stream.
LEMMA ReturnStep ==
  ASSUME IInv, pc = "loop", NEW full \in BOOLEAN, Return(full),
         ~full => offset >= Size[inode]
  PROVE  IInv'
<1>1. /\ inode \in Ino /\ offset \in Nat /\ Size[inode] \in Nat /\ offset <= Size[inode]
      /\ buf \in Seq(Byte) /\ Len(buf) \in Nat /\ inode_idx \in 0..Slots
      /\ fd \in Fds \cup {-1} /\ offset = Start + Len(buf)
  BY ImageAssumption, LenProperties DEF IInv, Types, LoopState
<1>2. pc' = "idle" /\ UNCHANGED <<stage, fd, inode, offset, length, inode_idx, buf>>
  BY DEF Return, locals
<1>3. LoopState' /\ CopyExact'
  BY <1>2 DEF IInv, LoopState, CopyExact
<1>4. CASE fd = -1
  <2>1. UNCHANGED <<desc, got>>
    BY <1>4 DEF Return
  <2> QED
    BY <1>2, <1>3, <2>1 DEF IInv, Types, DescState, StreamExact
<1>5. CASE fd # -1
  <2> DEFINE pos == desc[fd].file_pos
             idx == IF full THEN inode_idx ELSE desc[fd].inode_idx
             d == [used |-> 1, inode |-> inode, file_pos |-> offset, inode_idx |-> idx]
  <2>1. /\ fd \in Fds /\ desc[fd] \in Desc /\ desc[fd].used = 1 /\ desc[fd].inode = inode
        /\ pos \in Nat /\ offset = pos + Len(buf) /\ inode_idx = 1 + Passed(offset)
    BY <1>1, <1>5 DEF IInv, Types, LoopState, Start, Base, Desc
  <2>2. desc' = [desc EXCEPT ![fd].file_pos = @ + Len(buf), ![fd].inode_idx = idx]
        /\ got' = [got EXCEPT ![fd] = @ \o buf]
    BY <1>5, <2>1 DEF Return, IInv, Types
  <2>3. idx \in 0..Slots
    BY <1>1, <2>1 DEF Desc
  <2> HIDE DEF idx
  <2>4. desc'[fd] = d /\ DOMAIN desc' = Fds /\ \A g \in Fds : g # fd => desc'[g] = desc[g]
    <3>1. desc'[fd] = [desc[fd] EXCEPT !.file_pos = @ + Len(buf), !.inode_idx = idx]
          /\ DOMAIN desc' = Fds /\ \A g \in Fds : g # fd => desc'[g] = desc[g]
      BY <2>1, <2>2 DEF IInv, Types
    <3> QED
      BY <2>1, <3>1 DEF Desc
  <2>5. got'[fd] = got[fd] \o buf /\ DOMAIN got' = Fds /\ \A g \in Fds : g # fd => got'[g] = got[g]
    BY <2>1, <2>2 DEF IInv, Types
  <2>6. d \in Desc
    BY <1>1, <2>3 DEF Desc
  <2>7. Types'
    <3>1. desc' \in [Fds -> Desc]
      BY <2>2, <2>4, <2>6 DEF IInv, Types
    <3> QED
      BY <1>2, <2>5, <3>1 DEF IInv, Types
  <2>8. offset < Size[inode] => idx = 1 + Passed(offset)
    BY <1>1, <2>1 DEF idx
  <2>9. DescState'
    BY <1>1, <2>4, <2>8 DEF IInv, DescState
  <2>10. got[fd] \o buf = Part(inode, offset)
    <3>1. pos \in Nat /\ offset = pos + Len(buf)
      BY <2>1
    <3>2. got[fd] = Part(inode, pos) /\ pos <= Size[inode]
      BY <1>1, <2>1 DEF IInv, StreamExact
    <3>3. \A p \in 1..Len(buf) : buf[p] = FileByte(inode, pos + p - 1)
      BY <1>5 DEF IInv, CopyExact
    <3> HIDE DEF pos
    <3>4. /\ got[fd] \in Seq(Byte) /\ Len(got[fd]) = pos
          /\ \A p \in 1..pos : got[fd][p] = FileByte(inode, p - 1)
      BY <1>1, <3>1, <3>2, PartIsSeq
    <3>5. /\ got[fd] \o buf \in Seq(Byte) /\ Len(got[fd] \o buf) = offset
          /\ \A p \in 1..offset :
               (got[fd] \o buf)[p] = IF p <= pos THEN got[fd][p] ELSE buf[p - pos]
      BY <1>1, <3>1, <3>4, ConcatProperties
    <3>6. ASSUME NEW p \in 1..offset PROVE (got[fd] \o buf)[p] = FileByte(inode, p - 1)
      <4>1. CASE p <= pos
        BY <3>1, <3>4, <3>5, <4>1
      <4>2. CASE ~(p <= pos)
        <5>1. p - pos \in 1..Len(buf) /\ pos + (p - pos) - 1 = p - 1
          BY <1>1, <3>1, <4>2
        <5> QED
          BY <3>3, <3>5, <4>2, <5>1
      <4> QED
        BY <4>1, <4>2
    <3>7. /\ Part(inode, offset) \in Seq(Byte) /\ Len(Part(inode, offset)) = offset
          /\ \A p \in 1..offset : Part(inode, offset)[p] = FileByte(inode, p - 1)
      BY <1>1, PartIsSeq
    <3> QED
      BY <3>5, <3>6, <3>7, SeqEqual
  <2>11. StreamExact'
    BY <2>4, <2>5, <2>10 DEF IInv, StreamExact
  <2> QED
    BY <1>3, <2>7, <2>9, <2>11 DEF IInv
<1> QED
  BY <1>4, <1>5

LEMMA NextIInv == IInv /\ [Next]_vars => IInv'
<1> SUFFICES ASSUME IInv, [Next]_vars PROVE IInv'
  OBVIOUS
<1>1. CASE UNCHANGED vars
  BY <1>1 DEF vars, locals, IInv, Types, DescState, LoopState, StreamExact, CopyExact,
              Start, Base, Exact, Crosses
<1>2. ASSUME NEW f \in Fds, NEW n \in ReadLen, file_read(f, n) PROVE IInv'
  <2>1. desc[f].used = 1 /\ desc[f] \in Desc /\ desc[f].inode \in Ino
    BY <1>2 DEF file_read, IInv, Types, DescState
  <2>2. StartRead(f, desc[f].inode, desc[f].file_pos, desc[f].inode_idx, n)
        /\ stage' = "none" /\ n \in Nat /\ f # -1
    BY <1>2, GeometryAssumption DEF file_read
  <2>3. desc[f].file_pos \in Nat /\ desc[f].inode_idx \in 0..Slots
    BY <2>1 DEF Desc
  <2> QED
    BY <2>1, <2>2, <2>3, StartStep
<1>3. ASSUME NEW i \in Ino, LoadHeader(i) PROVE IInv'
  BY <1>3, StartStep, GeometryAssumption DEF LoadHeader
<1>4. CASE LoadProgram
  <2>1. inode \in Ino /\ StartRead(-1, inode, 0, 0, LoadLen) /\ stage' = "program"
    BY <1>4 DEF LoadProgram, IInv, LoopState
  <2> QED
    BY <2>1, StartStep, GeometryAssumption
<1>5. CASE NotExecutable \/ Loaded
  <2>1. pc' = "idle" /\ stage' = "none" /\ UNCHANGED <<desc, locals, buf, got>>
    BY <1>5 DEF NotExecutable, Loaded
  <2> QED
    BY <2>1 DEF locals, IInv, Types, DescState, LoopState, StreamExact, CopyExact
<1>6. CASE LoopDone
  BY <1>6, ReturnStep DEF LoopDone
<1>7. CASE EndOfFile
  BY <1>7, ReturnStep DEF EndOfFile
<1> QED
  BY <1>1, <1>2, <1>3, <1>4, <1>5, <1>6, <1>7, OpenStep, CloseStep, CopyStep
     DEF Next, read_data

THEOREM Invariance == Spec => []IInv
BY InitIInv, NextIInv, PTL DEF Spec

-----------------------------------------------------------------------------
(***************************************************************************)
(* Consequences.                                                           *)
(***************************************************************************)

\* Every descriptor has delivered exactly the bytes before its position,
\* although read_data finds the block by stepping an index.
THEOREM StreamCorrect == Spec => []StreamExact
<1>1. IInv => StreamExact
  BY DEF IInv
<1> QED
  BY <1>1, Invariance, PTL

\* A call in progress, and a load of a file that is long enough, copies the
\* file's bytes in order.
THEOREM CopyCorrect == Spec => []CopyExact
<1>1. IInv => CopyExact
  BY DEF IInv
<1> QED
  BY <1>1, Invariance, PTL

\* read_data never runs out of inode entries: only the end of the file cuts a
\* read or a load short.
THEOREM ShortReadsCorrect == Spec => ShortOnlyAtEnd
<1>1. IInv /\ [Next]_vars =>
        [pc = "loop" /\ pc' = "idle" /\ Len(buf) < length => offset = Size[inode]]_vars
  <2> SUFFICES ASSUME IInv, Next, pc = "loop", pc' = "idle", Len(buf) < length
               PROVE  offset = Size[inode]
    OBVIOUS
  <2>1. offset \in Nat /\ Size[inode] \in Nat /\ offset <= Size[inode]
        /\ Len(buf) \in Nat /\ length \in Nat
    BY ImageAssumption, LenProperties DEF IInv, Types, LoopState
  <2>2. read_data
    BY DEF Next, file_open, file_close, file_read, LoadHeader, LoadProgram, StartRead,
           NotExecutable, Loaded
  <2>3. ~(Len(buf) >= length)
    BY <2>1
  <2>4. ~LoopDone
    BY <2>3 DEF LoopDone
  <2>5. ~CopyByte
    BY CopyStep
  <2>6. offset >= Size[inode]
    BY <2>2, <2>4, <2>5 DEF read_data, EndOfFile
  <2> QED
    BY <2>1, <2>6
<1> QED
  BY <1>1, Invariance, PTL DEF Spec, ShortOnlyAtEnd
=============================================================================
