--------------------------- MODULE TerminalProofs ---------------------------
(***************************************************************************)
(* Proofs about Terminal for every size of key_buf, every set of keys and  *)
(* any number of key events at any point of terminal_read.                 *)
(***************************************************************************)
EXTENDS Terminal, TLAPS

-----------------------------------------------------------------------------
(* The arrays. *)

LEMMA StoredCell ==
  ASSUME NEW a \in Array, NEW n \in Int, NEW c \in Symbols
  PROVE  /\ Stored(a, n, c) \in Array
         /\ n \in 0..(KEY_BUF_SIZE - 1) => Stored(a, n, c)[n] = c
         /\ \A j \in 0..(KEY_BUF_SIZE - 1) : j # n => Stored(a, n, c)[j] = a[j]
BY DEF Stored, Array

\* Arrays that agree on the first n cells have the same first n cells.
LEMMA SameCells ==
  ASSUME NEW a, NEW b, NEW n, \A j \in 0..(n - 1) : a[j] = b[j]
  PROVE  Cells(a, n) = Cells(b, n)
BY DEF Cells

LEMMA SymbolFacts ==
  /\ NUL \in Symbols
  /\ \A k \in Key : \A d : Symbol(d, k) \in Symbols /\ Symbol(d, k).key = k
BY DEF NUL, Symbols, Symbol

LEMMA BlankArray == Blank \in Array
BY SymbolFacts DEF Blank, Array

-----------------------------------------------------------------------------
(* What one key does to the line. *)

\* The line stays within key_buf; a key moves its end by at most one byte and
\* changes no byte below both ends; a byte that is erased stays until the next
\* backspace stores 0 over it; an Enter that is not dropped is the last byte.
LEMMA EditedLine ==
  ASSUME key_buf \in Array, key_buf_index \in 0..KEY_BUF_SIZE, ctrl_mode \in {0, 1},
         NEW k \in Key, NEW d, Edit(k, d)
  PROVE  /\ key_buf' \in Array /\ key_buf_index' \in 0..KEY_BUF_SIZE
         /\ \A j \in 0..(KEY_BUF_SIZE - 1) : j # key_buf_index => key_buf'[j] = key_buf[j]
         /\ \/ key_buf_index' = key_buf_index + 1
            \/ /\ key_buf_index' = key_buf_index - 1
               /\ key_buf_index < KEY_BUF_SIZE => key_buf'[key_buf_index] = NUL
            \/ key_buf_index' = key_buf_index /\ key_buf' = key_buf
         /\ k = "enter" => \/ key_buf_index' = KEY_BUF_SIZE
                           \/ ctrl_mode = 1
                           \/ /\ key_buf_index' > 0
                              /\ key_buf'[key_buf_index' - 1].key = "enter"
<1>1. KEY_BUF_SIZE \in Nat /\ KEY_BUF_SIZE > 0
  BY SizeAssumption
<1>2. CASE /\ Types(k)
           /\ key_buf' = Stored(key_buf, key_buf_index, Symbol(d, k))
           /\ key_buf_index' = key_buf_index + 1
  <2>1. key_buf_index \in 0..(KEY_BUF_SIZE - 1)
    BY <1>1, <1>2 DEF Types
  <2>2. Symbol(d, k) \in Symbols /\ Symbol(d, k).key = k
    BY SymbolFacts
  <2>3. /\ key_buf' \in Array
        /\ key_buf'[key_buf_index] = Symbol(d, k)
        /\ \A j \in 0..(KEY_BUF_SIZE - 1) : j # key_buf_index => key_buf'[j] = key_buf[j]
    BY <1>2, <2>1, <2>2, StoredCell
  <2>4. key_buf_index' \in 0..KEY_BUF_SIZE /\ key_buf_index' > 0
        /\ key_buf_index' - 1 = key_buf_index
    BY <1>1, <1>2, <2>1
  <2> QED
    BY <1>2, <2>2, <2>3, <2>4
<1>3. CASE /\ Erases(k)
           /\ key_buf' = Stored(key_buf, key_buf_index, NUL)
           /\ key_buf_index' = key_buf_index - 1
  <2>1. k = "backspace" /\ key_buf_index > 0
    BY <1>3 DEF Erases
  <2>2. /\ key_buf' \in Array
        /\ key_buf_index \in 0..(KEY_BUF_SIZE - 1) => key_buf'[key_buf_index] = NUL
        /\ \A j \in 0..(KEY_BUF_SIZE - 1) : j # key_buf_index => key_buf'[j] = key_buf[j]
    BY <1>3, StoredCell, SymbolFacts
  <2>3. key_buf_index' \in 0..KEY_BUF_SIZE
    BY <1>1, <1>3, <2>1
  <2>4. key_buf_index < KEY_BUF_SIZE => key_buf_index \in 0..(KEY_BUF_SIZE - 1)
    BY <1>1
  <2> QED
    BY <1>3, <2>1, <2>2, <2>3, <2>4
<1>4. CASE ~Types(k) /\ ~Erases(k) /\ UNCHANGED line
  <2>1. key_buf' = key_buf /\ key_buf_index' = key_buf_index
    BY <1>4 DEF line
  <2>2. k = "enter" => key_buf_index = KEY_BUF_SIZE \/ ctrl_mode = 1
    BY <1>1, <1>4 DEF Types, ModeKey
  <2> QED
    BY <2>1, <2>2
<1> QED
  BY <1>2, <1>3, <1>4 DEF Edit

-----------------------------------------------------------------------------
(***************************************************************************)
(* The inductive invariant.  The steps of the read are told apart by what  *)
(* each relies on: a read that waits has copied nothing and seen no Enter  *)
(* of its own before it polls, a flag that is set is one that is due, and  *)
(* keys are counted only during the copy.                                  *)
(***************************************************************************)
ReadState ==
  /\ enter_flag = 1 => due
  /\ pc = "clear" => ~entered
  /\ pc = "poll" => i = 0
  /\ ~Watched => hits = 0

IInv == TypeOK /\ ReadState /\ EnterPerRead /\ LineEndsWithNewline

LEMMA InitIInv == Init => IInv
<1> SUFFICES ASSUME Init PROVE IInv
  OBVIOUS
<1>1. TypeOK
  <2>1. entered \in BOOLEAN /\ due \in BOOLEAN
    BY DEF Init
  <2> QED
    BY <2>1, SizeAssumption, HitsAssumption, BlankArray DEF Init, TypeOK
<1>2. ReadState /\ EnterPerRead /\ LineEndsWithNewline
  BY DEF Init, ReadState, Watched, EnterPerRead, LineEndsWithNewline
<1> QED
  BY <1>1, <1>2 DEF IInv

\* A key, at any point of a read.
LEMMA KeyStep == ASSUME IInv, NEW k \in Key, KeyHandler(k) PROVE IInv'
<1> USE DEF IInv
<1>1. /\ key_buf \in Array /\ key_buf_index \in 0..KEY_BUF_SIZE
      /\ ctrl_mode \in {0, 1}
  BY DEF TypeOK
<1>2. Edit(k, dict') /\ pc' = pc /\ buffer' = buffer /\ i' = i
  BY DEF KeyHandler
<1>3. key_buf' \in Array /\ key_buf_index' \in 0..KEY_BUF_SIZE
  BY <1>1, <1>2, EditedLine
<1>4. shift_mode' \in {0, 1} /\ caps_mode' \in {0, 1} /\ ctrl_mode' \in {0, 1}
  BY DEF KeyHandler, TypeOK
<1>5. dict' \in 0..2
  BY DEF KeyHandler, DictFor
<1>6. TypeOK'
  <2>1. enter_flag' \in {0, 1} /\ hits' \in 0..MaxHits
    BY HitsAssumption DEF KeyHandler, TypeOK
  <2>2. entered' \in BOOLEAN /\ due' \in BOOLEAN
    BY DEF KeyHandler, TypeOK
  <2> QED
    BY <1>2, <1>3, <1>4, <1>5, <2>1, <2>2 DEF TypeOK
<1>7. ReadState'
  <2>0. enter_flag' = (IF k = "enter" THEN 1 ELSE 0)
    BY DEF KeyHandler
  <2>1. enter_flag' = 1 => due'
    <3>1. enter_flag' = 1 => k = "enter"
      BY <2>0
    <3>2. k = "enter" => due'
      BY DEF KeyHandler
    <3> QED
      BY <3>1, <3>2
  <2>2. pc' = "clear" => ~entered'
    BY <1>2 DEF KeyHandler, ReadState
  <2>3. ~Watched' => hits' = 0
    BY <1>2 DEF KeyHandler, ReadState, Watched
  <2> QED
    BY <1>2, <2>1, <2>2, <2>3 DEF ReadState
<1>8. EnterPerRead'
  <2>1. due' = (due \/ k = "enter")
    BY DEF KeyHandler
  <2> QED
    BY <1>2, <2>1 DEF EnterPerRead, Watched
<1>9. LineEndsWithNewline'
  <2> SUFFICES ASSUME enter_flag' = 1
               PROVE  \/ key_buf_index' = KEY_BUF_SIZE
                      \/ ctrl_mode' = 1
                      \/ key_buf_index' > 0 /\ key_buf'[key_buf_index' - 1].key = "enter"
    BY DEF LineEndsWithNewline
  <2>1. k = "enter"
    BY DEF KeyHandler
  <2>2. ctrl_mode' = ctrl_mode
    BY <2>1 DEF KeyHandler
  <2> QED
    BY <1>1, <1>2, <2>1, <2>2, EditedLine
<1> QED
  BY <1>6, <1>7, <1>8, <1>9

\* The steps of terminal_read and terminal_open.
LEMMA ReadStep == ASSUME IInv, Call \/ Read \/ TerminalOpen PROVE IInv'
<1> USE DEF IInv
<1>1. CASE Call
  <2>1. entered' \in BOOLEAN
    BY <1>1 DEF Call
  <2>2. TypeOK'
    BY <1>1, <2>1 DEF Call, Goto, line, modes, TypeOK
  <2> QED
    BY <1>1, <2>2 DEF Call, Goto, line, modes, ReadState, EnterPerRead, LineEndsWithNewline, Watched
<1>2. ASSUME NEW at \in {"clear", "clear2"}, ZeroKey(at)
      PROVE  IInv'
  <2>1. key_buf' \in Array
    <3>1. key_buf \in Array /\ i \in Int
      BY DEF TypeOK
    <3> QED
      BY <1>2, <3>1, StoredCell, SymbolFacts DEF ZeroKey
  <2>2. i' \in 0..KEY_BUF_SIZE
    BY <1>2, SizeAssumption DEF ZeroKey, TypeOK
  <2>3. TypeOK'
    BY <1>2, <2>1, <2>2 DEF ZeroKey, modes, ghosts, TypeOK
  <2> QED
    BY <1>2, <2>3 DEF ZeroKey, modes, ghosts, ReadState, EnterPerRead, LineEndsWithNewline, Watched
<1>3. ASSUME NEW from, NEW to, ResetIndex(from, to),
             <<from, to>> \in {<<"clear", "poll">>, <<"clear2", "user">>}
      PROVE  IInv'
  <2>1. TypeOK'
    BY <1>3, SizeAssumption DEF ResetIndex, Goto, modes, ghosts, TypeOK
  <2> QED
    BY <1>3, <2>1 DEF ResetIndex, Goto, modes, ghosts, ReadState, EnterPerRead, LineEndsWithNewline, Watched
<1>4. CASE Poll
  <2>1. TypeOK'
    BY <1>4 DEF Poll, Goto, line, modes, TypeOK
  <2> QED
    BY <1>4, <2>1 DEF Poll, Goto, line, modes, ReadState, EnterPerRead, LineEndsWithNewline, Watched
<1>5. CASE CopyTest
  <2>1. pc' = "load" => i < KEY_BUF_SIZE
    BY <1>5, SizeAssumption DEF CopyTest, Goto, TypeOK
  <2>2. TypeOK'
    BY <1>5, <2>1 DEF CopyTest, Goto, line, modes, ghosts, TypeOK
  <2> QED
    BY <1>5, <2>2 DEF CopyTest, Goto, line, modes, ghosts, ReadState, EnterPerRead, LineEndsWithNewline, Watched
<1>6. CASE CopyLoad
  <2>1. i \in 0..(KEY_BUF_SIZE - 1) /\ i' \in 0..KEY_BUF_SIZE
    BY <1>6, SizeAssumption DEF CopyLoad, Goto, TypeOK
  <2>2. key_buf[i] \in Symbols
    BY <2>1 DEF TypeOK, Array
  <2>3. buffer' \in Array
    BY <1>6, <2>1, <2>2, StoredCell DEF CopyLoad, TypeOK
  <2>4. TypeOK'
    BY <1>6, <2>1, <2>3 DEF CopyLoad, Goto, line, modes, ghosts, TypeOK
  <2> QED
    BY <1>6, <2>4 DEF CopyLoad, Goto, line, modes, ghosts, ReadState, EnterPerRead, LineEndsWithNewline, Watched
<1>7. CASE TakeFlag
  <2>1. due' \in BOOLEAN
    BY <1>7 DEF TakeFlag
  <2>2. TypeOK'
    BY <1>7, <2>1, SizeAssumption, HitsAssumption, BlankArray DEF TakeFlag, Goto, line, modes, TypeOK
  <2> QED
    BY <1>7, <2>2 DEF TakeFlag, Goto, line, modes, ReadState, EnterPerRead, LineEndsWithNewline, Watched
<1>8. CASE TerminalOpen
  <2>1. TypeOK'
    BY <1>8 DEF TerminalOpen, Goto, line, ghosts, TypeOK
  <2> QED
    BY <1>8, <2>1 DEF TerminalOpen, Goto, line, ghosts, ReadState, EnterPerRead, LineEndsWithNewline, Watched
<1> QED
  BY <1>1, <1>2, <1>3, <1>4, <1>5, <1>6, <1>7, <1>8 DEF Read

LEMMA NextIInv == IInv /\ [Next]_vars => IInv'
<1> SUFFICES ASSUME IInv, [Next]_vars PROVE IInv'
  OBVIOUS
<1>1. CASE UNCHANGED vars
  BY <1>1 DEF vars, line, modes, ghosts, IInv, TypeOK, ReadState, EnterPerRead,
              LineEndsWithNewline, Watched
<1> QED
  BY <1>1, KeyStep, ReadStep DEF Next

LEMMA Invariance == Spec => []IInv
BY InitIInv, NextIInv, PTL DEF Spec

\* The line stays within key_buf, and terminal_read copies and loads only
\* bytes of key_buf, whatever keys arrive while it copies.
THEOREM TerminalTypeCorrect == Spec => []TypeOK
BY Invariance, PTL DEF IInv

\* terminal_read returns only for an Enter that no earlier read has taken.
THEOREM EnterPerReadCorrect == Spec => []EnterPerRead
BY Invariance, PTL DEF IInv

\* A line that terminal_read is about to take for an Enter of its own ends
\* with the newline, unless key_buf was full or Ctrl was down.
THEOREM NewlineCorrect == Spec => []LineEndsWithNewline
BY Invariance, PTL DEF IInv

-----------------------------------------------------------------------------
(***************************************************************************)
(* The copy.  While at most two keys have hit it, the bytes copied are the *)
(* beginning of the line as it is now; or they are the whole of a line     *)
(* that has been, and then no shorter than the line is now, so that the    *)
(* loop copies nothing more (a line shrinks by one byte per key: after one *)
(* key such a line is longer, and the next key cannot outgrow it); or they *)
(* are such a line and a 0.  Between the test and the load the byte to be  *)
(* loaded still is in the line, or it has been erased once and is still    *)
(* there, or twice and the second backspace has stored 0 over it.          *)
(***************************************************************************)
Agree == \A j \in 0..(i - 1) : buffer[j] = key_buf[j]

AtTest ==
  \/ i <= key_buf_index /\ Agree
  \/ /\ hits > 0 /\ Copied \in seen
     /\ i >= key_buf_index
     /\ hits = 1 => i > key_buf_index
  \/ hits = 2 /\ Clipped /\ i >= key_buf_index

AtLoad ==
  \/ i < key_buf_index /\ Agree
  \/ /\ hits > 0 /\ i = key_buf_index /\ Agree
     /\ Cells(key_buf, i + 1) \in seen
  \/ hits = 2 /\ i > key_buf_index /\ key_buf[i] = NUL /\ Copied \in seen

CopyState ==
  /\ Watched /\ hits <= 2 => Line \in seen
  /\ pc = "copy" /\ hits <= 2 => AtTest
  /\ pc = "load" /\ hits <= 2 => AtLoad
  /\ pc = "flag" /\ hits <= 2 => Copied \in seen \/ (hits = 2 /\ Clipped)

\* A key that hits the copy, by where the copy is.
LEMMA KeyKeepsCopy ==
  ASSUME MaxHits > 2, IInv, CopyState, NEW k \in Key, KeyHandler(k)
  PROVE  CopyState'
<1>1. /\ key_buf \in Array /\ key_buf_index \in 0..KEY_BUF_SIZE /\ ctrl_mode \in {0, 1}
      /\ buffer \in Array /\ i \in 0..KEY_BUF_SIZE /\ hits \in 0..MaxHits
      /\ KEY_BUF_SIZE \in Nat
      /\ pc = "load" => i < KEY_BUF_SIZE
  BY SizeAssumption DEF IInv, TypeOK
<1>2. /\ Edit(k, dict') /\ pc' = pc /\ buffer' = buffer /\ i' = i
      /\ seen' = IF Watched /\ hits < MaxHits THEN seen \cup {Line'} ELSE seen
      /\ hits' = IF Watched /\ hits < MaxHits THEN hits + 1 ELSE hits
  BY DEF KeyHandler
<1>3. /\ key_buf' \in Array /\ key_buf_index' \in 0..KEY_BUF_SIZE
      /\ \A j \in 0..(KEY_BUF_SIZE - 1) : j # key_buf_index => key_buf'[j] = key_buf[j]
      /\ \/ key_buf_index' = key_buf_index + 1
         \/ /\ key_buf_index' = key_buf_index - 1
            /\ key_buf_index < KEY_BUF_SIZE => key_buf'[key_buf_index] = NUL
         \/ key_buf_index' = key_buf_index /\ key_buf' = key_buf
  BY <1>1, <1>2, EditedLine
<1>4. CASE ~Watched
  BY <1>2, <1>4 DEF CopyState, Watched
<1>5. CASE Watched /\ hits' > 2
  BY <1>1, <1>2, <1>5, HitsAssumption DEF CopyState
<1>6. CASE Watched /\ hits' <= 2
  <2>1. /\ hits' = hits + 1 /\ hits \in {0, 1} /\ hits' \in {1, 2}
        /\ seen' = seen \cup {Line'}
    BY <1>1, <1>2, <1>6, HitsAssumption
  <2>2. Line' \in seen' /\ Line \in seen' /\ Copied' = Copied
    BY <1>2, <1>6, <2>1 DEF CopyState, Copied
  <2>3. ASSUME i <= key_buf_index, Agree PROVE Agree'
    <3> SUFFICES ASSUME NEW j \in 0..(i - 1) PROVE buffer'[j] = key_buf'[j]
      BY <1>2 DEF Agree
    <3>1. j \in 0..(KEY_BUF_SIZE - 1) /\ j # key_buf_index
      BY <1>1, <2>3
    <3> QED
      BY <1>2, <1>3, <2>3, <3>1 DEF Agree
  <2>4. ASSUME i = key_buf_index, Agree PROVE Copied \in seen'
    BY <2>2, <2>4, SameCells DEF Agree, Copied, Line
  <2>5. ASSUME pc = "copy" PROVE AtTest'
    <3>1. AtTest
      BY <2>1, <2>5 DEF CopyState
    <3>2. CASE i <= key_buf_index /\ Agree
      <4>1. CASE i <= key_buf_index'
        BY <1>2, <2>3, <3>2, <4>1 DEF AtTest
      <4>2. CASE i > key_buf_index'
        <5>1. i = key_buf_index
          BY <1>1, <1>3, <3>2, <4>2
        <5> QED
          BY <1>1, <1>2, <1>3, <2>1, <2>2, <2>4, <3>2, <4>2, <5>1 DEF AtTest
      <4> QED
        BY <1>1, <1>3, <4>1, <4>2
    <3>3. CASE hits = 1 /\ Copied \in seen /\ i > key_buf_index
      <4>1. i >= key_buf_index'
        BY <1>1, <1>3, <3>3
      <4> QED
        BY <1>2, <2>1, <2>2, <3>3, <4>1 DEF AtTest
    <3> QED
      BY <2>1, <3>1, <3>2, <3>3 DEF AtTest
  <2>6. ASSUME pc = "load" PROVE AtLoad'
    <3>1. AtLoad
      BY <2>1, <2>6 DEF CopyState
    <3>2. CASE i < key_buf_index /\ Agree
      <4>1. Agree'
        BY <1>1, <2>3, <3>2
      <4>2. CASE i < key_buf_index'
        BY <1>2, <4>1, <4>2 DEF AtLoad
      <4>3. CASE i >= key_buf_index'
        <5>1. i' = key_buf_index' /\ i + 1 = key_buf_index
          BY <1>1, <1>2, <1>3, <3>2, <4>3
        <5>2. Cells(key_buf', i' + 1) = Line
          <6>1. \A j \in 0..(key_buf_index - 1) : key_buf'[j] = key_buf[j]
            BY <1>1, <1>3
          <6> QED
            BY <1>2, <5>1, <6>1, SameCells DEF Line
        <5> QED
          BY <2>1, <2>2, <4>1, <5>1, <5>2 DEF AtLoad
      <4> QED
        BY <1>1, <1>3, <4>2, <4>3
    <3>3. CASE /\ hits = 1 /\ i = key_buf_index /\ Agree
               /\ Cells(key_buf, i + 1) \in seen
      <4>1. Agree'
        BY <1>1, <2>3, <3>3
      <4>2. CASE key_buf_index' = key_buf_index + 1
        BY <1>1, <1>2, <3>3, <4>1, <4>2 DEF AtLoad
      <4>3. CASE key_buf_index' = key_buf_index /\ key_buf' = key_buf
        BY <1>2, <2>1, <3>3, <4>1, <4>3 DEF AtLoad
      <4>4. CASE key_buf_index' = key_buf_index - 1 /\ key_buf'[key_buf_index] = NUL
        <5>1. i' > key_buf_index' /\ key_buf'[i'] = NUL /\ hits' = 2
          BY <1>1, <1>2, <2>1, <3>3, <4>4
        <5> QED
          BY <2>2, <2>4, <3>3, <5>1 DEF AtLoad
      <4> QED
        <5>1. key_buf_index < KEY_BUF_SIZE
          BY <1>1, <2>6, <3>3
        <5> QED
          BY <1>3, <4>2, <4>3, <4>4, <5>1
    <3> QED
      BY <2>1, <3>1, <3>2, <3>3 DEF AtLoad
  <2>7. ASSUME pc = "flag" PROVE Copied' \in seen'
    BY <2>1, <2>2, <2>7 DEF CopyState
  <2> QED
    BY <1>2, <2>2, <2>5, <2>6, <2>7 DEF CopyState
<1> QED
  BY <1>1, <1>2, <1>4, <1>5, <1>6

LEMMA ReadKeepsCopy ==
  ASSUME MaxHits > 2, IInv, CopyState, Call \/ Read \/ TerminalOpen
  PROVE  CopyState'
<1>1. /\ key_buf \in Array /\ key_buf_index \in 0..KEY_BUF_SIZE
      /\ buffer \in Array /\ i \in 0..KEY_BUF_SIZE /\ hits \in 0..MaxHits
      /\ KEY_BUF_SIZE \in Nat
      /\ pc = "load" => i < KEY_BUF_SIZE
  BY SizeAssumption DEF IInv, TypeOK
<1>2. CASE Poll
  <2>1. /\ pc = "poll" /\ pc' = "copy" /\ i' = 0 /\ seen' = {Line}
        /\ key_buf' = key_buf /\ key_buf_index' = key_buf_index
    BY <1>2 DEF Poll, Goto, line, IInv, ReadState
  <2>2. AtTest'
    BY <1>1, <2>1 DEF AtTest, Agree
  <2>3. Line' \in seen'
    BY <2>1 DEF Line
  <2> QED
    BY <2>1, <2>2, <2>3 DEF CopyState
<1>3. CASE CopyTest
  <2>1. /\ pc = "copy" /\ pc' = IF i < key_buf_index THEN "load" ELSE "flag"
        /\ UNCHANGED <<key_buf, key_buf_index, i, buffer, seen, hits>>
    BY <1>3 DEF CopyTest, Goto, line, ghosts
  <2>2. /\ Line' = Line /\ Copied' = Copied /\ (Clipped' <=> Clipped) /\ (Agree' <=> Agree)
    BY <2>1 DEF Line, Copied, Clipped, Agree
  <2>3. CASE hits > 2
    BY <1>1, <2>1, <2>3 DEF CopyState
  <2>4. CASE hits <= 2
    <3>1. AtTest /\ Line \in seen
      BY <2>1, <2>4 DEF CopyState, Watched
    <3>2. CASE i < key_buf_index
      <4>1. Agree
        BY <1>1, <3>1, <3>2 DEF AtTest
      <4>2. AtLoad'
        BY <2>1, <2>2, <3>2, <4>1 DEF AtLoad
      <4> QED
        BY <2>1, <2>2, <3>1, <3>2, <4>2 DEF CopyState
    <3>3. CASE i >= key_buf_index
      <4>1. pc' = "flag"
        BY <1>1, <2>1, <3>3
      <4>2. ASSUME i <= key_buf_index, Agree PROVE Copied = Line
        <5>1. i = key_buf_index
          BY <1>1, <3>3, <4>2
        <5> QED
          BY <4>2, <5>1, SameCells DEF Agree, Copied, Line
      <4>3. Copied \in seen \/ (hits = 2 /\ Clipped)
        BY <3>1, <4>2 DEF AtTest
      <4> QED
        BY <2>1, <2>2, <3>1, <4>1, <4>3 DEF CopyState
    <3> QED
      BY <1>1, <3>2, <3>3
  <2> QED
    BY <1>1, <2>3, <2>4
<1>4. CASE CopyLoad
  <2>1. /\ pc = "load" /\ pc' = "copy" /\ i' = i + 1
        /\ buffer' = Stored(buffer, i, key_buf[i])
        /\ UNCHANGED <<key_buf, key_buf_index, seen, hits>>
    BY <1>4 DEF CopyLoad, Goto, line, ghosts
  <2>2. i \in 0..(KEY_BUF_SIZE - 1) /\ i' - 1 = i
    BY <1>1, <2>1
  <2>3. key_buf[i] \in Symbols
    BY <1>1, <2>2 DEF Array
  <2>4. /\ buffer'[i] = key_buf[i]
        /\ \A j \in 0..(i - 1) : buffer'[j] = buffer[j]
    BY <1>1, <2>1, <2>2, <2>3, StoredCell
  <2>5. Agree => Agree'
    BY <1>1, <2>1, <2>2, <2>4 DEF Agree
  <2>6. CASE hits > 2
    BY <1>1, <2>1, <2>6 DEF CopyState
  <2>7. CASE hits <= 2
    <3>1. AtLoad /\ Line \in seen
      BY <2>1, <2>7 DEF CopyState, Watched
    <3>2. ASSUME i < key_buf_index, Agree PROVE AtTest'
      <4>1. i' <= key_buf_index'
        BY <1>1, <2>1, <3>2
      <4> QED
        BY <2>5, <3>2, <4>1 DEF AtTest
    <3>3. ASSUME hits > 0, i = key_buf_index, Agree, Cells(key_buf, i + 1) \in seen
          PROVE  AtTest'
      <4>1. Copied' = Cells(key_buf, i + 1)
        BY <2>1, <2>5, <3>3, SameCells DEF Agree, Copied
      <4>2. i' > key_buf_index' /\ i' >= key_buf_index' /\ hits' > 0
        BY <1>1, <2>1, <3>3
      <4> QED
        BY <2>1, <3>3, <4>1, <4>2 DEF AtTest
    <3>4. ASSUME hits = 2, i > key_buf_index, key_buf[i] = NUL, Copied \in seen
          PROVE  AtTest'
      <4>1. Cells(buffer', i' - 1) = Copied
        BY <2>2, <2>4, SameCells DEF Copied
      <4>2. buffer'[i' - 1] = NUL /\ i' > 0 /\ i' >= key_buf_index' /\ hits' = 2
        BY <1>1, <2>1, <2>2, <2>4, <3>4
      <4>3. Clipped'
        BY <2>1, <3>4, <4>1, <4>2 DEF Clipped
      <4> QED
        BY <4>2, <4>3 DEF AtTest
    <3>5. AtTest'
      BY <3>1, <3>2, <3>3, <3>4 DEF AtLoad
    <3> QED
      BY <2>1, <3>1, <3>5 DEF CopyState, Line
  <2> QED
    BY <1>1, <2>6, <2>7
<1>5. CASE Call
  BY <1>5 DEF Call, Goto, CopyState, Watched
<1>6. CASE TakeFlag
  BY <1>6 DEF TakeFlag, Goto, CopyState, Watched
<1>7. CASE TerminalOpen
  BY <1>7 DEF TerminalOpen, Goto, CopyState, Watched
<1>8. CASE ZeroKey("clear") \/ ZeroKey("clear2")
  BY <1>8 DEF ZeroKey, CopyState, Watched
<1>9. CASE ResetIndex("clear", "poll") \/ ResetIndex("clear2", "user")
  BY <1>9 DEF ResetIndex, Goto, CopyState, Watched
<1> QED
  BY <1>2, <1>3, <1>4, <1>5, <1>6, <1>7, <1>8, <1>9 DEF Read

\* The bytes that terminal_read returns were the whole line at one moment of
\* the copy, if at most one key arrived during it; with two keys they were
\* that, or such a line and the 0 that a backspace stored behind it.
THEOREM LineCorrect ==
  ASSUME MaxHits > 2 PROVE Spec => []LineNotTorn
<1>1. Init => CopyState
  BY DEF Init, CopyState, Watched
<1>2. IInv /\ CopyState /\ [Next]_vars => CopyState'
  <2> SUFFICES ASSUME IInv, CopyState, [Next]_vars PROVE CopyState'
    OBVIOUS
  <2>1. CASE UNCHANGED vars
    BY <2>1 DEF vars, line, ghosts, CopyState, Watched, AtTest, AtLoad, Agree, Copied,
                Clipped, Line
  <2> QED
    BY <2>1, KeyKeepsCopy, ReadKeepsCopy DEF Next
<1>3. CopyState => LineNotTorn
  BY DEF CopyState, LineNotTorn
<1> QED
  BY <1>1, <1>2, <1>3, Invariance, PTL DEF Spec
=============================================================================
