------------------------------- MODULE Screen -------------------------------
(***************************************************************************)
(* The text screen of lib.c (clear, set_screen, vertical_scroll,           *)
(* putc_terminal, deletec_terminal) under its two users: the echo of       *)
(* key_handler, which also keeps the line typed so far in key_buf, and     *)
(* terminal_write.  Both run with interrupts off, so each is one step.     *)
(* clear_key_buffer, which empties the line, runs with interrupts on: each *)
(* of its stores is a step, and keys arrive between them.                  *)
(*                                                                         *)
(* A cell outside the screen may still lie in the one page of video memory *)
(* that init_paging maps; a write beyond that page faults, which ends the  *)
(* step there, and what follows the fault is outside this module.          *)
(***************************************************************************)
EXTENDS Integers, Sequences, Functions

CONSTANTS
  NUM_ROWS, NUM_COLS,  \* 25 and 80
  PageCells,           \* cells in the page of video memory: 2048
  tab_size,            \* 3
  KEY_BUF_SIZE,        \* 128
  Glyph,               \* the printable characters that are typed
  Output,              \* the strings that programs write
  MaxX                 \* bound: no tab is printed right of this column

ASSUME GeometryAssumption ==
  /\ NUM_ROWS \in Nat /\ NUM_ROWS >= 2
  /\ NUM_COLS \in Nat \ {0} /\ tab_size \in Nat
  /\ PageCells \in Nat /\ PageCells >= NUM_ROWS * NUM_COLS
\* A line fits on the screen above the row that scrolls.
ASSUME LineAssumption ==
  KEY_BUF_SIZE \in Nat /\ KEY_BUF_SIZE <= NUM_COLS * (NUM_ROWS - 1)

Blank == " "
NUL == "nul"
TAB == "\t"
NEWLINE == "\n"
Special == {TAB, NEWLINE}

ASSUME TextAssumption ==
  Glyph \cap Special = {} /\ \A str \in Output : str \in Seq(Range(str))

VARIABLES
  scr,      \* screen_x, screen_y, the cells, and whether a write has faulted
  key_buf,  \* the line typed so far, the first key_buf_index bytes
  zeroed,   \* the loop counter of clear_key_buffer, 0 outside it
  plain     \* since key_buf was last empty nothing but glyphs has been
            \* printed, by keys only, and the screen has not been cleared

vars == <<scr, key_buf, zeroed, plain>>

Cell == 0..(NUM_ROWS * NUM_COLS - 1)
Pos(s) == NUM_COLS * s.y + s.x

Put(s, i, c) ==
  CASE i \in Cell -> [s EXCEPT !.cells[i] = c]
    [] i \notin Cell /\ i \in 0..(PageCells - 1) -> s
    [] OTHER -> [s EXCEPT !.fault = TRUE]

set_screen(s, x, y) == [s EXCEPT !.x = x, !.y = y]

clear(s) == [s EXCEPT !.cells = [i \in Cell |-> Blank]]

\* ScrollKeepsColumn leaves the cursor in its column.
ScrollKeepsColumn(s) ==
  set_screen([s EXCEPT !.cells =
    [i \in Cell |-> IF i < NUM_COLS * (NUM_ROWS - 1) THEN @[i + NUM_COLS] ELSE Blank]],
    s.x, NUM_ROWS - 1)
vertical_scroll(s) ==
  set_screen([s EXCEPT !.cells =
    [i \in Cell |-> IF i < NUM_COLS * (NUM_ROWS - 1) THEN @[i + NUM_COLS] ELSE Blank]],
    0, NUM_ROWS - 1)

\* C's remainder leaves a negative row as it is.
Row(y) == IF y < 0 THEN y ELSE y % NUM_ROWS

NewLine(s) ==
  IF s.y + 1 >= NUM_ROWS - 1 THEN vertical_scroll(s) ELSE set_screen(s, 0, s.y + 1)

PutGlyph(s, c) ==
  LET w == Put(s, Pos(s), c)
  IN CASE w.fault -> w
       [] ~w.fault /\ s.y >= NUM_ROWS - 1 /\ s.x >= NUM_COLS - 1 -> vertical_scroll(w)
       [] OTHER -> set_screen(w, (s.x + 1) % NUM_COLS, Row(s.y + (s.x + 1) \div NUM_COLS))

putc_terminal(s, c) ==
  CASE c = TAB -> set_screen(s, s.x + tab_size, s.y)
    [] c = NEWLINE -> NewLine(s)
    [] OTHER -> PutGlyph(s, c)

\* One cell back; BackAtEdgeStays does not go back over the start of a row.
BackAtEdgeStays(s) ==
  LET w == Put(s, Pos(s) - 1, Blank)
  IN IF s.x > 0 THEN set_screen(w, s.x - 1, s.y) ELSE w
Back(s) ==
  LET w == Put(s, Pos(s) - 1, Blank)
  IN CASE w.fault -> w
       [] ~w.fault /\ s.x > 0 -> set_screen(w, s.x - 1, s.y)
       [] OTHER -> set_screen(w, NUM_COLS - 1, s.y - 1)

\* The screen after n times one cell back; a fault ends it.
Erased(s, width) ==
  LET after[n \in 0..width] ==
        IF n = 0 THEN s
        ELSE LET w == after[n - 1] IN IF w.fault THEN w ELSE Back(w)
  IN after
Width(c) == IF c = TAB THEN tab_size ELSE 1
deletec_terminal(s, c) == Erased(s, Width(c))[Width(c)]

-----------------------------------------------------------------------------
\* The line on the screen starts afresh when the buffer is empty and the
\* cursor is in a column of the screen.
Plain(still) ==
  plain' = \/ still
           \/ key_buf' = <<>> /\ scr'.x < NUM_COLS /\ scr'.y >= 0

\* process_to_buffer without Ctrl.
Type(c) ==
  /\ (c = TAB => scr.x <= MaxX)
  /\ Len(key_buf) < KEY_BUF_SIZE
  /\ scr' = putc_terminal(scr, c)
  /\ key_buf' = IF scr'.fault THEN key_buf ELSE Append(key_buf, c)
  /\ UNCHANGED zeroed
  /\ Plain(plain /\ c \in Glyph)

\* process_to_buffer with Ctrl and L.
CtrlL ==
  /\ scr' = set_screen(clear(scr), 0, 0)
  /\ UNCHANGED <<key_buf, zeroed>>
  /\ Plain(FALSE)

\* The backspace branch of key_handler; BackspaceUnguarded lacks the test of
\* key_buf_index.
BackspaceUnguarded ==
  /\ scr' = deletec_terminal(scr, IF key_buf = <<>> THEN Blank ELSE key_buf[Len(key_buf)])
  /\ key_buf' = IF scr'.fault THEN key_buf ELSE SubSeq(key_buf, 1, Len(key_buf) - 1)
  /\ UNCHANGED zeroed
  /\ Plain(plain)
Backspace ==
  /\ key_buf # <<>>
  /\ scr' = deletec_terminal(scr, key_buf[Len(key_buf)])
  /\ key_buf' = IF scr'.fault THEN key_buf ELSE SubSeq(key_buf, 1, Len(key_buf) - 1)
  /\ UNCHANGED zeroed
  /\ Plain(plain)

\* clear_key_buffer, in terminal_read: the loop zeroes every byte of the buffer,
\* those of the line among them, and the reset of key_buf_index follows.  A key
\* typed in between is appended to the line and may be zeroed with it.
ZeroKey ==
  /\ zeroed < KEY_BUF_SIZE
  /\ key_buf' = [k \in DOMAIN key_buf |-> IF k = zeroed + 1 THEN NUL ELSE key_buf[k]]
  /\ zeroed' = zeroed + 1
  /\ UNCHANGED scr
  /\ Plain(plain /\ zeroed + 1 > Len(key_buf))
ResetIndex ==
  /\ zeroed = KEY_BUF_SIZE
  /\ key_buf' = <<>>
  /\ zeroed' = 0
  /\ UNCHANGED scr
  /\ Plain(FALSE)
clear_key_buffer == ZeroKey \/ ResetIndex

\* The screen after n characters of a string; a fault ends it.
Printed(s, str) ==
  LET after[n \in 0..Len(str)] ==
        IF n = 0 THEN s
        ELSE LET w == after[n - 1] IN IF w.fault THEN w ELSE putc_terminal(w, str[n])
  IN after

terminal_write(str) ==
  /\ zeroed = 0
  /\ (TAB \in Range(str) => scr.x <= MaxX)
  /\ scr' = Printed(scr, str)[Len(str)]
  /\ UNCHANGED <<key_buf, zeroed>>
  /\ Plain(FALSE)

-----------------------------------------------------------------------------
Init ==
  /\ scr = [x |-> 0, y |-> 0, cells |-> [i \in Cell |-> Blank], fault |-> FALSE]
  /\ key_buf = <<>>
  /\ zeroed = 0
  /\ plain = TRUE

Next ==
  /\ ~scr.fault
  /\ \/ \E c \in Glyph \cup Special : Type(c)
     \/ CtrlL
     \/ Backspace
     \/ clear_key_buffer
     \/ \E str \in Output : terminal_write(str)

Spec == Init /\ [][Next]_vars

-----------------------------------------------------------------------------
(***************************************************************************)
(* Properties.                                                             *)
(***************************************************************************)

Shows(s, i, c) == i \in Cell /\ s.cells[i] = c

\* While a plain line is typed and erased, across the ends of rows and across
\* scrolling, the cursor is on the screen, the glyphs before it are the line in
\* key_buf, and nothing was written outside video memory.
EchoMatches ==
  plain =>
    /\ ~scr.fault
    /\ scr.x \in 0..(NUM_COLS - 1) /\ scr.y \in 0..(NUM_ROWS - 1)
    /\ \A k \in 1..Len(key_buf) :
         Shows(scr, Pos(scr) - k, key_buf[Len(key_buf) + 1 - k])

\* What terminal_write prints on a screen whose cursor is in place stands
\* before the cursor afterwards, also when it scrolls on the way, as much of it
\* as the rows above the last hold; and erasing a plain line leaves what was on
\* the screen before it.
OutputKept ==
  [][/\ \A str \in Output :
          /\ terminal_write(str) /\ scr.x < NUM_COLS /\ scr.y >= 0
          /\ Range(str) \cap Special = {}
          => \A k \in 1..Len(str) : k <= NUM_COLS * (NUM_ROWS - 1) =>
               Shows(scr', Pos(scr') - k, str[Len(str) + 1 - k])
     /\ Backspace /\ plain =>
          \A i \in 0..(Pos(scr) - Len(key_buf) - 1) : scr'.cells[i] = scr.cells[i]]_vars
=============================================================================
