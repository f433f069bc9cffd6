------------------------------ MODULE Terminal ------------------------------
(***************************************************************************)
(* The line discipline of key_driver.c: key_handler, which edits key_buf   *)
(* in the keyboard interrupt, against terminal_read, which polls           *)
(* enter_flag and copies key_buf with interrupts on, and terminal_open.    *)
(*                                                                         *)
(* key_handler runs to its last statement with interrupts off, so a key is *)
(* one step; it may come between any two steps of the read or the open,    *)
(* which are one access to a shared variable each.  The echo on the screen *)
(* is the subject of Screen.  A backspace on a full line stores its 0 one  *)
(* byte behind key_buf: in the committed build that is the low byte of     *)
(* enter_flag, which key_handler has just set to 0.                        *)
(***************************************************************************)
EXTENDS Integers

CONSTANTS
  KEY_BUF_SIZE,   \* 128 in key_driver.h
  Letter,         \* keys whose symbol Shift and Caps Lock change
  Digit,          \* keys whose symbol only Shift changes
  ControlKey,     \* the other keys that can be pressed or released
  MaxHits         \* cap of the count of keys that hit a copy in progress

ASSUME SizeAssumption == KEY_BUF_SIZE \in Nat /\ KEY_BUF_SIZE > 0
ASSUME HitsAssumption == MaxHits \in Nat

ModeKey == {"shift", "unshift", "caps", "ctrl", "unctrl"}
ASSUME KeyAssumption ==
  /\ ControlKey \subseteq ModeKey \cup {"enter", "backspace", "release"}
  /\ (Letter \cup Digit) \cap (ModeKey \cup {"enter", "backspace", "release"}) = {}

VARIABLES
  key_buf, key_buf_index, enter_flag, shift_mode, caps_mode, ctrl_mode, dict,
  pc,       \* where terminal_read or terminal_open is; "user" outside them
  i,        \* the loop variable of terminal_read and of clear_key_buffer
  buffer,   \* the buffer of the program that reads
  entered,  \* has Enter been pressed since this read began to wait?
  due,      \* has Enter been pressed since a read last took enter_flag?
  seen,     \* the lines that have been in key_buf since the read saw enter_flag
            \* set, as long as hits counts
  hits      \* how many keys were handled since then, up to MaxHits

line == <<key_buf, key_buf_index>>
modes == <<shift_mode, caps_mode, ctrl_mode, dict>>
ghosts == <<entered, due, seen, hits>>
vars == <<line, enter_flag, modes, pc, i, buffer, ghosts>>

Key == Letter \cup Digit \cup ControlKey
Symbol(d, k) == [key |-> k, upper |-> \/ k \in Letter /\ d \in {1, 2}
                                      \/ k \in Digit /\ d = 1]
NUL == [key |-> "nul", upper |-> FALSE]
Symbols == [key : Key \cup {"nul"}, upper : BOOLEAN]

Blank == [j \in 0..(KEY_BUF_SIZE - 1) |-> NUL]
Array == [0..(KEY_BUF_SIZE - 1) -> Symbols]
Cells(a, n) == [j \in 0..(n - 1) |-> a[j]]
Stored(a, n, c) == [j \in 0..(KEY_BUF_SIZE - 1) |-> IF j = n THEN c ELSE a[j]]

\* The line typed so far, and the bytes copied so far.
Line == Cells(key_buf, key_buf_index)
Copied == Cells(buffer, i)

-----------------------------------------------------------------------------
(* key_handler. *)

\* The dictionary chosen from Shift and Caps Lock, which cancel each other.
DictFor(shift, caps) ==
  CASE shift = 1 /\ caps = 1 -> 0
    [] shift = 1 /\ caps = 0 -> 1
    [] shift = 0 /\ caps = 1 -> 2
    [] OTHER -> 0

\* The keys that process_to_buffer appends to the line, and the ones that
\* take its last byte away; TypesSilent drops a newline.
TypesSilent(k) ==
  /\ k \notin ModeKey \cup {"release", "backspace", "enter"}
  /\ ctrl_mode = 0 /\ key_buf_index < KEY_BUF_SIZE
Types(k) ==
  /\ k \notin ModeKey \cup {"release", "backspace"}
  /\ ctrl_mode = 0 /\ key_buf_index < KEY_BUF_SIZE
Erases(k) == k = "backspace" /\ key_buf_index > 0

\* What a key does to the line; backspace stores its 0 behind the byte that
\* it erases.
Edit(k, d) ==
  \/ /\ Types(k)
     /\ key_buf' = Stored(key_buf, key_buf_index, Symbol(d, k))
     /\ key_buf_index' = key_buf_index + 1
  \/ /\ Erases(k)
     /\ key_buf' = Stored(key_buf, key_buf_index, NUL)
     /\ key_buf_index' = key_buf_index - 1
  \/ /\ ~Types(k) /\ ~Erases(k)
     /\ UNCHANGED line

Watched == pc \in {"copy", "load", "flag"}

KeyHandler(k) ==
  /\ shift_mode' = CASE k = "shift" -> 1 [] k = "unshift" -> 0 [] OTHER -> shift_mode
  /\ caps_mode' = IF k = "caps" THEN 1 - caps_mode ELSE caps_mode
  /\ ctrl_mode' = CASE k = "ctrl" -> 1 [] k = "unctrl" -> 0 [] OTHER -> ctrl_mode
  /\ dict' = DictFor(shift_mode', caps_mode')
  /\ enter_flag' = IF k = "enter" THEN 1 ELSE 0
  /\ Edit(k, dict')
  /\ entered' = (entered \/ (k = "enter" /\ pc = "poll"))
  /\ due' = (due \/ k = "enter")
  /\ seen' = IF Watched /\ hits < MaxHits THEN seen \cup {Line'} ELSE seen
  /\ hits' = IF Watched /\ hits < MaxHits THEN hits + 1 ELSE hits
  /\ UNCHANGED <<pc, i, buffer>>

-----------------------------------------------------------------------------
(* terminal_read. *)

Goto(from, to) == pc = from /\ pc' = to

Call ==
  /\ Goto("user", "clear")
  /\ entered' = FALSE
  /\ UNCHANGED <<line, enter_flag, modes, i, buffer, due, seen, hits>>

\* clear_key_buffer: an iteration of its loop, then the index.
ZeroKey(at) ==
  /\ pc = at
  /\ i < KEY_BUF_SIZE
  /\ key_buf' = Stored(key_buf, i, NUL)
  /\ i' = i + 1
  /\ UNCHANGED <<key_buf_index, enter_flag, modes, pc, buffer, ghosts>>

ResetIndex(from, to) ==
  /\ Goto(from, to)
  /\ i = KEY_BUF_SIZE
  /\ key_buf_index' = 0
  /\ i' = 0
  /\ UNCHANGED <<key_buf, enter_flag, modes, buffer, ghosts>>

\* The while loop leaves when it reads enter_flag == 1.
Poll ==
  /\ Goto("poll", "copy")
  /\ enter_flag = 1
  /\ seen' = {Line}
  /\ UNCHANGED <<line, enter_flag, modes, i, buffer, entered, due, hits>>

\* The copying loop: its test, then the load, the store and the increment.
\* LoadStuck forgets the increment of i, LoadLast copies the last byte each
\* time.
CopyTest ==
  /\ Goto("copy", IF i < key_buf_index THEN "load" ELSE "flag")
  /\ UNCHANGED <<line, enter_flag, modes, i, buffer, ghosts>>

LoadStuck ==
  /\ Goto("load", "copy")
  /\ buffer' = Stored(buffer, i, key_buf[i])
  /\ UNCHANGED <<line, enter_flag, modes, i, ghosts>>
LoadLast ==
  /\ Goto("load", "copy")
  /\ buffer' = Stored(buffer, i, key_buf[IF key_buf_index = 0 THEN 0 ELSE key_buf_index - 1])
  /\ i' = i + 1
  /\ UNCHANGED <<line, enter_flag, modes, ghosts>>
CopyLoad ==
  /\ Goto("load", "copy")
  /\ buffer' = Stored(buffer, i, key_buf[i])
  /\ i' = i + 1
  /\ UNCHANGED <<line, enter_flag, modes, ghosts>>

\* enter_flag = 0 after the loop; KeepFlag leaves it out.  The bytes are the
\* program's from here on: i is clear_key_buffer's, and buffer the next read's.
KeepFlag ==
  /\ Goto("flag", "clear2")
  /\ i' = 0 /\ buffer' = Blank
  /\ due' = FALSE /\ seen' = {} /\ hits' = 0
  /\ UNCHANGED <<line, enter_flag, modes, entered>>
TakeFlag ==
  /\ Goto("flag", "clear2")
  /\ enter_flag' = 0
  /\ i' = 0 /\ buffer' = Blank
  /\ due' = FALSE /\ seen' = {} /\ hits' = 0
  /\ UNCHANGED <<line, modes, entered>>

Read ==
  \/ ZeroKey("clear") \/ ResetIndex("clear", "poll")
  \/ Poll \/ CopyTest \/ CopyLoad \/ TakeFlag
  \/ ZeroKey("clear2") \/ ResetIndex("clear2", "user")

\* terminal_open, called by every execute, resets the modes one after the
\* other and nothing else: a key in between can leave dict to modes that are
\* gone, until the next key.
TerminalOpen ==
  /\ \/ /\ Goto("user", "open_caps") /\ dict' = 0
        /\ UNCHANGED <<shift_mode, caps_mode, ctrl_mode>>
     \/ /\ Goto("open_caps", "open_shift") /\ caps_mode' = 0
        /\ UNCHANGED <<shift_mode, ctrl_mode, dict>>
     \/ /\ Goto("open_shift", "open_ctrl") /\ shift_mode' = 0
        /\ UNCHANGED <<caps_mode, ctrl_mode, dict>>
     \/ /\ Goto("open_ctrl", "user") /\ ctrl_mode' = 0
        /\ UNCHANGED <<shift_mode, caps_mode, dict>>
  /\ UNCHANGED <<line, enter_flag, i, buffer, ghosts>>

-----------------------------------------------------------------------------
Init ==
  /\ key_buf = Blank /\ key_buf_index = 0
  /\ enter_flag = 0
  /\ shift_mode = 0 /\ caps_mode = 0 /\ ctrl_mode = 0 /\ dict = 0
  /\ pc = "user" /\ i = 0 /\ buffer = Blank
  /\ entered = FALSE /\ due = FALSE /\ seen = {} /\ hits = 0

Next ==
  \/ \E k \in Key : KeyHandler(k)
  \/ Call
  \/ Read
  \/ TerminalOpen

Spec == Init /\ [][Next]_vars

\* The CPU goes on executing a read it has entered; nobody need type.
FairSpec == Spec /\ WF_vars(Read)

\* A poll that keeps getting its chance is not missed for ever.
StrongSpec == Spec /\ SF_vars(Read)

-----------------------------------------------------------------------------
(***************************************************************************)
(* Properties.                                                             *)
(***************************************************************************)

\* The line never outgrows key_buf, the copy stays within both buffers although
\* keys move its bound, and a load takes no byte behind key_buf.
TypeOK ==
  /\ key_buf \in Array /\ key_buf_index \in 0..KEY_BUF_SIZE
  /\ buffer \in Array /\ i \in 0..KEY_BUF_SIZE
  /\ enter_flag \in {0, 1} /\ dict \in 0..2
  /\ shift_mode \in {0, 1} /\ caps_mode \in {0, 1} /\ ctrl_mode \in {0, 1}
  /\ pc \in {"user", "clear", "poll", "copy", "load", "flag", "clear2",
            "open_caps", "open_shift", "open_ctrl"}
  /\ pc = "load" => i < KEY_BUF_SIZE
  /\ entered \in BOOLEAN /\ due \in BOOLEAN
  /\ hits \in 0..MaxHits

\* The bytes copied are a line that has been in key_buf, followed by a 0.
Clipped == i > 0 /\ buffer[i - 1] = NUL /\ Cells(buffer, i - 1) \in seen

\* The bytes a read returns were at one moment of the copy the whole line,
\* although key_handler edits the line under the copying loop and between its
\* test and its load: one key during the copy never tears the line, and with
\* two keys the worst is that two backspaces come between the test and the
\* load of the last byte, which then is the 0 stored by the second.
LineNotTorn ==
  pc = "flag" /\ hits <= 2 => Copied \in seen \/ (hits = 2 /\ Clipped)

\* A read returns only for an Enter that no earlier read has taken.
EnterPerRead == Watched => due

\* When the poll will find an Enter pressed during this read, the line ends
\* with the newline, unless it was full or Ctrl was down: what the shell
\* relies on to strip it.
LineEndsWithNewline ==
  pc = "poll" /\ enter_flag = 1 /\ entered =>
    \/ key_buf_index = KEY_BUF_SIZE
    \/ ctrl_mode = 1
    \/ key_buf_index > 0 /\ key_buf[key_buf_index - 1].key = "enter"

\* Once the poll has seen Enter the read returns, however many keys are hit
\* while it copies.
CopyEnds == (pc \in {"copy", "load"}) ~> (pc = "user")

\* "wait for enter key to be pressed, when it is pressed, you should copy the
\* key buffer" (key_driver.c:341): when Enter is pressed while the read waits,
\* the read returns.
EnterEndsRead == (pc = "poll" /\ entered) ~> (pc = "user")
=============================================================================
