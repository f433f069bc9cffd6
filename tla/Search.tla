------------------------------- MODULE Search -------------------------------
(***************************************************************************)
(* do_one_file of ece391grep.c: the lines of a file that contain a word.   *)
(* The file is read into a buffer of BUFSIZE bytes; a line that the end of *)
(* the buffer cuts is moved to its front before the next read.  A step is  *)
(* one read, or one round of the inner loop.                               *)
(*                                                                         *)
(* The file is text: its bytes are not 0.                                  *)
(***************************************************************************)
EXTENDS Integers, Sequences, Functions

CONSTANTS
  BUFSIZE,     \* 1024
  Texts,       \* the contents of files
  Words,       \* the words searched for
  Stack        \* what the stack may hold where data is placed

EOL == "\n"
ZERO == "\\0"

ASSUME SearchAssumption ==
  /\ BUFSIZE \in Nat \ {0}
  /\ \A t \in Texts : t \in Seq(Range(t)) /\ ZERO \notin Range(t)
  /\ \A w \in Words : w \in Seq(Range(w)) /\ w # <<>>

VARIABLES
  file, s,     \* the file and the word
  offset,      \* file_pos of fd
  data,        \* BUFSIZE + 1 bytes
  last, line_start, cnt,
  pc,          \* "read", "line", or "done"
  found,       \* the lines written to the terminal
  junk         \* what the stack held at data[BUFSIZE]

search_vars == <<file, s, offset, data, last, line_start, cnt, pc, found, junk>>

-----------------------------------------------------------------------------
\* cnt = read(fd, data + last, BUFSIZE - last); read_data delivers what is left
\* of the file, up to that many bytes, and stores a 0 behind the last one when
\* the file ends in the middle of a read.  It has no reason to return -1 for a
\* file that open has found, so grep's "file read failed" is left out.
Read ==
  LET n == IF BUFSIZE - last <= Len(file) - offset THEN BUFSIZE - last
                                                   ELSE Len(file) - offset
      stop == IF 0 < n /\ n < BUFSIZE - last THEN {last + n} ELSE {}
  IN /\ pc = "read" /\ pc' = "line"
     /\ cnt' = n
     /\ data' = [i \in DOMAIN data |->
                   CASE i \in last..(last + n - 1) -> file[offset + i - last + 1]
                     [] i \in stop -> ZERO
                     [] OTHER -> data[i]]
     /\ offset' = offset + n
     /\ last' = last + n
     /\ line_start' = 0
     /\ UNCHANGED <<file, s, found, junk>>

\* The first EOL from line_start on, or last.
line_end ==
  CHOOSE e \in line_start..last :
    /\ e = last \/ data[e] = EOL
    /\ \A i \in line_start..(e - 1) : data[i] # EOL

\* data[line_end] = 0, which is beyond last when line_end is last.
Cut == [data EXCEPT ![line_end] = ZERO]

\* The string that begins at i, up to its terminator.
StringEnd(bytes, i) ==
  LET ends == {e \in DOMAIN bytes : e >= i /\ bytes[e] = ZERO}
  IN CHOOSE e \in ends : \A other \in ends : e <= other
StringAt(bytes, i) == [k \in 1..(StringEnd(bytes, i) - i) |-> bytes[i + k - 1]]

\* ece391_strcpy(data, data + line_start), front to back.
MovedDown(bytes) ==
  LET rest == StringAt(bytes, line_start) \o <<ZERO>>
  IN [i \in DOMAIN bytes |-> IF i < Len(rest) THEN rest[i + 1] ELSE bytes[i]]

\* ece391_strncmp says that the word is at check: the terminator at line_end
\* differs from every byte of it.  The for loop of the search tries every
\* check; FoundAtStart only the first.
WordAt(check) ==
  \A k \in 1..Len(s) : check + k - 1 < line_end /\ data[check + k - 1] = s[k]
FoundAtStart == WordAt(line_start)
Found == \E check \in line_start..(line_end - 1) : WordAt(check)

\* The line is cut by the end of the buffer, the read before was not the last
\* one, and moving the line makes room; MustMoveEver moves it in any case.
MustMoveEver == data[line_end] # EOL
MustMove == data[line_end] # EOL /\ cnt # 0 /\ line_start # 0

MoveLine ==
  /\ pc = "line" /\ MustMove
  /\ data' = MovedDown(Cut)
  /\ last' = last - line_start
  /\ pc' = "read"
  /\ UNCHANGED <<file, s, offset, line_start, cnt, found, junk>>

SearchLine ==
  /\ pc = "line" /\ ~MustMove
  /\ data' = Cut
  /\ found' = IF Found THEN Append(found, StringAt(Cut, line_start)) ELSE found
  /\ line_start' = line_end + 1
  /\ IF line_end + 1 < last
       THEN UNCHANGED <<last, pc>>
       ELSE last' = 0 /\ pc' = IF cnt = 0 THEN "done" ELSE "read"
  /\ UNCHANGED <<file, s, offset, cnt, junk>>

do_one_file == Read \/ MoveLine \/ SearchLine

SearchInit ==
  /\ file \in Texts /\ s \in Words
  /\ data \in [0..BUFSIZE -> Stack] /\ junk = data[BUFSIZE]
  /\ offset = 0 /\ last = 0 /\ line_start = 0 /\ cnt = 0
  /\ pc = "read" /\ found = <<>>

\* No search is going on.
SearchIdle ==
  /\ file = <<>> /\ s = <<>> /\ data = <<>> /\ junk = ZERO
  /\ offset = 0 /\ last = 0 /\ line_start = 0 /\ cnt = 0
  /\ pc = "done" /\ found = <<>>

-----------------------------------------------------------------------------
(***************************************************************************)
(* Properties.                                                             *)
(***************************************************************************)

\* The lines of a text begin at its first byte and behind every EOL; the last
\* one may lack its EOL.
LineStarts(t) == {i \in 1..Len(t) : i = 1 \/ t[i - 1] = EOL}
LineEnd(t, i) ==
  CHOOSE e \in i..(Len(t) + 1) :
    /\ e = Len(t) + 1 \/ t[e] = EOL
    /\ \A k \in i..(e - 1) : t[k] # EOL
Line(t, i) == SubSeq(t, i, LineEnd(t, i) - 1)

Mentions(line, w) ==
  \E i \in 0..(Len(line) - Len(w)) : \A k \in 1..Len(w) : line[i + k] = w[k]

\* lines are the lines of t that begin at starts, each once and in order.
AreLines(lines, t, starts) ==
  \E pick \in [1..Len(lines) -> starts] :
    /\ \A j, k \in 1..Len(lines) : j < k => pick[j] < pick[k]
    /\ \A i \in starts : \E k \in 1..Len(lines) : pick[k] = i
    /\ \A k \in 1..Len(lines) : lines[k] = Line(t, pick[k])

\* Whatever the reads cut, grep writes exactly the lines of the file that
\* contain the word, whole and in order, provided every line fits into the
\* buffer and data[BUFSIZE], which is compared with EOL before it is first
\* written, does not happen to hold one.
LinesFit == \A i \in LineStarts(file) : Len(Line(file, i)) < BUFSIZE
SearchExact ==
  pc = "done" /\ LinesFit /\ junk # EOL =>
    AreLines(found, file, {i \in LineStarts(file) : Mentions(Line(file, i), s)})

\* The search of a file ends: every round of the inner loop consumes a line or
\* moves the cut one to the front, which makes room for the next read, and a
\* line that fills the buffer is searched instead of moved.
GrepEnds == (pc # "done") ~> (pc = "done")
=============================================================================
