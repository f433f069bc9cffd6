---------------------------- MODULE ProcessStack ----------------------------
(***************************************************************************)
(* What the process calls promise, without addresses, page frames or saved *)
(* registers: the live programs form a stack of bounded depth.  Only the   *)
(* program on top acts.  It may start another on top of itself, leave, or  *)
(* change one handle of its own table; every program below it finds its    *)
(* own table exactly as it left it.  A table is a function whose domain is *)
(* the set of descriptors that are open.                                   *)
(***************************************************************************)
EXTENDS Integers, Sequences

CONSTANTS
  Depth,        \* how many programs may be live
  Program,      \* the programs that can be started
  FirstProgram, \* the one that is started when none is live
  Fds,          \* the descriptors
  Std,          \* the descriptors every program starts with
  StdHandle,    \* the handle they hold
  Kind,         \* the kinds of handle a program can open
  Object,       \* the objects a handle can refer to
  Position      \* the positions a handle can have

VARIABLE stack

Top == Len(stack)
table == stack[Top].table

SetTable(t) == stack' = [stack EXCEPT ![Top].table = t]

StdTable == [fd \in Std |-> StdHandle]

Start(p) ==
  /\ Top < Depth
  /\ stack' = Append(stack, [prog |-> p, table |-> StdTable])

Leave ==
  /\ Top > 0
  /\ stack' = SubSeq(stack, 1, Top - 1)

\* The lowest descriptor that is free becomes open at position 0.
OpenHandle(fd) ==
  /\ Top > 0
  /\ fd \notin DOMAIN table
  /\ \A lower \in Fds : lower < fd => lower \in DOMAIN table
  /\ \E kind \in Kind, object \in Object :
       SetTable([f \in DOMAIN table \cup {fd} |->
                   IF f = fd THEN [kind |-> kind, object |-> object, pos |-> 0]
                             ELSE table[f]])

CloseHandle(fd) ==
  /\ Top > 0
  /\ fd \in DOMAIN table \ Std
  /\ SetTable([f \in DOMAIN table \ {fd} |-> table[f]])

\* Reading moves one handle forward.
Advance(fd) ==
  /\ Top > 0
  /\ fd \in DOMAIN table \ Std
  /\ \E pos \in Position :
       /\ pos > table[fd].pos
       /\ SetTable([table EXCEPT ![fd].pos = pos])

Init == stack = <<>>

Next ==
  \/ Top > 0 /\ \E p \in Program : Start(p)
  \/ Top = 0 /\ Start(FirstProgram)
  \/ Leave
  \/ \E fd \in Fds : OpenHandle(fd) \/ CloseHandle(fd) \/ Advance(fd)

Spec == Init /\ [][Next]_stack /\ WF_stack(Top = 0 /\ Start(FirstProgram))
=============================================================================
