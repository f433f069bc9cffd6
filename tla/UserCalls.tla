----------------------------- MODULE UserCalls ------------------------------
(***************************************************************************)
(* A program above the kernel: its context while it runs or waits in       *)
(* execute, the call wrappers of ece391syscall.S, and the calls that       *)
(* Kernel reduces to "other": getargs, set_handler, vidmap and numbers     *)
(* that are no call.                                                       *)
(*                                                                         *)
(* A command line is a sequence of words; a word stands for the bytes      *)
(* between separators, and " " and NUL for themselves.                     *)
(***************************************************************************)
EXTENDS Kernel, Sequences

CONSTANTS
  Residue   \* what may lie behind the command: new_pcb is not initialised, and
            \* above its input are other fields and the kernel stack

NUL == "nul"

ASSUME ResidueAssumption ==
  \A r \in Residue : r \in Seq(STRING) /\ (r # <<>> => r[Len(r)] = NUL)

VARIABLES
  ctx,       \* per depth: the registers, locals and command line of a process
  outcome    \* how the command that ended last ended

user_vars == <<ctx, outcome>>

Depths == 1..MaxProcesses

NoContext ==
  [at |-> "none", input |-> <<>>, buf |-> <<>>, fd |-> -1, fd2 |-> -1,
   n |-> 0, cnt |-> 0, fail |-> 0, total |-> 0, seen |-> <<>>, eof |-> {},
   ended |-> {}]

me == ctx[process_number]
Become(context) == ctx' = [ctx EXCEPT ![process_number] = context]
Runs(p, label) == running = p /\ me.at = label

\* main returns, or the program calls halt itself: what is left of it is the
\* status in EBX.
Exiting(status) == [NoContext EXCEPT !.at = "halt", !.n = status, !.seen = me.seen]

\* The next statement is at label, the locals as they are or updated.
Goto(label) == Become([me EXCEPT !.at = label])

\* The next label depends on whether the call just made returned -1.
Unless(failed, context) == Become(IF ret_val' = -1 THEN failed ELSE context)

-----------------------------------------------------------------------------
(* The wrappers: EAX is the number, EBX, ECX and EDX the arguments. *)

call_read(fd, nbytes) ==
  /\ \/ FileRead(fd, nbytes)
     \/ DirRead(fd, nbytes)
     \/ \E line \in TextLen : DeviceRead(fd, nbytes, line)
     \/ ReadFails(fd, nbytes)
  /\ UNCHANGED outcome
call_write(fd, nbytes) == (Write(fd, nbytes) \/ WriteFails(fd, nbytes)) /\ UNCHANGED outcome
\* open looks up the whole string, separators included, and no file has one in
\* its name.
WholeName(str) == IF \E name \in File : str = <<name>> THEN str[1] ELSE Absent
call_open(name) == (Open(name) \/ OpenFails(name)) /\ UNCHANGED outcome
call_close(fd) == (Close(fd) \/ CloseFails(fd)) /\ UNCHANGED outcome

\* A call that leaves the kernel's state alone.
Answer(value) == Return("other", value) /\ UNCHANGED <<process_vars, pcbs, outcome>>

\* vidmap refuses pointers up to the end of the first 4MB; AllowKernel only NULL.
AllowKernel(ptr) == ptr # NULL
UserPointer(ptr) == ptr > FOUR_MB
call_vidmap(ptr) == Answer(IF UserPointer(ptr) THEN 0 ELSE -1)

\* The dispatcher refuses a number outside 1..10.
call_sys(num) == num \notin 1..10 /\ Answer(-1)

-----------------------------------------------------------------------------
(* execute, halt and exceptions. *)

\* What execute takes for the file name: the bytes in front of the first
\* separator.
IsName(command, name) ==
  /\ command # <<>> /\ command[1] = name
  /\ Len(command) > 1 => command[2] \in {" ", NUL}
NameOf(command) ==
  IF \E name \in File : IsName(command, name) THEN command[1] ELSE Absent

\* strcpy(new_pcb.input, command) ends with the terminator; what lies behind
\* it was never initialised.
InputOf(command, rest) == command \o <<NUL>> \o rest

\* The caller waits with context waiting; the program begins at "main".
call_execute(command, waiting) ==
  \/ /\ Execute(NameOf(command))
     /\ \E rest \in Residue :
          LET began == [NoContext EXCEPT !.at = "main", !.input = InputOf(command, rest)]
          IN ctx' = [d \in Depths |-> CASE d = process_number -> waiting
                                        [] d = process_number + 1 -> began
                                        [] OTHER -> ctx[d]]
     /\ outcome' = "running"
  \/ /\ ExecuteFails(NameOf(command))
     /\ Become(waiting)
     /\ outcome' = "refused"

Ended == ctx' = [ctx EXCEPT ![process_number] = NoContext]

call_halt(status) ==
  /\ Halt(status)
  /\ Ended
  /\ outcome' = IF status = 0 THEN "success" ELSE "failure"

Fault == Exception /\ Ended /\ outcome' = "exception"

-----------------------------------------------------------------------------
(* getargs. *)

\* The index of the first byte behind the first ' '.
FirstSpace(in) == CHOOSE i \in 1..Len(in) : in[i] = " " /\ \A j \in 1..(i - 1) : in[j] # " "

\* The loop goes on at idx: idx < nbytes - in_idx, unsigned, and the byte
\* before was not 0.
Continues(in, idx, nbytes) ==
  LET in_idx == FirstSpace(in) + idx
  IN /\ idx < nbytes - in_idx \/ nbytes < in_idx
     /\ \A k \in 0..(idx - 1) : in[FirstSpace(in) + k + 1] # NUL

\* How often the loop body has stored a byte other than 0 when it ends.
Stored(in, nbytes) ==
  CHOOSE k \in 0..Len(in) :
    /\ \A idx \in 0..k : Continues(in, idx, nbytes) \/ idx = k
    /\ \/ ~Continues(in, k, nbytes)
       \/ in[FirstSpace(in) + k + 1] = NUL

\* GetArgsFromStart copies the command, not what follows it.
GetArgsFromStart(in, nbytes) == SubSeq(in, 1, Stored(in, nbytes))
GetArgs(in, nbytes) ==
  SubSeq(in, FirstSpace(in) + 1, FirstSpace(in) + Stored(in, nbytes))

HasSpace(in) == \E i \in 1..Len(in) : in[i] = " "

\* A search that finds no ' ' runs on to the end of the kernel's page, where it
\* faults.  The arguments arrive in buf; -1 says that there are none.
call_getargs(nbytes, failed, label) ==
  \/ ~HasSpace(me.input) /\ Fault
  \/ /\ HasSpace(me.input)
     /\ Answer(IF Stored(me.input, nbytes) = 0 THEN -1 ELSE 0)
     /\ Unless(failed, [me EXCEPT !.at = label, !.buf = GetArgs(me.input, nbytes)])

\* The entry of set_handler calls sys_getargs_c, with the signal number for
\* buf: the first byte it stores goes to the unmapped page 0.
call_set_handler == Fault
=============================================================================
