------------------------------ MODULE Programs ------------------------------
(***************************************************************************)
(* The user programs of src/syscalls and src/fish on top of the kernel:    *)
(* the shell that starts them, and what each of them asks the kernel for.  *)
(* A step is a system call with the code up to the next one.  Prompts and  *)
(* pictures are left out; what is kept of the output is what the shell     *)
(* says about a command and the verdicts of syserr.                        *)
(***************************************************************************)
EXTENDS UserCalls

CONSTANTS
  Entries,   \* the directory: its names in order
  Typed,     \* the command lines that users type at the shell
  Choices,   \* the test numbers they type at syserr
  Counts,    \* the numbers they choose at counter
  WAIT       \* the ticks fish waits for: 4 times 100

ASSUME EntriesAssumption ==
  /\ Entries \in Seq(File) /\ Len(Entries) = Cardinality(File)
  /\ \A name \in File : \E i \in 1..Len(Entries) : Entries[i] = name
ASSUME TypedAssumption == Typed \subseteq Seq(STRING) /\ Choices \subseteq Int /\ Counts \subseteq Nat /\ WAIT \in Nat

VARIABLE
  said       \* the last message of the shell

all_vars == <<vars, user_vars, said>>

BUFSIZE == 1024
SBUFSIZE == 33

Quiet == UNCHANGED said

-----------------------------------------------------------------------------
(* ece391shell.c *)

ShellRead ==
  /\ Runs(Shell, "main")
  /\ call_read(0, BUFSIZE - 1) /\ Quiet
  /\ \E line \in Typed :
       Unless(Exiting(3), CASE line = <<"exit">> -> Exiting(0)
                            [] line = <<>> -> me
                            [] OTHER -> [me EXCEPT !.at = "execute", !.buf = line])

ShellExecute ==
  /\ Runs(Shell, "execute")
  /\ call_execute(me.buf, [me EXCEPT !.at = "report"])
  /\ Quiet

Message(rval) ==
  CASE rval = -1 -> "no such command"
    [] rval = 256 -> "program terminated by exception"
    [] rval = 0 -> "nothing"
    [] OTHER -> "program terminated abnormally"

\* The value of execute is still in EAX; for 0 nothing is written.
ShellReport ==
  /\ Runs(Shell, "report")
  /\ said' = Message(ret_val)
  /\ IF ret_val = 0 THEN UNCHANGED <<vars, outcome>>
                    ELSE call_write(1, 1)
  /\ Become([me EXCEPT !.at = "main", !.buf = <<>>])

-----------------------------------------------------------------------------
(* ece391cat.c *)

CatArgs == Runs("cat", "main") /\ call_getargs(BUFSIZE, Exiting(3), "open") /\ Quiet

CatOpen ==
  /\ Runs("cat", "open")
  /\ call_open(WholeName(me.buf)) /\ Quiet
  /\ Unless(Exiting(2), [me EXCEPT !.at = "read", !.fd = ret_val'])

CatRead ==
  /\ Runs("cat", "read")
  /\ call_read(me.fd, BUFSIZE) /\ Quiet
  /\ Unless(Exiting(3), IF ret_val' = 0 THEN Exiting(0)
                        ELSE [me EXCEPT !.at = "write", !.n = ret_val'])

CatWrite ==
  /\ Runs("cat", "write")
  /\ call_write(1, me.n) /\ Quiet
  /\ Unless(Exiting(3), [me EXCEPT !.at = "read"])

Cat == CatArgs \/ CatOpen \/ CatRead \/ CatWrite

-----------------------------------------------------------------------------
(* ece391ls.c, and the part of ece391grep.c that walks the directory. *)

NextEntry == Entries[fa[me.fd].file_pos + 1]

ListOpen(p, label) ==
  /\ Runs(p, label)
  /\ call_open(".") /\ Quiet
  /\ Unless(Exiting(2), [me EXCEPT !.at = "entry", !.fd = ret_val'])

\* The name just read is written by ls, and searched by grep unless it begins
\* with '.'.
Skipped(p, name) == p = "grep" /\ name = "."
ListEntry(p, label) ==
  /\ Runs(p, "entry")
  /\ call_read(me.fd, SBUFSIZE - 1) /\ Quiet
  /\ Unless(Exiting(3), CASE ret_val' = 0 -> Exiting(0)
                          [] ret_val' # 0 /\ Skipped(p, NextEntry) -> me
                          [] OTHER -> [me EXCEPT !.at = label, !.buf = <<NextEntry>>])

LsWrite ==
  /\ Runs("ls", "write")
  /\ call_write(1, 1) /\ Quiet
  /\ Unless(Exiting(3), [me EXCEPT !.at = "entry", !.buf = <<>>,
                                   !.seen = Append(@, me.buf[1])])

Ls == ListOpen("ls", "main") \/ ListEntry("ls", "write") \/ LsWrite

GrepArgs == Runs("grep", "main") /\ call_getargs(BUFSIZE, Exiting(3), "opendir") /\ Quiet

\* do_one_file: its searching of lines is the subject of Search.
GrepOpen ==
  /\ Runs("grep", "search")
  /\ call_open(me.buf[1]) /\ Quiet
  /\ Unless(Exiting(3), [me EXCEPT !.at = "lines", !.fd2 = ret_val'])

GrepRead ==
  /\ Runs("grep", "lines")
  /\ call_read(me.fd2, BUFSIZE) /\ Quiet
  /\ Unless(Exiting(3), IF ret_val' = 0 THEN [me EXCEPT !.at = "close"] ELSE me)

\* GrepNoClose forgets the close of the file.
GrepNoClose ==
  /\ Runs("grep", "close")
  /\ Answer(0) /\ Quiet
  /\ Become([me EXCEPT !.at = "entry", !.fd2 = -1, !.buf = <<>>,
                       !.seen = Append(@, me.buf[1])])
GrepClose ==
  /\ Runs("grep", "close")
  /\ call_close(me.fd2) /\ Quiet
  /\ Unless(Exiting(3), [me EXCEPT !.at = "entry", !.fd2 = -1, !.buf = <<>>,
                                   !.seen = Append(@, me.buf[1])])

Grep ==
  \/ GrepArgs \/ ListOpen("grep", "opendir")
  \/ ListEntry("grep", "search")
  \/ GrepOpen \/ GrepRead \/ GrepClose

-----------------------------------------------------------------------------
(* The programs that put a question: ece391hello.c, ece391counter.c,       *)
(* ece391sigtest.c, and ece391syserr.c.  The user need not answer.         *)

Ask(p, label, nbytes, status, context) ==
  /\ Runs(p, label)
  /\ call_read(0, nbytes) /\ Quiet
  /\ Unless(Exiting(status), context)

HelloAsk == Ask("hello", "main", BUFSIZE - 1, 3, Exiting(0))

SigtestArgs == Runs("sigtest", "main") /\ call_getargs(BUFSIZE, Exiting(3), "handlers") /\ Quiet

\* With argument 1 it installs handlers; without, it asks, and then stores
\* through a null pointer.
SigtestHandlers ==
  /\ Runs("sigtest", "handlers")
  /\ IF me.buf[1] = "1" THEN call_set_handler
                        ELSE UNCHANGED <<vars, outcome>> /\ Goto("ask")
  /\ Quiet
SigtestAsk == Ask("sigtest", "ask", BUFSIZE - 1, 3, [me EXCEPT !.at = "store"])
SigtestStore == Runs("sigtest", "store") /\ Fault /\ Quiet

Sigtest == SigtestArgs \/ SigtestHandlers \/ SigtestStore

\* counter counts to the number that was chosen, or not at all.
CounterAsk ==
  \E max \in Counts \cup {0} :
    Ask("counter", "main", BUFSIZE - 1, 3,
        [me EXCEPT !.at = "count", !.n = max])
CounterWrite ==
  /\ Runs("counter", "count")
  /\ IF me.n = 0
       THEN UNCHANGED <<vars, outcome>> /\ Become(Exiting(0))
       ELSE call_write(1, me.n) /\ Become([me EXCEPT !.n = @ - 1])
  /\ Quiet

TestprintWrite ==
  /\ Runs("testprint", "main")
  /\ call_write(1, 1) /\ Quiet
  /\ Become(Exiting(0))

-----------------------------------------------------------------------------
(* ece391pingpong.c *)

PingpongOpen ==
  /\ Runs("pingpong", "main")
  /\ call_open("rtc") /\ Quiet
  /\ Become([me EXCEPT !.at = "rate", !.fd = ret_val'])
PingpongRate == Runs("pingpong", "rate") /\ call_write(me.fd, 4) /\ Quiet /\ Goto("draw")
PingpongDraw == Runs("pingpong", "draw") /\ call_write(1, 1) /\ Quiet /\ Goto("tick")
PingpongTick == Runs("pingpong", "tick") /\ call_read(me.fd, 4) /\ Quiet /\ Goto("draw")

Pingpong == PingpongOpen \/ PingpongRate \/ PingpongDraw \/ PingpongTick

-----------------------------------------------------------------------------
(* ece391syserr.c *)

NEG == -1073741823
BIG == 1073741823

Check(call, x) == [call |-> call, x |-> x]
EachFd(call, first) == [i \in 1..(8 - first) |-> Check(call, first + i - 1)]

\* The calls of each test that must return -1, in order.  Test 3, which opens
\* until the file array is full, is below.
Checks ==
  <<<<Check("read", NEG), Check("write", NEG), Check("close", NEG)>>,
    <<Check("read", BIG), Check("write", BIG), Check("close", BIG)>>,
    <<>>,
    <<Check("open", "helloo"), Check("open", "shel"), Check("open", "")>>,
    EachFd("close", 0) \o EachFd("read", 2) \o EachFd("write", 2),
    <<Check("vidmap", NULL), Check("vidmap", FOUR_MB)>>,
    <<Check("write", 0), Check("read", 1)>>,
    <<Check("sys", BIG), Check("sys", NEG), Check("sys", 0)>>>>

MakeCall(c) ==
  \/ c.call = "read" /\ call_read(c.x, 31)
  \/ c.call = "write" /\ call_write(c.x, 31)
  \/ c.call = "close" /\ call_close(c.x)
  \/ c.call = "open" /\ call_open(c.x)
  \/ c.call = "vidmap" /\ call_vidmap(c.x)
  \/ c.call = "sys" /\ call_sys(c.x)

\* The tests still to be made are in seen, the call of the first one in n, its
\* verdict so far in fail.
SyserrAsk ==
  \E choice \in Choices :
    Ask("syserr", "main", 127, 2,
        [me EXCEPT !.at = "test", !.n = 1,
                   !.seen = CASE choice = 0 -> <<1, 2, 3, 4, 5, 6, 7, 8>>
                              [] choice \in 1..8 -> <<choice>>
                              [] OTHER -> <<>>])

Testing(t) == Runs("syserr", "test") /\ me.seen # <<>> /\ me.seen[1] = t

SyserrCheck ==
  /\ \E t \in (1..8) \ {3} :
       /\ Testing(t) /\ me.n <= Len(Checks[t])
       /\ MakeCall(Checks[t][me.n])
  /\ Become([me EXCEPT !.n = @ + 1, !.fail = IF ret_val' # -1 THEN 2 ELSE @])
  /\ Quiet

\* Seven opens, whose failures are counted, then a close of each.
OpenLots ==
  /\ Testing(3) /\ me.n <= 13
  /\ IF me.n <= 7 THEN call_open(".") ELSE call_close(me.n - 6)
  /\ Become([me EXCEPT !.n = @ + 1,
                       !.cnt = IF me.n <= 7 /\ ret_val' = -1 THEN @ + 1 ELSE @])
  /\ Quiet

\* The verdict of a test is printed and added up; main returns the sum.
Verdict(t) == IF t = 3 /\ me.cnt # 1 THEN 2 ELSE me.fail
SyserrNext ==
  /\ \E t \in 1..8 :
       /\ Testing(t) /\ me.n > (IF t = 3 THEN 13 ELSE Len(Checks[t]))
       /\ Become([me EXCEPT !.n = 1, !.cnt = 0, !.fail = 0, !.seen = Tail(@),
                            !.total = @ + Verdict(t)])
  /\ call_write(1, 1) /\ Quiet
SyserrDone ==
  /\ Runs("syserr", "test") /\ me.seen = <<>>
  /\ UNCHANGED <<vars, outcome>> /\ Quiet
  /\ Become(Exiting(me.total))

Syserr == SyserrCheck \/ OpenLots \/ SyserrNext \/ SyserrDone

-----------------------------------------------------------------------------
(* fish.c *)

FishVidmap ==
  /\ Runs("fish", "main")
  /\ call_vidmap(FOUR_MB + 1) /\ Quiet
  /\ Unless(Exiting(-1), [me EXCEPT !.at = "rtc"])
FishRtc ==
  /\ Runs("fish", "rtc")
  /\ call_open("rtc") /\ Quiet
  /\ Become([me EXCEPT !.at = "open0", !.n = ret_val'])
\* add_frames; an early halt passes -1.
FishOpen(label, name, opened) ==
  /\ Runs("fish", label)
  /\ call_open(name) /\ Quiet
  /\ Unless(Exiting(-1), opened)

\* The next byte of frame k, unless its row has ended; a frame that is at its
\* end counts as a row that has ended.  FishByteEof forgets the latter.
FishByteEof(k, fd, label, next) ==
  /\ Runs("fish", label)
  /\ IF k \in me.ended
       THEN UNCHANGED <<vars, outcome>> /\ Goto(next)
       ELSE /\ call_read(fd, 1)
            /\ \E newline \in BOOLEAN :
                 Become([me EXCEPT !.at = next,
                           !.eof = IF ret_val' = 0 THEN @ \cup {k} ELSE @,
                           !.ended = IF ret_val' = 1 /\ newline THEN @ \cup {k} ELSE @])
  /\ Quiet
FishByte(k, fd, label, next) ==
  /\ Runs("fish", label)
  /\ IF k \in me.ended
       THEN UNCHANGED <<vars, outcome>> /\ Goto(next)
       ELSE /\ call_read(fd, 1)
            /\ \E newline \in BOOLEAN :
                 Become([me EXCEPT !.at = next,
                           !.eof = IF ret_val' = 0 THEN @ \cup {k} ELSE @,
                           !.ended = IF ret_val' = 0 \/ (ret_val' = 1 /\ newline)
                                       THEN @ \cup {k} ELSE @])
  /\ Quiet

\* Both rows have ended: a frame at its end is closed, once more for every
\* further row of the other; the rest begin a new row.
FishRow ==
  /\ Runs("fish", "row")
  /\ UNCHANGED <<vars, outcome>> /\ Quiet
  /\ Goto(IF me.ended = {0, 1} THEN "close0" ELSE "byte0")
FishClose(k, fd, label, context) ==
  /\ Runs("fish", label)
  /\ IF k \in me.eof THEN call_close(fd) ELSE UNCHANGED <<vars, outcome>>
  /\ Become(context) /\ Quiet

AddFrames ==
  \/ FishOpen("open0", "frame0.txt", [me EXCEPT !.at = "open1", !.fd = ret_val'])
  \/ FishOpen("open1", "frame1.txt", [me EXCEPT !.at = "byte0", !.fd2 = ret_val'])
  \/ FishByte(0, me.fd, "byte0", "byte1") \/ FishByte(1, me.fd2, "byte1", "row")
  \/ FishRow
  \/ FishClose(0, me.fd, "close0", [me EXCEPT !.at = "close1"])
  \/ FishClose(1, me.fd2, "close1",
               [me EXCEPT !.ended = me.eof,
                          !.at = IF me.eof = {0, 1} THEN "rate" ELSE "byte0"])

FishRate ==
  /\ Runs("fish", "rate")
  /\ call_write(me.n, 4) /\ Quiet
  /\ Become([me EXCEPT !.at = "wait", !.cnt = WAIT])
FishWait ==
  /\ Runs("fish", "wait") /\ me.cnt > 0
  /\ call_read(me.n, 4) /\ Quiet
  /\ Become([me EXCEPT !.cnt = @ - 1])
FishEnd ==
  /\ Runs("fish", "wait") /\ me.cnt = 0
  /\ call_close(me.n) /\ Quiet
  /\ Become(Exiting(0))

Fish == FishVidmap \/ FishRtc \/ AddFrames \/ FishRate \/ FishWait \/ FishEnd

-----------------------------------------------------------------------------
\* _start: when main has returned, halt with its value.
Leave == me.at = "halt" /\ call_halt(me.n) /\ Quiet

BootShell ==
  /\ Boot
  /\ ctx' = [ctx EXCEPT ![1] = [NoContext EXCEPT !.at = "main",
                                                !.input = InputOf(<<Shell>>, <<>>)]]
  /\ outcome' = "running" /\ Quiet

\* What waits for nobody.
Runnable ==
  \/ BootShell
  \/ /\ running # "boot"
     /\ \/ ShellExecute \/ ShellReport
        \/ Cat \/ Ls \/ Grep \/ Sigtest \/ TestprintWrite \/ CounterWrite
        \/ Pingpong \/ Syserr \/ Fish
        \/ Leave

Answers ==
  /\ running # "boot"
  /\ ShellRead \/ HelloAsk \/ SigtestAsk \/ CounterAsk \/ SyserrAsk

ProgramsInit ==
  /\ Init
  /\ ctx = [d \in Depths |-> NoContext]
  /\ outcome = "none" /\ said = "nothing"

ProgramsNext == Runnable \/ Answers

ProgramsSpec == ProgramsInit /\ [][ProgramsNext]_all_vars

\* The CPU executes the program that runs; users need not type.
FairProgramsSpec == ProgramsSpec /\ WF_all_vars(Runnable)

-----------------------------------------------------------------------------
(***************************************************************************)
(* Properties.                                                             *)
(***************************************************************************)

\* What the shell says about a command (ece391shell.c:28-33) is how it ended:
\* the status of halt, the 256 of an exception and the -1 of a command that
\* cannot be executed reach it through different returns of execute.
ShellReports ==
  [][ShellReport =>
       said' = CASE outcome = "refused" -> "no such command"
                 [] outcome = "exception" -> "program terminated by exception"
                 [] outcome = "failure" -> "program terminated abnormally"
                 [] OTHER -> "nothing"]_all_vars

\* Every test of syserr passes, chosen alone or with the others, under any
\* number of shells and after any other commands.
SyserrPasses == running = "syserr" => me.fail = 0 /\ me.total = 0

\* The arguments that getargs gives a program are the words behind the first
\* space of the line its shell still holds, all of them and nothing of what
\* lay behind the line in the PCB.
ArgumentsExact ==
  running \in {"cat", "grep", "sigtest"} /\ me.at \in {"open", "opendir", "handlers"} =>
    LET command == ctx[process_number - 1].buf
    IN HasSpace(command) =>
         me.buf = SubSeq(command, FirstSpace(command) + 1, Len(command))

\* ls shows, and grep searches, every entry of the directory once and in
\* order, although grep opens and closes files while it reads the directory:
\* once it has its argument, no descriptor runs out on the way.
ListsAll ==
  /\ running = "ls" /\ me.at = "halt" => me.seen = Entries
  /\ running = "grep" /\ me.at = "halt" /\ (me.n # 3 \/ me.seen # <<>>) =>
       me.seen = SelectSeq(Entries, LAMBDA name : name # ".")

Finite == {"cat", "ls", "grep", "hello", "counter", "testprint", "sigtest", "syserr", "fish"}
Asking ==
  \/ Runs("hello", "main") \/ Runs("counter", "main") \/ Runs("syserr", "main")
  \/ Runs("sigtest", "ask")

\* A command that ends by design does end, unless it waits for an answer of
\* its user: no loop over a file, a directory or the file array is endless, and
\* the shell that executed it runs again.
CommandsEnd == (running \in Finite) ~> (running \notin Finite \/ Asking)
=============================================================================
