----------------------------- MODULE Interrupts -----------------------------
(***************************************************************************)
(* The two interrupt sources, the 8259 pair, and a program in rtc_read:    *)
(* rtc_driver.c, the interrupt side of key_driver.c, i8259.c and the       *)
(* linkage RTC_HANDLER and KEY_HANDLER of exceptions.S.                    *)
(*                                                                         *)
(* A handler starts with IF clear (interrupt gates) but executes sti       *)
(* before its iret, and key_handler does so, after an EOI, before its      *)
(* second EOI; from there on other handlers nest on top of it.  frames is  *)
(* that stack of handlers, the last one running; the program runs when it  *)
(* is empty.  The 8259 and the two devices are external to the source.     *)
(***************************************************************************)
EXTENDS Integers, Sequences, FiniteSets

CONSTANTS
  RateByte,   \* the first byte of the buffers passed to rtc_write
  MaxNest,    \* bound: how deep handlers nest
  MaxKeys     \* bound: scancodes waiting in the keyboard controller

ASSUME BoundsAssumption == MaxNest \in Nat /\ MaxKeys \in Nat
ASSUME ByteAssumption == RateByte \subseteq 0..255

VARIABLES
  IF_flag,        \* the CPU's interrupt flag
  frames,         \* the handlers being executed: which one and where it is
  pc,             \* where the program is
  masked,         \* the IRQs masked: master_mask and slave_mask
  irr, isr,       \* requested, and in service, of the two 8259s together
  rtc_line,       \* register C of the RTC: an interrupt not acknowledged yet
  keys,           \* scancodes in the keyboard controller
  rtc_interrupt,  \* the flag between rtc_handler and rtc_read
  rate,           \* the low bits of register A
  asked,          \* the frequency last asked for successfully
  fresh           \* has a tick been handled since the flag was last taken?

devices == <<rtc_line, keys>>
pic == <<masked, irr, isr>>
vars == <<IF_flag, frames, pc, pic, devices, rtc_interrupt, rate, asked, fresh>>

KEY == 1
CASCADE == 2
RTC == 8
Irq == {KEY, CASCADE, RTC}

-----------------------------------------------------------------------------
(* The interrupt descriptor table. *)
SYS_CALL_NUM == 128
Exceptions == (0..19) \ {1, 9, 15}
Gate(handler, dpl, type) == [handler |-> handler, present |-> 1, dpl |-> dpl, type |-> type]
NoGate == [handler |-> "none", present |-> 0, dpl |-> 0, type |-> "interrupt"]

\* Every exception but the double fault halts the program.
ExceptionGate(v) ==
  CASE v = 8 -> Gate("task", 0, "task")
    [] v \in {2, 14} -> Gate("exception", 0, "interrupt")
    [] v = 3 -> Gate("exception", 3, "interrupt")
    [] v \in {4, 5} -> Gate("exception", 3, "trap")
    [] OTHER -> Gate("exception", 0, "trap")

\* The entry of vector v after a call for v with function f, "none" for NULL.
set_idt_entry(old, v, f) ==
  CASE f # "none" -> Gate(f, 0, "interrupt")
    [] f = "none" /\ v \in Exceptions -> ExceptionGate(v)
    [] f = "none" /\ v = SYS_CALL_NUM -> Gate("system call", 3, "trap")
    [] OTHER -> IF old.present = 0 THEN NoGate ELSE old

\* i8259_init maps the IRQs of the master from 0x20 and the slave's from 0x28.
Vector(q) == IF q < 8 THEN 32 + q ELSE 40 + (q - 8)

\* The table that entry() leaves: it links the two handlers, then calls
\* set_idt_entry without a function for every vector.
Linked == [v \in 0..255 |->
             IF v = Vector(RTC) THEN set_idt_entry(NoGate, v, "rtc")
             ELSE IF v = Vector(KEY) THEN set_idt_entry(NoGate, v, "key")
             ELSE NoGate]
idt == [v \in 0..255 |-> set_idt_entry(Linked[v], v, "none")]

-----------------------------------------------------------------------------
(* The devices and the 8259s. *)

\* A periodic interrupt: no new edge until register C is read.
Tick ==
  /\ ~rtc_line
  /\ rtc_line' = TRUE /\ irr' = irr \cup {RTC}
  /\ UNCHANGED <<IF_flag, frames, pc, masked, isr, keys, rtc_interrupt, rate, asked, fresh>>

KeyEvent ==
  /\ keys < MaxKeys
  /\ keys' = keys + 1
  /\ irr' = IF keys = 0 THEN irr \cup {KEY} ELSE irr
  /\ UNCHANGED <<IF_flag, frames, pc, masked, isr, rtc_line, rtc_interrupt, rate, asked, fresh>>

\* Ready(q): q is requested, unmasked and not held off by one in service.
Ready(q) ==
  /\ q \in irr /\ q \notin masked
  /\ IF q = KEY THEN KEY \notin isr
                ELSE isr = {} /\ CASCADE \notin masked

\* The CPU takes an interrupt, through a gate that clears IF unless it is a
\* trap gate; the keyboard goes before the slave.
Deliver(q) ==
  /\ IF_flag = 1 /\ Len(frames) < MaxNest
  /\ Ready(q) /\ (q = RTC => ~Ready(KEY))
  /\ idt[Vector(q)].present = 1
  /\ irr' = irr \ {q}
  /\ isr' = isr \cup (IF q = RTC THEN {CASCADE, RTC} ELSE {KEY})
  /\ frames' = Append(frames, [who |-> idt[Vector(q)].handler, at |-> "start"])
  /\ IF_flag' = IF idt[Vector(q)].type = "trap" THEN 1 ELSE 0
  /\ UNCHANGED <<pc, masked, devices, rtc_interrupt, rate, asked, fresh>>

\* The mask registers without and with the bit of q.
enable_irq(mask, q) == mask \ {q}
disable_irq(mask, q) == mask \cup {q}

\* send_eoi: the non-specific EOI of each 8259 ends what has the highest
\* priority there.  EoiMasterOnly never tells the slave.
EoiMasterOnly(q) ==
  isr' = IF KEY \in isr THEN isr \ {KEY} ELSE isr \ {CASCADE}
send_eoi(q) ==
  isr' = (IF KEY \in isr THEN isr \ {KEY} ELSE isr \ {CASCADE})
           \ (IF q >= 8 THEN {RTC} ELSE {})

-----------------------------------------------------------------------------
(* The handlers. *)

Top == frames[Len(frames)]
At(who, where) == frames # <<>> /\ Top = [who |-> who, at |-> where]
GotoIn(where) == frames' = [frames EXCEPT ![Len(frames)].at = where]

\* rtc_handler; HandlerNoAck leaves out the read of register C.
HandlerNoAck ==
  /\ At("rtc", "start")
  /\ rtc_interrupt' = 1 /\ fresh' = TRUE
  /\ GotoIn("eoi")
  /\ UNCHANGED <<IF_flag, pc, pic, devices, rate, asked>>
rtc_handler ==
  /\ At("rtc", "start")
  /\ rtc_interrupt' = 1 /\ fresh' = TRUE
  /\ rtc_line' = FALSE
  /\ GotoIn("eoi")
  /\ UNCHANGED <<IF_flag, pc, pic, keys, rate, asked>>

\* key_handler up to its first EOI: mode keys and releases have one of their
\* own, followed by sti.
key_handler ==
  /\ At("key", "start")
  /\ keys' = keys - 1
  /\ irr' = IF keys > 1 THEN irr \cup {KEY} ELSE irr
  /\ \E where \in {"eoi", "mode"} : GotoIn(where)
  /\ UNCHANGED <<IF_flag, pc, masked, isr, rtc_line, rtc_interrupt, rate, asked, fresh>>

\* ModeStiFirst enables interrupts before the EOI.
ModeStiFirst ==
  /\ At("key", "mode")
  /\ IF_flag' = 1
  /\ GotoIn("eoi")
  /\ UNCHANGED <<pc, pic, devices, rtc_interrupt, rate, asked, fresh>>
ModeEoi ==
  /\ At("key", "mode")
  /\ send_eoi(KEY) /\ IF_flag' = 1
  /\ GotoIn("eoi")
  /\ UNCHANGED <<pc, masked, irr, devices, rtc_interrupt, rate, asked, fresh>>

\* The EOI at the end of either handler, and the sti after it.
LastEoi ==
  /\ \/ At("rtc", "eoi") /\ send_eoi(RTC)
     \/ At("key", "eoi") /\ send_eoi(KEY)
  /\ IF_flag' = 1
  /\ GotoIn("done")
  /\ UNCHANGED <<pc, masked, irr, devices, rtc_interrupt, rate, asked, fresh>>

\* popf and iret: IF becomes what it was where the interrupt came: set.
Iret ==
  /\ frames # <<>> /\ Top.at = "done"
  /\ frames' = SubSeq(frames, 1, Len(frames) - 1)
  /\ IF_flag' = 1
  /\ UNCHANGED <<pc, pic, devices, rtc_interrupt, rate, asked, fresh>>

Handlers == rtc_handler \/ key_handler \/ ModeEoi \/ LastEoi \/ Iret

-----------------------------------------------------------------------------
(* The program: it runs when no handler does. *)

Program(from, to) == frames = <<>> /\ pc = from /\ pc' = to

\* terminal_open, which unmasks the keyboard, and rtc_open.
terminal_open ==
  /\ Program("user", "user")
  /\ masked' = enable_irq(masked, KEY)
  /\ UNCHANGED <<IF_flag, frames, irr, isr, devices, rtc_interrupt, rate, asked, fresh>>

rtc_open ==
  /\ Program("user", "user")
  /\ masked' = enable_irq(enable_irq(masked, CASCADE), RTC)
  /\ rate' = 15 /\ asked' = 2
  /\ rtc_interrupt' = 0 /\ fresh' = FALSE
  /\ UNCHANGED <<IF_flag, frames, irr, isr, devices>>

\* rtc_write: the test for a power of two lets 0 through, the bounds on its
\* logarithm do not.
Log2(b) == IF b = 0 THEN 0 ELSE CHOOSE k \in 0..7 : 2^k <= b /\ b < 2^(k + 1)
Acceptable(b) ==
  /\ b = 0 \/ b = 2^Log2(b)
  /\ Log2(b) \in 2..10
RateFor(b) == (16 - Log2(b)) % 16

rtc_write(b) ==
  /\ Program("user", "user") /\ RTC \notin masked
  /\ IF Acceptable(b) THEN rate' = RateFor(b) /\ asked' = b
                      ELSE UNCHANGED <<rate, asked>>
  /\ UNCHANGED <<IF_flag, frames, pic, devices, rtc_interrupt, fresh>>

\* terminal_write, which prints between cli and sti; StiForgotten leaves the
\* latter out.
Cli ==
  /\ Program("user", "cli")
  /\ IF_flag' = 0
  /\ UNCHANGED <<frames, pic, devices, rtc_interrupt, rate, asked, fresh>>
StiForgotten ==
  /\ Program("cli", "user")
  /\ UNCHANGED <<IF_flag, frames, pic, devices, rtc_interrupt, rate, asked, fresh>>
Sti ==
  /\ Program("cli", "user")
  /\ IF_flag' = 1
  /\ UNCHANGED <<frames, pic, devices, rtc_interrupt, rate, asked, fresh>>

\* rtc_read: cli at the head of the loop; then the flag is taken, and the
\* system call returns with IF clear until its iret, or sti and once more.
ReadEnter ==
  /\ Program("user", "loop") /\ RTC \notin masked
  /\ UNCHANGED <<IF_flag, frames, pic, devices, rtc_interrupt, rate, asked, fresh>>
ReadCli ==
  /\ Program("loop", "test")
  /\ IF_flag' = 0
  /\ UNCHANGED <<frames, pic, devices, rtc_interrupt, rate, asked, fresh>>
ReadSpin ==
  /\ Program("test", "loop")
  /\ rtc_interrupt = 0
  /\ IF_flag' = 1
  /\ UNCHANGED <<frames, pic, devices, rtc_interrupt, rate, asked, fresh>>
\* ReadKeepsFlag forgets to reset the flag.
ReadKeepsFlag ==
  /\ Program("test", "return")
  /\ rtc_interrupt = 1
  /\ fresh' = FALSE
  /\ UNCHANGED <<IF_flag, frames, pic, devices, rtc_interrupt, rate, asked>>
ReadTake ==
  /\ Program("test", "return")
  /\ rtc_interrupt = 1
  /\ rtc_interrupt' = 0 /\ fresh' = FALSE
  /\ UNCHANGED <<IF_flag, frames, pic, devices, rate, asked>>
ReadReturn ==
  /\ Program("return", "user")
  /\ IF_flag' = 1
  /\ UNCHANGED <<frames, pic, devices, rtc_interrupt, rate, asked, fresh>>

rtc_read == ReadCli \/ ReadSpin \/ ReadTake \/ ReadReturn

-----------------------------------------------------------------------------
\* The state in which entry() has executed sti.
Init ==
  /\ IF_flag = 1 /\ frames = <<>> /\ pc = "user"
  /\ masked = disable_irq(disable_irq(disable_irq({}, KEY), CASCADE), RTC)
  /\ irr = {} /\ isr = {}
  /\ rtc_line = FALSE /\ keys = 0
  /\ rtc_interrupt = 0 /\ rate = 6 /\ asked = 1024
  /\ fresh = FALSE

Take == Deliver(KEY) \/ Deliver(RTC)

Next ==
  \/ Tick \/ KeyEvent
  \/ Take
  \/ Handlers
  \/ terminal_open \/ rtc_open \/ \E b \in RateByte : rtc_write(b)
  \/ Cli \/ Sti
  \/ ReadEnter \/ rtc_read

Spec == Init /\ [][Next]_vars

\* The RTC keeps ticking; the CPU goes on with the handler or the masked
\* section it executes; it takes an interrupt that is offered time and again;
\* and interrupts, at most 1024 a second, leave time for the program's read.
FairSpec ==
  /\ Spec
  /\ WF_vars(Tick) /\ WF_vars(Handlers) /\ WF_vars(Sti)
  /\ SF_vars(Deliver(RTC)) /\ SF_vars(rtc_read)

-----------------------------------------------------------------------------
(***************************************************************************)
(* Properties.                                                             *)
(***************************************************************************)

\* Although handlers nest and key_handler sends two EOIs for a mode key,
\* whatever is in service belongs to the handler that runs, with interrupts
\* off: no EOI ends the interrupt of another device.
InServiceIsRunning ==
  isr # {} =>
    /\ IF_flag = 0 /\ frames # <<>>
    /\ isr = IF Top.who = "rtc" THEN {CASCADE, RTC} ELSE {KEY}

\* No edge is lost: while a device waits for attention its request is
\* pending or its handler has just been entered.
NothingLost ==
  /\ rtc_line => RTC \in irr \/ At("rtc", "start")
  /\ keys > 0 => KEY \in irr \/ At("key", "start")

\* rtc_interrupt is set only by a tick that no rtc_read has taken and that
\* came after the last rtc_open: one tick releases at most one read.  And the
\* divider in register A is that of the frequency last
\* asked for, which rtc_write computes as an exponent.
RtcAsAsked ==
  /\ rtc_interrupt = 1 => fresh
  /\ 2^(16 - rate) = asked

\* Interrupts never stay off: not after a masked section, not after a
\* handler, and not after rtc_read, which returns between cli and sti.
InterruptsComeBack == (IF_flag = 0) ~> (IF_flag = 1)

\* A read of the RTC returns, although its flag can be set only between sti
\* and cli, provided that the keyboard, which goes first, leaves the CPU some
\* time with interrupts on and no key waiting.
ReadReturns ==
  []<>(KEY \notin irr /\ IF_flag = 1 /\ frames = <<>>)
    => ((pc = "loop") ~> (pc = "return"))
=============================================================================
