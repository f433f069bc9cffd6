-------------------------- MODULE InterruptsProofs --------------------------
(***************************************************************************)
(* Proofs about Interrupts for every depth of nesting, every number of     *)
(* waiting scancodes and every byte passed to rtc_write.                   *)
(***************************************************************************)
EXTENDS Interrupts, SequenceTheorems, TLAPS

-----------------------------------------------------------------------------
(* The two entries of the interrupt descriptor table that the devices use. *)

LEMMA Vectors == Vector(RTC) = 40 /\ Vector(KEY) = 33
BY DEF Vector, RTC, KEY

\* The calls without a function that follow do not undo the linked handlers.
LEMMA Handlers40And33 ==
  /\ idt[Vector(RTC)] = Gate("rtc", 0, "interrupt")
  /\ idt[Vector(KEY)] = Gate("key", 0, "interrupt")
<1>1. /\ 40 \notin Exceptions /\ 33 \notin Exceptions /\ 40 # 128 /\ 33 # 128 /\ 33 # 40
      /\ 40 \in 0..255 /\ 33 \in 0..255
  BY DEF Exceptions
<1>2. Gate("rtc", 0, "interrupt").present # 0 /\ Gate("key", 0, "interrupt").present # 0
  BY DEF Gate
<1>3. Linked[40] = Gate("rtc", 0, "interrupt") /\ Linked[33] = Gate("key", 0, "interrupt")
  <2>1. /\ set_idt_entry(NoGate, 40, "rtc") = Gate("rtc", 0, "interrupt")
        /\ set_idt_entry(NoGate, 33, "key") = Gate("key", 0, "interrupt")
    BY Zenon DEF set_idt_entry
  <2>2. /\ Linked[40] = set_idt_entry(NoGate, 40, "rtc")
        /\ Linked[33] = set_idt_entry(NoGate, 33, "key")
    BY <1>1, Vectors DEF Linked
  <2> QED
    BY <2>1, <2>2
<1>4. set_idt_entry(Gate("rtc", 0, "interrupt"), 40, "none") = Gate("rtc", 0, "interrupt")
  BY <1>1, <1>2, Zenon DEF set_idt_entry, SYS_CALL_NUM
<1>5. set_idt_entry(Gate("key", 0, "interrupt"), 33, "none") = Gate("key", 0, "interrupt")
  BY <1>1, <1>2, Zenon DEF set_idt_entry, SYS_CALL_NUM
<1>6. /\ idt[40] = set_idt_entry(Linked[40], 40, "none")
      /\ idt[33] = set_idt_entry(Linked[33], 33, "none")
  BY <1>1 DEF idt
<1> QED
  BY <1>3, <1>4, <1>5, <1>6, Vectors

\* What taking an interrupt does.
LEMMA Delivered ==
  ASSUME NEW q \in {KEY, RTC}, Deliver(q)
  PROVE  /\ IF_flag = 1 /\ IF_flag' = 0 /\ q \in irr /\ irr' = irr \ {q}
         /\ frames' = Append(frames, [who |-> IF q = RTC THEN "rtc" ELSE "key",
                                      at |-> "start"])
         /\ isr' = isr \cup (IF q = RTC THEN {CASCADE, RTC} ELSE {KEY})
<1>1. KEY # RTC
  BY DEF KEY, RTC
<1> QED
  BY <1>1, Handlers40And33 DEF Deliver, Ready, Gate

-----------------------------------------------------------------------------
(***************************************************************************)
(* The inductive invariant.  Service relates the running handler's place   *)
(* to IF and the in-service bits: they are its own up to its first EOI,    *)
(* and nobody's, with interrupts on, from then on.  A handler below the    *)
(* top was interrupted, so it had already sent an EOI.                     *)
(***************************************************************************)
Frame == [who : {"rtc", "key"}, at : {"start", "mode", "eoi", "done"}]

Own(who) == IF who = "rtc" THEN {CASCADE, RTC} ELSE {KEY}

Interruptible(f) == f.at = "done" \/ (f.who = "key" /\ f.at = "eoi")

Types ==
  /\ IF_flag \in {0, 1} /\ keys \in Int /\ rtc_interrupt \in {0, 1}
  /\ frames \in Seq(Frame)

Service ==
  /\ frames = <<>> => isr = {}
  /\ frames # <<>> =>
       \/ IF_flag = 0 /\ isr = Own(Top.who) /\ Top.at # "done"
       \/ IF_flag = 1 /\ isr = {} /\ Interruptible(Top)
  /\ \A n \in 1..(Len(frames) - 1) : Interruptible(frames[n])

IInv == Types /\ Service /\ NothingLost

LEMMA InitIInv == Init => IInv
<1> SUFFICES ASSUME Init PROVE IInv
  OBVIOUS
<1>1. frames = <<>> /\ Len(frames) = 0 /\ frames \in Seq(Frame)
  BY EmptySeq DEF Init
<1>2. ~rtc_line /\ keys = 0 /\ isr = {} /\ IF_flag = 1 /\ rtc_interrupt = 0
  BY DEF Init
<1> QED
  BY <1>1, <1>2 DEF IInv, Types, Service, NothingLost

\* The last frame of a non-empty stack is one of its frames.
LEMMA TopFrame ==
  ASSUME Types, frames # <<>>
  PROVE  Len(frames) \in Nat \ {0} /\ Top \in Frame /\ DOMAIN frames = 1..Len(frames)
<1>1. Len(frames) \in Nat /\ Len(frames) # 0 /\ DOMAIN frames = 1..Len(frames)
  BY LenProperties, EmptySeq DEF Types
<1> QED
  BY <1>1, ElementOfSeq DEF Types, Top

\* Moving the running handler changes the last frame only.
LEMMA Moved ==
  ASSUME Types, frames # <<>>, NEW w \in {"start", "mode", "eoi", "done"}, GotoIn(w)
  PROVE  /\ frames' \in Seq(Frame) /\ frames' # <<>> /\ Len(frames') = Len(frames)
         /\ Top' = [who |-> Top.who, at |-> w]
         /\ \A n \in 1..(Len(frames) - 1) : frames'[n] = frames[n]
<1>1. Len(frames) \in Nat \ {0} /\ Top \in Frame /\ DOMAIN frames = 1..Len(frames)
  BY TopFrame
<1> DEFINE f == [who |-> Top.who, at |-> w]
<1>2. frames' = [frames EXCEPT ![Len(frames)] = f]
  <2>1. [Top EXCEPT !.at = w] = f
    BY <1>1 DEF Frame
  <2>2. frames' = [frames EXCEPT ![Len(frames)] = [Top EXCEPT !.at = w]]
    BY DEF GotoIn, Top
  <2> QED
    BY <2>1, <2>2
<1>3. f \in Frame
  BY <1>1 DEF Frame
<1>4. frames' \in Seq(Frame) /\ Len(frames') = Len(frames)
  BY <1>1, <1>2, <1>3, ExceptSeq DEF Types
<1>5. frames' # <<>>
  BY <1>1, <1>4, EmptySeq
<1>6. frames'[Len(frames)] = f /\ \A n \in 1..(Len(frames) - 1) : frames'[n] = frames[n]
  BY <1>1, <1>2, <1>3, ExceptSeq DEF Types
<1> QED
  BY <1>4, <1>5, <1>6 DEF Top

\* A handler that moves and keeps Service's relation keeps Service.
LEMMA MovedService ==
  ASSUME IInv, frames # <<>>, NEW w \in {"start", "mode", "eoi", "done"}, GotoIn(w),
         \/ IF_flag' = 0 /\ isr' = Own(Top.who) /\ w # "done"
         \/ IF_flag' = 1 /\ isr' = {} /\ Interruptible([who |-> Top.who, at |-> w])
  PROVE  Service'
BY Moved DEF IInv, Service, Own

-----------------------------------------------------------------------------
\* The non-specific EOI clears exactly what the handler that sends it has in
\* service, or finds nothing in service.
LEMMA EoiClears ==
  ASSUME NEW who \in {"rtc", "key"}, isr = Own(who) \/ isr = {},
         send_eoi(IF who = "rtc" THEN RTC ELSE KEY)
  PROVE  isr' = {}
<1>1. CASE who = "rtc"
  BY <1>1 DEF send_eoi, Own, KEY, CASCADE, RTC
<1>2. CASE who = "key"
  BY <1>2 DEF send_eoi, Own, KEY, CASCADE, RTC
<1> QED
  BY <1>1, <1>2

LEMMA RtcHandlerStep == ASSUME IInv, rtc_handler PROVE IInv'
<1>1. frames # <<>> /\ Top = [who |-> "rtc", at |-> "start"] /\ GotoIn("eoi")
      /\ UNCHANGED <<IF_flag, isr, irr, keys>> /\ rtc_interrupt' = 1
  BY DEF rtc_handler, At, pic
<1>2. Types'
  BY <1>1, Moved DEF IInv, Types
<1>3. Service'
  BY <1>1, MovedService DEF IInv, Service, Interruptible
<1>4. NothingLost'
  <2>1. ~rtc_line'
    BY DEF rtc_handler
  <2>2. keys > 0 => KEY \in irr
    BY <1>1 DEF IInv, NothingLost, At
  <2> QED
    BY <1>1, <2>1, <2>2 DEF NothingLost
<1> QED
  BY <1>2, <1>3, <1>4 DEF IInv

LEMMA KeyHandlerStep == ASSUME IInv, key_handler PROVE IInv'
<1>1. PICK w \in {"eoi", "mode"} : GotoIn(w)
  BY DEF key_handler
<1>2. frames # <<>> /\ Top = [who |-> "key", at |-> "start"] /\ keys' = keys - 1
      /\ irr' = (IF keys > 1 THEN irr \cup {KEY} ELSE irr)
      /\ UNCHANGED <<IF_flag, isr, rtc_line, rtc_interrupt>>
  BY DEF key_handler, At
<1>3. Types'
  BY <1>1, <1>2, Moved DEF IInv, Types
<1>4. Service'
  BY <1>1, <1>2, MovedService DEF IInv, Service, Interruptible
<1>5. NothingLost'
  <2>1. rtc_line => RTC \in irr
    BY <1>2 DEF IInv, NothingLost, At
  <2> QED
    BY <1>2, <2>1 DEF NothingLost, IInv, Types
<1> QED
  BY <1>3, <1>4, <1>5 DEF IInv

LEMMA EoiStep == ASSUME IInv, ModeEoi \/ LastEoi PROVE IInv'
<1>1. PICK w \in {"eoi", "done"} : GotoIn(w) /\ (ModeEoi => w = "eoi") /\ (LastEoi => w = "done")
  <2>1. CASE ModeEoi
    <3>1. ~LastEoi
      BY <2>1 DEF ModeEoi, LastEoi, At
    <3> QED
      BY <2>1, <3>1 DEF ModeEoi
  <2>2. CASE LastEoi
    <3>1. ~ModeEoi
      BY <2>2 DEF ModeEoi, LastEoi, At
    <3> QED
      BY <2>2, <3>1 DEF LastEoi
  <2> QED
    BY <2>1, <2>2
<1>2. /\ frames # <<>> /\ Top \in Frame /\ Top.at \in {"mode", "eoi"}
      /\ send_eoi(IF Top.who = "rtc" THEN RTC ELSE KEY)
      /\ IF_flag' = 1 /\ UNCHANGED <<irr, rtc_line, keys, rtc_interrupt>>
      /\ w = "eoi" => Top.who = "key"
  <2>1. CASE ModeEoi
    BY <1>1, <2>1 DEF ModeEoi, At, devices, Frame
  <2>2. CASE LastEoi
    BY <1>1, <2>2 DEF LastEoi, At, devices, Frame
  <2> QED
    BY <2>1, <2>2
<1>3. Top.who \in {"rtc", "key"} /\ (isr = Own(Top.who) \/ isr = {})
  BY <1>2 DEF Frame, IInv, Service
<1>4. isr' = {}
  BY <1>2, <1>3, EoiClears
<1>5. Types'
  BY <1>1, <1>2, Moved DEF IInv, Types
<1>6. Service'
  BY <1>1, <1>2, <1>4, MovedService DEF Interruptible
<1>7. NothingLost'
  <2>1. (rtc_line => RTC \in irr) /\ (keys > 0 => KEY \in irr)
    BY <1>2 DEF IInv, NothingLost, At
  <2> QED
    BY <1>2, <2>1 DEF NothingLost
<1> QED
  BY <1>5, <1>6, <1>7 DEF IInv

LEMMA IretStep == ASSUME IInv, Iret PROVE IInv'
<1> DEFINE m == Len(frames) - 1
<1>1. frames # <<>> /\ Top.at = "done" /\ frames' = SubSeq(frames, 1, m)
      /\ IF_flag' = 1 /\ UNCHANGED <<isr, irr, rtc_line, keys, rtc_interrupt>>
  BY DEF Iret, pic, devices
<1>2. Len(frames) \in Nat \ {0} /\ m \in Nat
  BY <1>1, TopFrame DEF IInv
<1>3. frames' \in Seq(Frame) /\ Len(frames') = m /\ \A n \in 1..m : frames'[n] = frames[n]
  <2>1. \A i \in 1..m : frames[i] \in Frame
    BY <1>2, ElementOfSeq DEF IInv, Types
  <2> HIDE DEF m
  <2>2. /\ SubSeq(frames, 1, m) \in Seq(Frame)
        /\ Len(SubSeq(frames, 1, m)) = IF 1 <= m THEN m - 1 + 1 ELSE 0
        /\ \A i \in 1..(m - 1 + 1) : SubSeq(frames, 1, m)[i] = frames[1 + i - 1]
    BY <1>2, <2>1, SubSeqProperties
  <2> QED
    BY <1>1, <1>2, <2>2
<1>4. isr = {}
  BY <1>1 DEF IInv, Service
<1>5. Types'
  BY <1>1, <1>3 DEF IInv, Types
<1>6. Service'
  <2>1. frames' # <<>> => m \in 1..m /\ Top' = frames[m]
    BY <1>2, <1>3, EmptySeq DEF Top
  <2>2. \A n \in 1..m : Interruptible(frames[n])
    BY DEF IInv, Service
  <2>3. frames' # <<>> => Interruptible(Top')
    BY <2>1, <2>2
  <2>4. \A n \in 1..(Len(frames') - 1) : Interruptible(frames'[n])
    BY <1>2, <1>3, <2>2
  <2> QED
    BY <1>1, <1>4, <2>3, <2>4 DEF Service, Interruptible
<1>7. NothingLost'
  <2>1. (rtc_line => RTC \in irr) /\ (keys > 0 => KEY \in irr)
    BY <1>1 DEF IInv, NothingLost, At
  <2> QED
    BY <1>1, <2>1 DEF NothingLost
<1> QED
  BY <1>5, <1>6, <1>7 DEF IInv

\* An interrupt is taken only with IF set, when nothing is in service.
LEMMA DeliverStep == ASSUME IInv, NEW q \in {KEY, RTC}, Deliver(q) PROVE IInv'
<1> DEFINE new == [who |-> IF q = RTC THEN "rtc" ELSE "key", at |-> "start"]
<1>1. /\ IF_flag = 1 /\ IF_flag' = 0 /\ irr' = irr \ {q}
      /\ frames' = Append(frames, new)
      /\ isr' = isr \cup (IF q = RTC THEN {CASCADE, RTC} ELSE {KEY})
      /\ UNCHANGED <<rtc_line, keys, rtc_interrupt>>
  BY Delivered DEF Deliver, devices
<1>2. isr = {}
  BY <1>1 DEF IInv, Service
<1>3. new \in Frame /\ frames \in Seq(Frame) /\ Len(frames) \in Nat
  BY LenProperties DEF Frame, IInv, Types
<1>4. /\ frames' \in Seq(Frame) /\ frames' # <<>> /\ Len(frames') = Len(frames) + 1
      /\ \A n \in 1..Len(frames) : frames'[n] = frames[n]
      /\ Top' = new
  BY <1>1, <1>3, AppendProperties DEF Top
<1>5. Types'
  BY <1>1, <1>4 DEF IInv, Types
<1>6. Service'
  <2>1. \A n \in 1..Len(frames) : Interruptible(frames[n])
    <3>1. Len(frames) > 0 => frames # <<>>
      BY EmptySeq
    <3>2. Len(frames) > 0 => Interruptible(frames[Len(frames)])
      BY <1>1, <3>1 DEF IInv, Service, Top
    <3>3. \A n \in 1..(Len(frames) - 1) : Interruptible(frames[n])
      BY DEF IInv, Service
    <3>4. \A n \in 1..Len(frames) : n = Len(frames) \/ n \in 1..(Len(frames) - 1)
      BY <1>3
    <3> QED
      BY <1>3, <3>2, <3>3, <3>4
  <2>2. \A n \in 1..(Len(frames') - 1) : Interruptible(frames'[n])
    BY <1>3, <1>4, <2>1
  <2>3. isr' = Own(Top'.who) /\ Top'.at # "done"
    BY <1>1, <1>2, <1>4 DEF Own
  <2> QED
    BY <1>1, <1>4, <2>2, <2>3 DEF Service, Own
<1>7. NothingLost'
  <2>1. ~At("rtc", "start") /\ ~At("key", "start")
    <3>1. frames # <<>> => Interruptible(Top)
      BY <1>1 DEF IInv, Service
    <3> QED
      BY <3>1 DEF At, Interruptible
  <2>2. (rtc_line => RTC \in irr) /\ (keys > 0 => KEY \in irr)
    BY <2>1 DEF IInv, NothingLost
  <2>3. KEY # RTC
    BY DEF KEY, RTC
  <2>4. (q = RTC => At("rtc", "start")') /\ (q = KEY => At("key", "start")')
    BY <1>4, <2>3 DEF At
  <2> QED
    BY <1>1, <2>2, <2>3, <2>4 DEF NothingLost
<1> QED
  BY <1>5, <1>6, <1>7 DEF IInv

\* The devices raise requests; the program runs without handlers.
LEMMA OtherStep ==
  ASSUME IInv,
         \/ Tick \/ KeyEvent
         \/ terminal_open \/ rtc_open \/ \E b \in RateByte : rtc_write(b)
         \/ Cli \/ Sti \/ ReadEnter \/ rtc_read
  PROVE  IInv'
<1>1. CASE Tick
  <2>1. frames' = frames /\ isr' = isr /\ IF_flag' = IF_flag /\ irr' = irr \cup {RTC}
        /\ UNCHANGED <<keys, rtc_interrupt>>
    BY <1>1 DEF Tick
  <2> QED
    BY <2>1 DEF IInv, Types, Service, NothingLost, Top, At
<1>2. CASE KeyEvent
  <2>1. frames' = frames /\ isr' = isr /\ IF_flag' = IF_flag /\ keys' = keys + 1
        /\ irr' = (IF keys = 0 THEN irr \cup {KEY} ELSE irr)
        /\ UNCHANGED <<rtc_line, rtc_interrupt>>
    BY <1>2 DEF KeyEvent
  <2>2. NothingLost'
    BY <2>1 DEF IInv, Types, NothingLost, Top, At
  <2> QED
    BY <2>1, <2>2 DEF IInv, Types, Service, Top
<1>3. ASSUME frames = <<>>, IF_flag' \in {0, 1}, rtc_interrupt' \in {0, 1},
             UNCHANGED <<frames, irr, isr, rtc_line, keys>>
      PROVE  IInv'
  <2>1. Len(frames) = 0 /\ isr = {}
    BY <1>3, EmptySeq DEF IInv, Service
  <2>2. NothingLost'
    BY <1>3 DEF IInv, NothingLost, At
  <2> QED
    BY <1>3, <2>1, <2>2 DEF IInv, Types, Service
<1>4. IF_flag \in {0, 1} /\ rtc_interrupt \in {0, 1}
  BY DEF IInv, Types
<1>5. CASE terminal_open \/ rtc_open
  BY <1>3, <1>4, <1>5 DEF terminal_open, rtc_open, Program, devices
<1>6. ASSUME NEW b \in RateByte, rtc_write(b) PROVE IInv'
  BY <1>3, <1>4, <1>6 DEF rtc_write, Program, pic, devices
<1>7. CASE Cli \/ Sti \/ ReadEnter \/ rtc_read
  BY <1>3, <1>4, <1>7
     DEF Cli, Sti, ReadEnter, rtc_read, ReadCli, ReadSpin, ReadTake, ReadReturn,
         Program, pic, devices
<1> QED
  BY <1>1, <1>2, <1>5, <1>6, <1>7

LEMMA NextIInv == IInv /\ [Next]_vars => IInv'
<1> SUFFICES ASSUME IInv, [Next]_vars PROVE IInv'
  OBVIOUS
<1>1. CASE UNCHANGED vars
  BY <1>1 DEF vars, pic, devices, IInv, Types, Service, NothingLost, Top, At
<1>2. CASE Take
  BY <1>2, DeliverStep DEF Take
<1>3. CASE Handlers
  BY <1>3, RtcHandlerStep, KeyHandlerStep, EoiStep, IretStep DEF Handlers
<1> QED
  BY <1>1, <1>2, <1>3, OtherStep DEF Next

THEOREM Invariance == Spec => []IInv
BY InitIInv, NextIInv, PTL DEF Spec

-----------------------------------------------------------------------------
(***************************************************************************)
(* Consequences.                                                           *)
(***************************************************************************)

\* However deep handlers nest, and although key_handler sends two EOIs for a
\* mode key, what is in service belongs to the handler that runs.
THEOREM ServiceCorrect == Spec => []InServiceIsRunning
<1>1. IInv => InServiceIsRunning
  BY DEF IInv, Service, InServiceIsRunning, Own
<1> QED
  BY <1>1, Invariance, PTL

\* No edge of a device is lost, whatever nests between it and its handler.
THEOREM EdgesCorrect == Spec => []NothingLost
<1>1. IInv => NothingLost
  BY DEF IInv
<1> QED
  BY <1>1, Invariance, PTL

\* A set flag is a tick that no read has taken, and the divider is that of
\* the frequency last asked for, whatever bytes are passed to rtc_write.
THEOREM RtcCorrect == Spec => []RtcAsAsked
<1>1. Init => RtcAsAsked
  <2>1. 2^(16 - 6) = 1024
    OBVIOUS
  <2> QED
    BY <2>1 DEF Init, RtcAsAsked
<1>2. RtcAsAsked /\ [Next]_vars => RtcAsAsked'
  <2> SUFFICES ASSUME RtcAsAsked, [Next]_vars PROVE RtcAsAsked'
    OBVIOUS
  <2>1. CASE rtc_handler
    <3>1. fresh' /\ UNCHANGED <<rate, asked>>
      BY <2>1 DEF rtc_handler
    <3> QED
      BY <3>1 DEF RtcAsAsked
  <2>2. CASE rtc_open
    <3>1. 2^(16 - 15) = 2
      OBVIOUS
    <3> QED
      BY <2>2, <3>1 DEF rtc_open, RtcAsAsked
  <2>3. ASSUME NEW b \in RateByte, rtc_write(b) PROVE RtcAsAsked'
    <3>1. CASE Acceptable(b)
      <4>1. b \in Int /\ Log2(b) \in 2..10
        BY <3>1, ByteAssumption DEF Acceptable
      <4>2. b # 0
        <5>1. b = 0 => Log2(b) = 0
          BY DEF Log2
        <5> QED
          BY <4>1, <5>1
      <4>3. b = 2^Log2(b)
        BY <3>1, <4>2 DEF Acceptable
      <4>4. 16 - RateFor(b) = Log2(b)
        BY <4>1 DEF RateFor
      <4>5. rate' = RateFor(b) /\ asked' = b /\ UNCHANGED <<rtc_interrupt, fresh>>
        BY <2>3, <3>1 DEF rtc_write
      <4>6. 2^(16 - rate') = asked'
        BY <4>3, <4>4, <4>5
      <4> QED
        BY <4>5, <4>6 DEF RtcAsAsked
    <3>2. CASE ~Acceptable(b)
      BY <2>3, <3>2 DEF rtc_write, RtcAsAsked
    <3> QED
      BY <3>1, <3>2
  <2>4. CASE ReadTake
    BY <2>4 DEF ReadTake, RtcAsAsked
  <2>5. ASSUME UNCHANGED <<rtc_interrupt, rate, asked, fresh>> PROVE RtcAsAsked'
    BY <2>5 DEF RtcAsAsked
  <2>6. CASE UNCHANGED vars
    BY <2>5, <2>6 DEF vars
  <2>7. CASE Tick \/ KeyEvent \/ Take
    BY <2>5, <2>7 DEF Tick, KeyEvent, Take, Deliver
  <2>8. CASE key_handler \/ ModeEoi \/ LastEoi \/ Iret
    BY <2>5, <2>8 DEF key_handler, ModeEoi, LastEoi, Iret
  <2>9. CASE terminal_open \/ Cli \/ Sti \/ ReadEnter \/ ReadCli \/ ReadSpin \/ ReadReturn
    BY <2>5, <2>9 DEF terminal_open, Cli, Sti, ReadEnter, ReadCli, ReadSpin, ReadReturn
  <2> QED
    BY <2>1, <2>2, <2>3, <2>4, <2>6, <2>7, <2>8, <2>9 DEF Next, Handlers, rtc_read
<1> QED
  BY <1>1, <1>2, PTL DEF Spec
=============================================================================
