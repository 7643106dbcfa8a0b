---------------------------- MODULE NestedProofs -----------------------------
(***************************************************************************)
(* Proofs about the nested interrupts, for transfers of any length and any *)
(* number of edges on the pin.                                             *)
(*                                                                         *)
(* The inductive invariant has two halves.  Control says what the frames   *)
(* have saved and what the core's registers hold, and is kept by the entry *)
(* and exit code alone, whatever the callbacks do.  Sources says why the   *)
(* handlers do not interrupt themselves without end, and needs Control     *)
(* only to know that a handler is not interrupted before it acknowledges.  *)
(***************************************************************************)
EXTENDS NestedInterrupts, FiniteSetTheorems, TLAPS

------------------------------------------------------------------------------
(***************************************************************************)
(* The inductive invariant.                                                *)
(***************************************************************************)
\* Where interrupts are disabled.
Masked == {"ack", "clear", "saveMepc", "saveMstatus", "enable",
           "restoreMstatus", "restoreMepc", "mret"}

\* Inside SetPin, and where it may return to.
PinPc == {"oeRead", "oeWrite", "outRead", "outWrite"}
PinNext == {"sleep", "disable", "wait", "address", "matching"}
MainPc == {"gpioOn", "timerOn", "wait", "sleep"} \cup PinPc
Label == Masked \cup PinNext \cup MainPc \cup
         {"body", "acknowledge", "inte", "oe", "out", "transmit", "called", "txCplt", "receive", "rxCplt"}

FrameSet == [h : Handler \cup {"main"}, pc : Label, pin : Pin, next : Label, reg : SUBSET Pin,
             mepc : Nat, mstatus : Status]

\* What an interrupt leaves in mstatus.
Trapped == [MIE |-> FALSE, MPIE |-> TRUE]

\* A frame keeps to the code of its function.
FrameOK(f) ==
  /\ f.pc \in PinPc => f.next \in PinNext
  /\ f.h = "main" => f.pc \in MainPc /\ (f.pc \in PinPc => f.next = "sleep")

\* What the frame numbered d has saved.
Saved(f, d) ==
  /\ f.mepc < d
  /\ d > 1 /\ f.pc \notin {"ack", "clear", "saveMepc"} => f.mepc = d - 1
  /\ d > 1 /\ f.pc \notin {"ack", "clear", "saveMepc", "saveMstatus"} => f.mstatus = Trapped

\* What the core's registers hold while the frame on top, numbered d, runs.
Registers(f, d, epc, status) ==
  /\ epc \in Nat /\ status \in Status
  /\ f.pc \in {"ack", "clear", "saveMepc", "mret"} => epc = d - 1
  /\ f.pc \in {"ack", "clear", "saveMepc", "saveMstatus", "restoreMepc", "mret"} => status = Trapped
  /\ status.MIE = (f.pc \notin Masked)

Control ==
  /\ stack \in Seq(FrameSet) /\ Len(stack) > 0
  /\ \A d \in 1 .. Len(stack) :
       /\ (stack[d].h = "main") = (d = 1)
       /\ FrameOK(stack[d]) /\ Saved(stack[d], d)
       /\ d < Len(stack) => stack[d].pc \notin Masked
  /\ Registers(stack[Len(stack)], Len(stack), mepc, mstatus)

\* The devices' registers, and the variables of the program.
Values ==
  /\ timer \in [CNT_EN : BOOLEAN, ENA_INT : BOOLEAN, flag : BOOLEAN]
  /\ slow \in BOOLEAN /\ INTS \in BOOLEAN /\ INTE \in BOOLEAN /\ edges \in 0 .. MaxEdges
  /\ OE \subseteq Pin /\ OUT \subseteq Pin
  /\ i2c \in Master /\ eeprom \in Eeprom
  /\ ints \in BOOLEAN
  /\ g_ack \in [timer : BOOLEAN, gpio : BOOLEAN, i2c_tx : BOOLEAN, i2c_rx : BOOLEAN]

\* No device is on before main has switched the pin's interrupt on.
Quiet ==
  stack[1].pc = "gpioOn" =>
    /\ Len(stack) = 1 /\ ~INTE /\ ~INTS /\ ~timer.ENA_INT
    /\ ~i2c.busy /\ ~i2c.flag

\* The timer's interrupt is off from the acknowledge to the end of its handler.
TimerOnce ==
  \A d \in FramesOf("timer") :
    /\ \A e \in FramesOf("timer") : e = d
    /\ (d = Len(stack) /\ stack[d].pc = "ack") \/ ~timer.ENA_INT

\* A frame of the GPIO handler, or a pending interrupt that has none yet, for
\* each edge.
Unserved == INTS /\ ~(Top.h = "gpio" /\ Top.pc \in {"ack", "clear"})
GpioPerEdge ==
  /\ IsFiniteSet(FramesOf("gpio"))
  /\ Cardinality(FramesOf("gpio")) + (IF Unserved THEN 1 ELSE 0) <= edges

\* The I2C master is used only after the GPIO callback has acknowledged and has
\* switched the pin's interrupt off.
GpioFirst ==
  /\ \A d \in FramesOf("gpio") :
       /\ stack[d].pc = "inte" => g_ack.gpio
       /\ stack[d].pc \in {"oe", "out", "transmit", "called"} => ~INTE /\ g_ack.gpio
  /\ i2c.busy \/ i2c.flag \/ FramesOf("i2c") # {} => ~INTE /\ g_ack.gpio

\* With slow bytes no edge is left when the first byte ends, so that the GPIO
\* handler does not interrupt the I2C handler and wait on top of it.
I2cOnce ==
  slow =>
    /\ i2c.flag \/ FramesOf("i2c") # {} => ~INTS
    /\ \A d \in FramesOf("i2c") :
         /\ \A e \in FramesOf("i2c") : e = d
         /\ \A e \in FramesOf("gpio") : e < d
         /\ (d = Len(stack) /\ stack[d].pc = "ack") \/ ~i2c.flag

Sources == Quiet /\ TimerOnce /\ GpioPerEdge /\ GpioFirst /\ I2cOnce

Inv == Control /\ Values /\ Sources

------------------------------------------------------------------------------
(***************************************************************************)
(* Steps of the frame on top.                                              *)
(***************************************************************************)

\* The frame on top is a frame; the one below exists if a handler is on top.
LEMMA TopFrame ==
  ASSUME Control
  PROVE  /\ Depth \in 1 .. Len(stack) /\ Depth = Len(stack) /\ Len(stack) \in Nat /\ Top \in FrameSet
         /\ Top = stack[Len(stack)] /\ FrameOK(Top) /\ Saved(Top, Depth)
         /\ Registers(Top, Depth, mepc, mstatus)
         /\ (Top.h = "main") = (Depth = 1)
         /\ Top.pc \in Masked \cup {"disable"} => Depth > 1
<1>1. Depth = Len(stack) /\ Top = stack[Len(stack)] BY DEF Depth, Top
<1>2. Len(stack) \in Nat /\ Len(stack) \in 1 .. Len(stack) /\ Top \in FrameSet
  BY <1>1 DEF Control
<1>3. /\ FrameOK(Top) /\ Saved(Top, Depth) /\ Registers(Top, Depth, mepc, mstatus)
      /\ (Top.h = "main") = (Depth = 1)
  BY <1>1, <1>2 DEF Control
<1>4. Top.pc \in Masked \cup {"disable"} => Depth > 1
  BY <1>1, <1>2, <1>3 DEF FrameOK, MainPc, PinPc, Masked
<1> QED BY <1>1, <1>2, <1>3, <1>4

\* Only the frame on top changes.
LEMMA Replace ==
  ASSUME Control, NEW f \in FrameSet, stack' = [stack EXCEPT ![Depth] = f]
  PROVE  /\ stack' \in Seq(FrameSet) /\ Len(stack') = Len(stack)
         /\ stack'[Len(stack)] = f
         /\ \A d \in 1 .. Len(stack) : d # Len(stack) => stack'[d] = stack[d]
BY DEF Control, Depth

\* The handlers on the stack stay the same when the frame on top keeps its handler.
LEMMA SameFrames ==
  ASSUME Control, NEW f \in FrameSet, stack' = [stack EXCEPT ![Depth] = f], f.h = Top.h
  PROVE  /\ \A h : FramesOf(h)' = FramesOf(h)
         /\ Depth' = Depth /\ Top' = f
<1>1. /\ stack' \in Seq(FrameSet) /\ Len(stack') = Len(stack)
      /\ stack'[Len(stack)] = f
      /\ \A d \in 1 .. Len(stack) : d # Len(stack) => stack'[d] = stack[d]
  BY Replace
<1>2. Top = stack[Len(stack)] BY TopFrame
<1>3. \A d \in 1 .. Len(stack) : stack'[d].h = stack[d].h BY <1>1, <1>2
<1>4. Depth' = Depth /\ Top' = f BY <1>1 DEF Depth, Top
<1> QED BY <1>1, <1>3, <1>4 DEF FramesOf, Depth

\* Goto and SetPin replace the frame on top.
LEMMA GotoReplaces ==
  ASSUME Control, NEW pc \in Label, Goto(pc)
  PROVE  LET f == [Top EXCEPT !.pc = pc] IN
         /\ stack' = [stack EXCEPT ![Depth] = f] /\ f \in FrameSet
         /\ f.h = Top.h /\ f.pc = pc /\ f.next = Top.next
         /\ f.mepc = Top.mepc /\ f.mstatus = Top.mstatus
<1> DEFINE f == [Top EXCEPT !.pc = pc]
<1>1. Top \in FrameSet /\ Top = stack[Depth] BY TopFrame DEF Top
<1>2. /\ f \in FrameSet /\ f.h = Top.h /\ f.pc = pc /\ f.next = Top.next
      /\ f.mepc = Top.mepc /\ f.mstatus = Top.mstatus
  BY <1>1 DEF FrameSet
<1>3. stack' = [stack EXCEPT ![Depth] = f] BY <1>1 DEF Goto
<1> QED BY <1>2, <1>3

\* A call of gpio_set_pin changes the top frame only: where it is, the pin, and where to go on.
LEMMA SetPinReplaces ==
  ASSUME Control, NEW pin \in Pin, NEW next \in Label, SetPin(pin, next)
  PROVE  LET f == [Top EXCEPT !.pc = "oeRead", !.pin = pin, !.next = next] IN
         /\ stack' = [stack EXCEPT ![Depth] = f] /\ f \in FrameSet
         /\ f.h = Top.h /\ f.pc = "oeRead" /\ f.next = next
         /\ f.mepc = Top.mepc /\ f.mstatus = Top.mstatus
<1> DEFINE f == [Top EXCEPT !.pc = "oeRead", !.pin = pin, !.next = next]
<1>1. Top \in FrameSet /\ Top = stack[Depth] BY TopFrame DEF Top
<1>2. /\ f \in FrameSet /\ f.h = Top.h /\ f.pc = "oeRead" /\ f.next = next
      /\ f.mepc = Top.mepc /\ f.mstatus = Top.mstatus
  <2>1. "oeRead" \in Label BY DEF Label, MainPc, PinPc
  <2> QED BY <1>1, <2>1 DEF FrameSet
<1>3. stack' = [stack EXCEPT ![Depth] = f] BY <1>1 DEF SetPin
<1> QED BY <1>2, <1>3

\* A new frame on top that has saved what its program counter says keeps Control.
LEMMA TopControl ==
  ASSUME Control, NEW f \in FrameSet, stack' = [stack EXCEPT ![Depth] = f], f.h = Top.h,
         FrameOK(f), Saved(f, Depth), Registers(f, Depth, mepc', mstatus')
  PROVE  Control'
<1>1. /\ stack' \in Seq(FrameSet) /\ Len(stack') = Len(stack)
      /\ stack'[Len(stack)] = f
      /\ \A d \in 1 .. Len(stack) : d # Len(stack) => stack'[d] = stack[d]
  BY Replace
<1>2. Top = stack[Len(stack)] /\ Depth = Len(stack) /\ Len(stack) \in Nat /\ (Top.h = "main") = (Depth = 1)
  BY TopFrame
<1>3. ASSUME NEW d \in 1 .. Len(stack')
      PROVE  /\ (stack'[d].h = "main") = (d = 1)
             /\ FrameOK(stack'[d]) /\ Saved(stack'[d], d)
             /\ d < Len(stack') => stack'[d].pc \notin Masked
  <2>1. CASE d = Len(stack) BY <2>1, <1>1, <1>2
  <2>2. CASE d # Len(stack) BY <2>2, <1>1, <1>2 DEF Control
  <2> QED BY <2>1, <2>2
<1>4. Len(stack') > 0 BY <1>1 DEF Control
<1> QED BY <1>1, <1>2, <1>3, <1>4 DEF Control

\* The callbacks, main and SetPin run with interrupts enabled and leave the
\* core's registers and what the frame saved alone.
LEMMA BodyControl ==
  ASSUME Control, NEW f \in FrameSet, stack' = [stack EXCEPT ![Depth] = f], f.h = Top.h,
         Top.pc \notin Masked, f.pc \notin Masked, f.mepc = Top.mepc, f.mstatus = Top.mstatus,
         FrameOK(f), UNCHANGED coreVars
  PROVE  Control'
<1>1. Saved(Top, Depth) /\ Registers(Top, Depth, mepc, mstatus) BY TopFrame
<1>2. Saved(f, Depth) BY <1>1 DEF Saved, Masked
<1>3. Registers(f, Depth, mepc', mstatus') BY <1>1 DEF Registers, Masked, coreVars
<1> QED BY <1>2, <1>3, TopControl

\* The frame on top moves to pc, and the stack is otherwise as it was.
Moved(pc) ==
  /\ \A h \in Handler : FramesOf(h)' = FramesOf(h)
  /\ Len(stack') = Len(stack)
  /\ stack'[Len(stack)].pc = pc /\ stack'[Len(stack)].h = Top.h
  /\ \A d \in 1 .. Len(stack) : d # Len(stack) => stack'[d] = stack[d]

\* A new top frame of the same handler is a move of that handler.
LEMMA ReplaceMoves ==
  ASSUME Control, NEW f \in FrameSet, stack' = [stack EXCEPT ![Depth] = f], f.h = Top.h
  PROVE  Moved(f.pc)
BY Replace, SameFrames DEF Moved

\* A jump in main or in a callback.
LEMMA GotoControl ==
  ASSUME Control, NEW pc \in Label \ (Masked \cup PinPc), Goto(pc), Top.pc \notin Masked,
         Top.h = "main" => pc \in MainPc, UNCHANGED coreVars
  PROVE  Control' /\ Moved(pc)
<1> DEFINE f == [Top EXCEPT !.pc = pc]
<1>1. /\ stack' = [stack EXCEPT ![Depth] = f] /\ f \in FrameSet
      /\ f.h = Top.h /\ f.pc = pc /\ f.mepc = Top.mepc /\ f.mstatus = Top.mstatus
  BY GotoReplaces
<1> HIDE DEF f
<1>2. FrameOK(f) BY <1>1 DEF FrameOK
<1> QED BY <1>1, <1>2, BodyControl, ReplaceMoves

\* A call of the code that sets a pin.
LEMMA SetPinControl ==
  ASSUME Control, NEW pin \in Pin, NEW next \in PinNext, SetPin(pin, next), Top.pc \notin Masked,
         Top.h = "main" => next = "sleep"
  PROVE  Control' /\ Moved("oeRead")
<1> DEFINE f == [Top EXCEPT !.pc = "oeRead", !.pin = pin, !.next = next]
<1>1. /\ stack' = [stack EXCEPT ![Depth] = f] /\ f \in FrameSet
      /\ f.h = Top.h /\ f.pc = "oeRead" /\ f.next = next
      /\ f.mepc = Top.mepc /\ f.mstatus = Top.mstatus
  <2>1. next \in Label BY DEF Label
  <2> QED BY <2>1, SetPinReplaces
<1> HIDE DEF f
<1>2. FrameOK(f) BY <1>1 DEF FrameOK, MainPc, PinPc
<1>3. UNCHANGED coreVars BY DEF SetPin, coreVars
<1>4. f.pc \notin Masked BY <1>1 DEF Masked
<1> QED BY <1>1, <1>2, <1>3, <1>4, BodyControl, ReplaceMoves

\* A step of the entry or exit code keeps Control if the frame and the registers
\* agree after it.
LEMMA EntryControl ==
  ASSUME Control, NEW pc \in Label \ PinPc, Goto(pc), Top.h # "main",
         Saved([Top EXCEPT !.pc = pc], Depth),
         Registers([Top EXCEPT !.pc = pc], Depth, mepc', mstatus')
  PROVE  Control' /\ Moved(pc)
<1> DEFINE f == [Top EXCEPT !.pc = pc]
<1>1. /\ stack' = [stack EXCEPT ![Depth] = f] /\ f \in FrameSet
      /\ f.h = Top.h /\ f.pc = pc /\ f.mepc = Top.mepc /\ f.mstatus = Top.mstatus
  BY GotoReplaces
<1> HIDE DEF f
<1>2. FrameOK(f) BY <1>1 DEF FrameOK
<1>3. Saved(f, Depth) /\ Registers(f, Depth, mepc', mstatus') BY DEF f
<1> QED BY <1>1, <1>2, <1>3, TopControl, ReplaceMoves

------------------------------------------------------------------------------
(***************************************************************************)
(* Every instruction keeps Control.  The same steps say where the frame on *)
(* top goes, for the argument about the devices.                           *)
(***************************************************************************)

\* The instructions of SetPin return to where it was called from.
LEMMA PinControl ==
  ASSUME Control, Values, PinStep
  PROVE  Control' /\ \E pc \in PinPc \cup PinNext : Moved(pc)
<1>1. Top \in FrameSet /\ Top = stack[Depth] /\ FrameOK(Top) BY TopFrame DEF Top
<1>2. UNCHANGED coreVars BY DEF PinStep
<1>3. ASSUME NEW r \in SUBSET Pin, NEW pc \in {"oeWrite", "outWrite"}, Top.pc \in PinPc,
             stack' = [stack EXCEPT ![Depth].reg = r, ![Depth].pc = pc]
      PROVE  Control' /\ Moved(pc)
  <2> DEFINE f == [Top EXCEPT !.reg = r, !.pc = pc]
  <2>1. pc \in Label BY DEF Label, MainPc, PinPc
  <2>2. /\ f \in FrameSet /\ f.h = Top.h /\ f.pc = pc /\ f.next = Top.next
        /\ f.mepc = Top.mepc /\ f.mstatus = Top.mstatus
    BY <1>1, <2>1 DEF FrameSet
  <2>3. stack' = [stack EXCEPT ![Depth] = f]
    <3>1. stack \in Seq(FrameSet) /\ Depth \in 1 .. Len(stack) BY TopFrame DEF Control
    <3> QED BY <1>1, <1>3, <3>1
  <2> HIDE DEF f
  <2>4. FrameOK(f) BY <1>1, <1>3, <2>2 DEF FrameOK, MainPc, PinPc
  <2>5. Top.pc \notin Masked /\ f.pc \notin Masked BY <1>3, <2>2 DEF Masked, PinPc
  <2> QED BY <1>2, <2>2, <2>3, <2>4, <2>5, BodyControl, ReplaceMoves
<1>4. CASE Top.pc \in {"oeRead", "outRead"}
  <2> DEFINE r == IF Top.pc = "oeRead" THEN OE ELSE OUT
             pc == IF Top.pc = "oeRead" THEN "oeWrite" ELSE "outWrite"
  <2>1. stack' = [stack EXCEPT ![Depth].reg = r, ![Depth].pc = pc] BY <1>4 DEF PinStep
  <2>2. r \in SUBSET Pin /\ pc \in {"oeWrite", "outWrite"} BY <1>4 DEF Values
  <2>3. Top.pc \in PinPc BY <1>4 DEF PinPc
  <2> HIDE DEF r, pc
  <2>4. Control' /\ Moved(pc) BY <1>3, <2>1, <2>2, <2>3
  <2> QED BY <2>2, <2>4 DEF PinPc
<1>5. CASE Top.pc = "oeWrite"
  <2>1. Goto("outRead") BY <1>5 DEF PinStep
  <2> DEFINE f == [Top EXCEPT !.pc = "outRead"]
  <2>2. /\ stack' = [stack EXCEPT ![Depth] = f] /\ f \in FrameSet
        /\ f.h = Top.h /\ f.pc = "outRead" /\ f.next = Top.next
        /\ f.mepc = Top.mepc /\ f.mstatus = Top.mstatus
    <3>1. "outRead" \in Label BY DEF Label, MainPc, PinPc
    <3> QED BY <2>1, <3>1, GotoReplaces
  <2> HIDE DEF f
  <2>3. FrameOK(f) BY <1>1, <1>5, <2>2 DEF FrameOK, MainPc, PinPc
  <2>4. Top.pc \notin Masked /\ f.pc \notin Masked BY <1>5, <2>2 DEF Masked
  <2> QED BY <1>2, <2>2, <2>3, <2>4, BodyControl, ReplaceMoves DEF PinPc
<1>6. CASE Top.pc = "outWrite"
  <2>1. Goto(Top.next) BY <1>6 DEF PinStep
  <2>2. Top.next \in PinNext /\ (Top.h = "main" => Top.next = "sleep")
    BY <1>1, <1>6 DEF FrameOK, PinPc
  <2>3. /\ Top.next \in Label \ (Masked \cup PinPc) /\ Top.pc \notin Masked
        /\ Top.h = "main" => Top.next \in MainPc
    BY <1>6, <2>2 DEF Label, PinNext, Masked, PinPc, MainPc
  <2>4. Control' /\ Moved(Top.next) BY <1>2, <2>1, <2>3, GotoControl
  <2> QED BY <2>2, <2>4
<1> QED BY <1>4, <1>5, <1>6 DEF PinStep

\* The entry and exit code: the registers are saved before interrupts are
\* enabled, and restored after they are disabled.
LEMMA CriticalControl ==
  ASSUME Control, CriticalSection
  PROVE  Control' /\ \E pc \in Label \ {"ack", "clear", "gpioOn"} :
                       Moved(pc) /\ pc \in {"body", "restoreMstatus"} \cup Masked
<1>1. /\ Top \in FrameSet /\ Top = stack[Depth] /\ Depth \in Nat /\ Saved(Top, Depth)
      /\ FrameOK(Top) /\ Registers(Top, Depth, mepc, mstatus)
  BY TopFrame DEF Top
<1>2. Depth > 1 /\ Top.h # "main" /\ Top.pc \in DOMAIN After \ {"ack"}
  BY TopFrame DEF CriticalSection, After, Masked
<1>3. ASSUME NEW f \in FrameSet, stack' = [stack EXCEPT ![Depth] = f], f.h = Top.h,
             f.pc = After[Top.pc], Saved(f, Depth), Registers(f, Depth, mepc', mstatus')
      PROVE  Control' /\ \E pc \in Label \ {"ack", "clear", "gpioOn"} :
                           Moved(pc) /\ pc \in {"body", "restoreMstatus"} \cup Masked
  <2>1. f.pc \in (Label \ {"ack", "clear", "gpioOn"}) \cap ({"body", "restoreMstatus"} \cup Masked)
    BY <1>2, <1>3 DEF After, Label, Masked
  <2>2. FrameOK(f) BY <1>2, <1>3, <2>1 DEF FrameOK, PinPc, Masked
  <2> QED BY <1>3, <2>1, <2>2, TopControl, ReplaceMoves
<1>4. CASE Top.pc = "saveMepc"
  <2> DEFINE f == [Top EXCEPT !.mepc = mepc, !.pc = "saveMstatus"]
  <2>1. After[Top.pc] = "saveMstatus" /\ "saveMstatus" \in Label BY <1>4 DEF After, Label, Masked
  <2>2. mepc \in Nat /\ mepc = Depth - 1 /\ mstatus \in Status /\ mstatus = Trapped
    BY <1>1, <1>4 DEF Registers
  <2>3. /\ f \in FrameSet /\ f.h = Top.h /\ f.pc = "saveMstatus" /\ f.mepc = mepc
    BY <1>1, <2>1, <2>2 DEF FrameSet
  <2>4. stack' = [stack EXCEPT ![Depth] = f] /\ UNCHANGED coreVars
    BY <1>1, <1>4, <2>1 DEF CriticalSection
  <2> HIDE DEF f
  <2>5. Saved(f, Depth) BY <1>1, <2>2, <2>3 DEF Saved
  <2>6. Registers(f, Depth, mepc', mstatus')
    BY <2>2, <2>3, <2>4 DEF Registers, coreVars, Trapped, Masked
  <2> QED BY <1>3, <2>1, <2>3, <2>4, <2>5, <2>6
<1>5. CASE Top.pc = "saveMstatus"
  <2> DEFINE f == [Top EXCEPT !.mstatus = mstatus, !.pc = "enable"]
  <2>1. After[Top.pc] = "enable" /\ "enable" \in Label BY <1>5 DEF After, Label, Masked
  <2>2. mepc \in Nat /\ mstatus \in Status /\ mstatus = Trapped
    BY <1>1, <1>5 DEF Registers
  <2>3. /\ f \in FrameSet /\ f.h = Top.h /\ f.pc = "enable" /\ f.mepc = Top.mepc
        /\ f.mstatus = mstatus
    BY <1>1, <2>1, <2>2 DEF FrameSet
  <2>4. stack' = [stack EXCEPT ![Depth] = f] /\ UNCHANGED coreVars
    BY <1>1, <1>5, <2>1 DEF CriticalSection
  <2> HIDE DEF f
  <2>5. Saved(f, Depth) BY <1>1, <1>5, <2>2, <2>3 DEF Saved
  <2>6. Registers(f, Depth, mepc', mstatus')
    <3>1. mepc' \in Nat /\ mstatus' \in Status /\ mstatus'.MIE = FALSE
      BY <2>2, <2>4 DEF coreVars, Trapped
    <3> QED BY <2>3, <3>1 DEF Registers, Masked
  <2> QED BY <1>3, <2>1, <2>3, <2>4, <2>5, <2>6
<1>6. ASSUME NEW pc \in Label, pc = After[Top.pc], Goto(pc),
             Top.pc \in {"enable", "disable", "restoreMstatus", "restoreMepc"},
             Registers([Top EXCEPT !.pc = pc], Depth, mepc', mstatus')
      PROVE  Control' /\ \E q \in Label \ {"ack", "clear", "gpioOn"} :
                           Moved(q) /\ q \in {"body", "restoreMstatus"} \cup Masked
  <2> DEFINE f == [Top EXCEPT !.pc = pc]
  <2>1. /\ stack' = [stack EXCEPT ![Depth] = f] /\ f \in FrameSet
        /\ f.h = Top.h /\ f.pc = pc /\ f.mepc = Top.mepc /\ f.mstatus = Top.mstatus
    BY <1>6, GotoReplaces
  <2>2. Registers(f, Depth, mepc', mstatus') BY <1>6
  <2> HIDE DEF f
  <2>3. Saved(f, Depth) BY <1>1, <1>6, <2>1 DEF Saved
  <2> QED BY <1>3, <1>6, <2>1, <2>2, <2>3
<1>7. Top.mepc \in Nat /\ Top.mstatus \in Status BY <1>1 DEF FrameSet
<1>8. CASE Top.pc = "enable"
  <2>1. After[Top.pc] = "body" /\ "body" \in Label BY <1>8 DEF After, Label
  <2>2. mstatus' = [mstatus EXCEPT !.MIE = TRUE] /\ Goto("body") /\ UNCHANGED mepc
    BY <1>8, <2>1 DEF CriticalSection
  <2>3. mstatus' \in Status /\ mstatus'.MIE = TRUE /\ mepc' \in Nat
    BY <1>1, <2>2 DEF Registers, Status
  <2>4. Registers([Top EXCEPT !.pc = "body"], Depth, mepc', mstatus')
    BY <1>1, <2>3 DEF Registers, Masked, FrameSet
  <2> QED BY <1>6, <1>8, <2>1, <2>2, <2>4
<1>9. CASE Top.pc = "disable"
  <2>1. After[Top.pc] = "restoreMstatus" /\ "restoreMstatus" \in Label
    BY <1>9 DEF After, Label, Masked
  <2>2. mstatus' = [mstatus EXCEPT !.MIE = FALSE] /\ Goto("restoreMstatus") /\ UNCHANGED mepc
    BY <1>9, <2>1 DEF CriticalSection
  <2>3. mstatus' \in Status /\ mstatus'.MIE = FALSE /\ mepc' \in Nat
    BY <1>1, <2>2 DEF Registers, Status
  <2>4. Registers([Top EXCEPT !.pc = "restoreMstatus"], Depth, mepc', mstatus')
    BY <1>1, <2>3 DEF Registers, Masked, FrameSet
  <2> QED BY <1>6, <1>9, <2>1, <2>2, <2>4
<1>10. CASE Top.pc = "restoreMstatus"
  <2>1. After[Top.pc] = "restoreMepc" /\ "restoreMepc" \in Label
    BY <1>10 DEF After, Label, Masked
  <2>2. mstatus' = Top.mstatus /\ Goto("restoreMepc") /\ UNCHANGED mepc
    BY <1>10, <2>1 DEF CriticalSection
  <2>3. mstatus' \in Status /\ mstatus' = Trapped /\ mepc' \in Nat
    BY <1>1, <1>2, <1>7, <1>10, <2>2 DEF Registers, Saved
  <2>4. Registers([Top EXCEPT !.pc = "restoreMepc"], Depth, mepc', mstatus')
    BY <1>1, <2>3 DEF Registers, Masked, FrameSet, Trapped
  <2> QED BY <1>6, <1>10, <2>1, <2>2, <2>4
<1>11. CASE Top.pc = "restoreMepc"
  <2>1. After[Top.pc] = "mret" /\ "mret" \in Label
    BY <1>11 DEF After, Label, Masked
  <2>2. mepc' = Top.mepc /\ Goto("mret") /\ UNCHANGED mstatus
    BY <1>11, <2>1 DEF CriticalSection
  <2>3. mstatus' \in Status /\ mstatus' = Trapped /\ mepc' = Depth - 1 /\ mepc' \in Nat
    BY <1>1, <1>2, <1>7, <1>11, <2>2 DEF Registers, Saved
  <2>4. Registers([Top EXCEPT !.pc = "mret"], Depth, mepc', mstatus')
    BY <1>1, <2>3 DEF Registers, Masked, FrameSet, Trapped
  <2> QED BY <1>6, <1>11, <2>1, <2>2, <2>4
<1> QED BY <1>2, <1>4, <1>5, <1>8, <1>9, <1>10, <1>11 DEF After

------------------------------------------------------------------------------
(***************************************************************************)
(* The devices and the handlers that serve them.                           *)
(***************************************************************************)

\* What a frame of a handler is.
LEMMA FrameOf ==
  ASSUME Control, NEW h, NEW d
  PROVE  d \in FramesOf(h) <=> d \in 1 .. Len(stack) /\ stack[d].h = h
BY DEF FramesOf, Depth

\* A step that raises no interrupt, and uses the I2C master only after the GPIO
\* callback has acknowledged; the frame on top moves to pc.
Harmless(pc) ==
  /\ timer'.ENA_INT => timer.ENA_INT
  /\ INTS' => INTS
  /\ INTE' => INTE
  /\ edges' = edges /\ slow' = slow
  /\ g_ack.gpio => g_ack'.gpio
  /\ Top.h = "gpio" /\ pc = "inte" => g_ack'.gpio
  /\ Top.h = "gpio" /\ pc \in {"oe", "out", "transmit", "called"} => ~INTE' /\ g_ack'.gpio
  /\ i2c'.flag => i2c.flag
  /\ i2c'.busy => i2c.busy \/ (~INTE' /\ g_ack'.gpio)

\* Such a step of main, or of a handler that has acknowledged, keeps Sources.
LEMMA BodySources ==
  ASSUME Control, Values, Values', Sources, NEW pc, Moved(pc), Harmless(pc),
         Top.pc \notin {"ack", "clear"}, pc \notin {"ack", "clear", "gpioOn"}
  PROVE  Sources'
<1> USE DEF Harmless
<1> DEFINE n == Len(stack)
<1>1. /\ n \in Nat /\ n > 0 /\ Len(stack') = n /\ Top = stack[n] /\ Top' = stack'[n]
      /\ stack'[n].pc = pc /\ stack'[n].h = Top.h
      /\ \A d \in 1 .. n : d # n => stack'[d] = stack[d]
  BY TopFrame DEF Moved, Top, Depth
<1>2. /\ FramesOf("timer")' = FramesOf("timer") /\ FramesOf("gpio")' = FramesOf("gpio")
      /\ FramesOf("i2c")' = FramesOf("i2c")
  BY DEF Moved, Handler
<1>3. \A h, d : d \in FramesOf(h) <=> d \in 1 .. n /\ stack[d].h = h BY FrameOf
<1> HIDE DEF n
<1>4. Quiet'
  <2> SUFFICES ASSUME stack'[1].pc = "gpioOn"
               PROVE  /\ Len(stack') = 1 /\ ~INTE' /\ ~INTS' /\ ~timer'.ENA_INT
                      /\ ~i2c'.busy /\ ~i2c'.flag
    BY DEF Quiet
  <2>1. stack[1].pc = "gpioOn" /\ n # 1 BY <1>1
  <2> QED BY <2>1 DEF Sources, Quiet, n
<1>5. TimerOnce'
  <2> SUFFICES ASSUME NEW d \in FramesOf("timer")
               PROVE  (\A e \in FramesOf("timer") : e = d) /\ ~timer'.ENA_INT
    BY <1>2 DEF TimerOnce
  <2>1. ~(d = n /\ stack[d].pc = "ack") BY <1>1
  <2> QED BY <2>1 DEF Sources, TimerOnce, n
<1>6. GpioPerEdge'
  <2>1. Unserved' => Unserved BY <1>1 DEF Unserved
  <2>2. /\ IsFiniteSet(FramesOf("gpio"))
        /\ Cardinality(FramesOf("gpio")) + (IF Unserved THEN 1 ELSE 0) <= edges
    BY DEF Sources, GpioPerEdge
  <2>3. Cardinality(FramesOf("gpio")) \in Nat BY <2>2, FS_CardinalityType
  <2>4. edges \in Nat BY NestedAssumption DEF Values
  <2>5. Cardinality(FramesOf("gpio")) + (IF Unserved' THEN 1 ELSE 0) <= edges
    BY <2>1, <2>2, <2>3, <2>4
  <2> QED BY <1>2, <2>2, <2>5 DEF GpioPerEdge
<1>7. GpioFirst'
  <2>1. ASSUME NEW d \in FramesOf("gpio")
        PROVE  /\ stack'[d].pc = "inte" => g_ack'.gpio
               /\ stack'[d].pc \in {"oe", "out", "transmit", "called"} => ~INTE' /\ g_ack'.gpio
    <3>1. d \in 1 .. n /\ stack[d].h = "gpio" BY <1>3
    <3>2. CASE d = n BY <1>1, <3>1, <3>2
    <3>3. CASE d # n BY <1>1, <3>1, <3>3 DEF Sources, GpioFirst
    <3> QED BY <3>2, <3>3
  <2>2. i2c'.busy \/ i2c'.flag \/ FramesOf("i2c") # {} => ~INTE' /\ g_ack'.gpio
    BY DEF Sources, GpioFirst
  <2> QED BY <1>2, <2>1, <2>2 DEF GpioFirst
<1>8. I2cOnce'
  <2> SUFFICES ASSUME slow
               PROVE  /\ i2c'.flag \/ FramesOf("i2c") # {} => ~INTS'
                      /\ \A d \in FramesOf("i2c") :
                           /\ \A e \in FramesOf("i2c") : e = d
                           /\ \A e \in FramesOf("gpio") : e < d
                           /\ ~i2c'.flag
    BY <1>2 DEF I2cOnce
  <2>1. i2c'.flag \/ FramesOf("i2c") # {} => ~INTS' BY DEF Sources, I2cOnce
  <2>2. ASSUME NEW d \in FramesOf("i2c")
        PROVE  /\ \A e \in FramesOf("i2c") : e = d
               /\ \A e \in FramesOf("gpio") : e < d
               /\ ~i2c'.flag
    <3>1. ~(d = n /\ stack[d].pc = "ack") BY <1>1
    <3> QED BY <3>1 DEF Sources, I2cOnce, n
  <2> QED BY <2>1, <2>2
<1> QED BY <1>4, <1>5, <1>6, <1>7, <1>8 DEF Sources

\* A transfer has an interrupt for each byte, and one for the control byte.
LEMMA Lengths ==
  /\ TxBytes \in Nat \ {0} /\ RxBytes \in Nat \ {0}
  /\ {0, TxBytes, RxBytes} \subseteq 0 .. (TxBytes + RxBytes)
  /\ AddressBytes \in Nat
  /\ MaxEdges \in Nat /\ MaxEdgesFast \in 0 .. MaxEdges
BY NestedAssumption DEF TxBytes, RxBytes

\* The driver's functions leave a handle and a master of the right type.
LEMMA StartTransferType ==
  ASSUME i2c \in Master, eeprom \in Eeprom, NEW st \in {"BUSY_TX_IT", "BUSY_RX_IT"},
         NEW b \in 0 .. (TxBytes + RxBytes), StartTransfer(st, b)
  PROVE  i2c' \in Master /\ eeprom' \in Eeprom
<1>1. <<>> \in Seq(Nat) OBVIOUS
<1> QED BY <1>1 DEF StartTransfer, Master

\* So does the blocking transfer of the address.
LEMMA SetAddressType ==
  ASSUME i2c \in Master, eeprom \in Eeprom, SetAddress
  PROVE  i2c' \in Master /\ eeprom' \in Eeprom
<1>1. CASE i2c.State = "READY"
  <2>1. i2c' = [i2c EXCEPT !.flag = FALSE, !.nack = FALSE] /\ eeprom' = [eeprom EXCEPT !.ptr = 1]
    BY <1>1 DEF SetAddress
  <2>2. i2c' \in Master BY <2>1 DEF Master
  <2>3. eeprom' \in Eeprom BY <2>1 DEF Eeprom
  <2> QED BY <2>2, <2>3
<1>2. CASE i2c.State # "READY" BY <1>2 DEF SetAddress, i2cVars
<1> QED BY <1>1, <1>2

\* So does the handler of i2c_master.c, which takes a received byte.
LEMMA I2cSequenceType ==
  ASSUME i2c \in Master, eeprom \in Eeprom, I2cSequence
  PROVE  i2c' \in Master /\ eeprom' \in Eeprom
<1> DEFINE data == IF i2c.State = "BUSY_RX_IT" /\ ~ControlByte THEN Append(i2c.data, i2c.rx) ELSE i2c.data
           acked == [i2c EXCEPT !.flag = FALSE, !.data = data]
<1>1. i2c.data \in Seq(Nat) /\ i2c.rx \in Nat BY DEF Master
<1>2. data \in Seq(Nat) BY <1>1
<1> HIDE DEF data
<1>3. acked \in Master /\ acked.left = i2c.left BY <1>2 DEF Master
<1>4. i2c.left > 1 => i2c.left - 1 \in 0 .. (TxBytes + RxBytes) BY Lengths DEF Master
<1>5. (i2c.State = "BUSY_RX_IT") \in BOOLEAN OBVIOUS
<1>6. \/ i2c' = [acked EXCEPT !.busy = TRUE]
      \/ i2c.left > 1 /\ i2c' = [acked EXCEPT !.busy = TRUE, !.left = @ - 1]
      \/ i2c' = [acked EXCEPT !.State = "READY", !.IEN = FALSE, !.left = 0,
                              !.busy = (i2c.State = "BUSY_RX_IT")]
      \/ i2c' = acked
  BY DEF I2cSequence, data
<1> HIDE DEF acked
<1>7. i2c' \in Master
  <2>1. CASE i2c' = [acked EXCEPT !.busy = TRUE] BY <1>3, <2>1 DEF Master
  <2>2. CASE i2c.left > 1 /\ i2c' = [acked EXCEPT !.busy = TRUE, !.left = @ - 1]
    BY <1>3, <1>4, <2>2 DEF Master
  <2>3. CASE i2c' = [acked EXCEPT !.State = "READY", !.IEN = FALSE, !.left = 0,
                                  !.busy = (i2c.State = "BUSY_RX_IT")]
    BY <1>3, <1>5, <2>3, Lengths DEF Master
  <2> QED BY <1>3, <1>6, <2>1, <2>2, <2>3
<1>8. eeprom' = eeprom BY DEF I2cSequence
<1> QED BY <1>7, <1>8

\* The end of a byte: what the master and the EEPROM have afterwards.
LEMMA ByteEndsType ==
  ASSUME i2c \in Master, eeprom \in Eeprom, ByteEnds
  PROVE  i2c' \in Master /\ eeprom' \in Eeprom
<1> DEFINE ended == [i2c EXCEPT !.busy = FALSE, !.flag = TRUE]
<1>1. ended \in Master BY DEF Master
<1>2. eeprom.ptr + 1 \in Nat /\ eeprom.page \in Seq(Nat) /\ eeprom.mem \in Seq(Nat) /\ <<>> \in Seq(Nat)
  BY DEF Eeprom
<1>3. CASE i2c' = ended /\ UNCHANGED eeprom BY <1>1, <1>3
<1>4. CASE i2c' = [ended EXCEPT !.nack = eeprom.writing] /\ UNCHANGED eeprom
  <2>1. eeprom.writing \in BOOLEAN BY DEF Eeprom
  <2> HIDE DEF ended
  <2> QED BY <1>1, <1>4, <2>1 DEF Master
<1>5. CASE i2c' = [ended EXCEPT !.nack = FALSE] /\ EepromTakes(TxBytes - i2c.left)
  <2>1. i2c' \in Master
    <3> HIDE DEF ended
    <3> QED BY <1>1, <1>5 DEF Master
  <2> DEFINE b == TxBytes - i2c.left
             page == Append(eeprom.page, b - AddressBytes)
  <2>2. b \in Int /\ AddressBytes \in Nat BY Lengths DEF Master
  <2>3. b > AddressBytes => page \in Seq(Nat)
    <3>1. b > AddressBytes => b - AddressBytes \in Nat BY <2>2
    <3> QED BY <1>2, <3>1
  <2>4. eeprom' = IF b <= AddressBytes THEN [eeprom EXCEPT !.ptr = 1, !.page = <<>>]
                  ELSE IF b < TxBytes - 1 THEN [eeprom EXCEPT !.ptr = @ + 1, !.page = page]
                  ELSE [ptr |-> eeprom.ptr + 1, page |-> <<>>, mem |-> page, writing |-> TRUE]
    BY <1>5 DEF EepromTakes
  <2> HIDE DEF b, page
  <2>5. eeprom' \in Eeprom
    <3>1. CASE b <= AddressBytes BY <1>2, <2>4, <3>1 DEF Eeprom
    <3>2. CASE ~(b <= AddressBytes)
      <4>1. page \in Seq(Nat) BY <2>2, <2>3, <3>2
      <4> QED BY <1>2, <2>4, <3>2, <4>1 DEF Eeprom
    <3> QED BY <3>1, <3>2
  <2> QED BY <2>1, <2>5
<1>6. CASE /\ i2c' = [ended EXCEPT !.nack = (i2c.left = 1), !.rx = Cell(eeprom.ptr)]
           /\ eeprom' = [eeprom EXCEPT !.ptr = @ + 1]
  <2>1. Cell(eeprom.ptr) \in Nat BY <1>2 DEF Cell
  <2>2. (i2c.left = 1) \in BOOLEAN OBVIOUS
  <2>3. i2c' \in Master
    <3> HIDE DEF ended
    <3> QED BY <1>1, <1>6, <2>1, <2>2 DEF Master
  <2>4. eeprom' \in Eeprom BY <1>2, <1>6 DEF Eeprom
  <2> QED BY <2>3, <2>4
<1> QED BY <1>3, <1>4, <1>5, <1>6 DEF ByteEnds

\* Every step keeps the devices' registers and the program's variables in range.
LEMMA ValuesKept ==
  ASSUME Control, Values, Next
  PROVE  Values'
<1>1. Top \in FrameSet BY TopFrame
<1>2. Top.reg \in SUBSET Pin /\ Top.pin \in Pin BY <1>1 DEF FrameSet
<1>3. UNCHANGED slow BY DEF Next
<1>4. i2c \in Master /\ eeprom \in Eeprom BY DEF Values
<1> USE DEF coreVars, gpioVars, i2cVars, progVars
<1>5. CASE PinStep BY <1>2, <1>3, <1>5 DEF PinStep, Values
<1>6. CASE Main BY <1>3, <1>6 DEF Main, SetPin, Values
<1>7. CASE Ack
  <2>1. i2c' \in Master /\ eeprom' \in Eeprom BY <1>4, <1>7 DEF Ack, Master
  <2> QED BY <1>3, <1>7, <2>1 DEF Ack, AckTimer, Values
<1>8. CASE CriticalSection BY <1>3, <1>8 DEF CriticalSection, Values
<1>9. CASE Mret BY <1>3, <1>9 DEF Mret, Values
<1>10. CASE TimerCallback
  <2>1. CASE At("timer", "body") /\ timer' = [CNT_EN |-> FALSE, ENA_INT |-> FALSE, flag |-> FALSE]
    BY <1>3, <1>10, <2>1 DEF TimerCallback, At, Values
  <2>2. CASE At("timer", "wait") BY <1>3, <1>10, <2>2 DEF TimerCallback, At, SetPin, Values
  <2> QED BY <1>10, <2>1, <2>2 DEF TimerCallback
<1>11. CASE GpioCallback
  <2>1. {0} \subseteq Pin BY DEF Pin
  <2>2. CASE At("gpio", "transmit")
    <3>1. StartTransfer("BUSY_TX_IT", TxBytes) /\ UNCHANGED <<timer, gpioVars, progVars>>
      BY <1>11, <2>2 DEF GpioCallback, At
    <3>2. i2c' \in Master /\ eeprom' \in Eeprom BY <1>4, <3>1, Lengths, StartTransferType
    <3> QED BY <1>3, <3>1, <3>2 DEF Values
  <2>3. CASE ~At("gpio", "transmit") BY <1>3, <1>11, <2>1, <2>3 DEF GpioCallback, SetPin, Values
  <2> QED BY <2>2, <2>3
<1>12. CASE I2cSequence
  <2>1. i2c' \in Master /\ eeprom' \in Eeprom BY <1>4, <1>12, I2cSequenceType
  <2> QED BY <1>3, <1>12, <2>1 DEF I2cSequence, Values
<1>13. CASE I2cCallbacks
  <2>1. i2c' \in Master /\ eeprom' \in Eeprom
    BY <1>4, <1>13, Lengths, StartTransferType, SetAddressType DEF I2cCallbacks, SetPin
  <2> QED BY <1>3, <1>13, <2>1 DEF I2cCallbacks, SetPin, Values
<1>14. ASSUME NEW h \in Handler, TakeInterrupt(h) PROVE Values'
  BY <1>3, <1>14 DEF TakeInterrupt, Values
<1>15. CASE TimerWraps
  <2>1. timer' \in [CNT_EN : BOOLEAN, ENA_INT : BOOLEAN, flag : BOOLEAN]
    BY <1>15 DEF TimerWraps, Values
  <2>2. UNCHANGED <<INTS, INTE, edges, OE, OUT, i2c, eeprom, ints, g_ack>> BY <1>15 DEF TimerWraps
  <2> QED BY <1>3, <2>1, <2>2 DEF Values
<1>16. CASE Edge BY <1>3, <1>16, Lengths DEF Edge, Values
<1>17. CASE ByteEnds
  <2>1. i2c' \in Master /\ eeprom' \in Eeprom BY <1>4, <1>17, ByteEndsType
  <2>2. UNCHANGED <<timer, INTS, INTE, edges, OE, OUT, ints, g_ack>> BY <1>17 DEF ByteEnds
  <2> QED BY <1>3, <2>1, <2>2 DEF Values
<1>18. CASE WriteCycleEnds
  <2>1. eeprom' \in Eeprom BY <1>4, <1>18 DEF WriteCycleEnds, Eeprom
  <2> QED BY <1>3, <1>18, <2>1 DEF WriteCycleEnds, Values
<1> QED BY <1>5, <1>6, <1>7, <1>8, <1>9, <1>10, <1>11, <1>12, <1>13, <1>14, <1>15, <1>16, <1>17, <1>18
        DEF Next, Core, Instruction

------------------------------------------------------------------------------
(***************************************************************************)
(* The instructions, one lemma for each function of the program.           *)
(***************************************************************************)

\* A jump of a handler's callback.
LEMMA HandlerGoto ==
  ASSUME Inv, Values', NEW pc \in Label \ (Masked \cup PinPc), pc # "gpioOn", Goto(pc),
         Top.pc \notin Masked, Top.h # "main", UNCHANGED coreVars, Harmless(pc)
  PROVE  Control' /\ Sources'
<1>1. Control' /\ Moved(pc) BY GotoControl DEF Inv
<1>2. Top.pc \notin {"ack", "clear"} /\ pc \notin {"ack", "clear", "gpioOn"} BY DEF Masked
<1> QED BY <1>1, <1>2, BodySources DEF Inv

\* A handler or main sets a pin.
LEMMA SetsPin ==
  ASSUME Inv, Values', NEW pin \in Pin, NEW next \in PinNext, SetPin(pin, next),
         Top.pc \notin Masked, Top.h = "main" => next = "sleep",
         g_ack.gpio => g_ack'.gpio, slow' = slow
  PROVE  Control' /\ Sources'
<1>1. Control' /\ Moved("oeRead") BY SetPinControl DEF Inv
<1>2. Harmless("oeRead") BY DEF Harmless, SetPin, gpioVars, i2cVars
<1>3. Top.pc \notin {"ack", "clear"} BY DEF Masked
<1> QED BY <1>1, <1>2, <1>3, BodySources DEF Inv

\* The timer's callback stops the timer and waits for the GPIO handler.
LEMMA TimerCallbackKeeps ==
  ASSUME Inv, Values', TimerCallback, slow' = slow
  PROVE  Control' /\ Sources'
<1>1. Top.h = "timer" /\ Top.pc \notin Masked BY DEF TimerCallback, At, Masked
<1>2. CASE At("timer", "body") /\ Goto("wait") /\ UNCHANGED <<coreVars, gpioVars, i2cVars, progVars>>
           /\ timer' = [CNT_EN |-> FALSE, ENA_INT |-> FALSE, flag |-> FALSE]
  <2>1. Harmless("wait") BY <1>1, <1>2 DEF Harmless, gpioVars, i2cVars, progVars
  <2>2. "wait" \in Label \ (Masked \cup PinPc) BY DEF Label, PinNext, Masked, PinPc
  <2> QED BY <1>1, <1>2, <2>1, <2>2, HandlerGoto
<1>3. CASE g_ack' = [g_ack EXCEPT !.timer = TRUE] /\ SetPin(6, "disable")
  <2>1. g_ack'.gpio = g_ack.gpio BY <1>3 DEF Inv, Values
  <2>2. 6 \in Pin /\ "disable" \in PinNext BY DEF Pin, PinNext
  <2> QED BY <1>1, <1>3, <2>1, <2>2, SetsPin
<1> QED BY <1>2, <1>3 DEF TimerCallback

\* The GPIO callback disables its interrupt before it starts the transfer that nests on it.
LEMMA GpioCallbackKeeps ==
  ASSUME Inv, Values', GpioCallback, slow' = slow
  PROVE  Control' /\ Sources'
<1>1. Top.h = "gpio" /\ Top.pc \notin Masked BY DEF GpioCallback, At, Masked
<1>2. Depth \in FramesOf("gpio") /\ Top = stack[Depth] BY <1>1, TopFrame DEF FramesOf, Inv, Top
<1>3. /\ Top.pc = "inte" => g_ack.gpio
      /\ Top.pc \in {"oe", "out", "transmit", "called"} => ~INTE /\ g_ack.gpio
  BY <1>2 DEF Inv, Sources, GpioFirst
<1>4. {"acknowledge", "inte", "oe", "out", "transmit", "called", "disable"}
        \subseteq Label \ (Masked \cup PinPc)
  BY DEF Label, PinNext, Masked, PinPc
<1> USE DEF coreVars, gpioVars, i2cVars, progVars
<1>5. CASE At("gpio", "body") /\ UNCHANGED <<coreVars, timer, gpioVars, i2cVars, progVars>>
           /\ Goto(IF ints THEN "acknowledge" ELSE "disable")
  <2> DEFINE pc == IF ints THEN "acknowledge" ELSE "disable"
  <2>1. Goto(pc) /\ pc \in {"acknowledge", "disable"} BY <1>5
  <2> HIDE DEF pc
  <2>2. pc \in Label \ (Masked \cup PinPc) /\ pc # "gpioOn" BY <1>4, <2>1
  <2>3. Harmless(pc) BY <1>5, <2>1 DEF Harmless
  <2> QED BY <1>1, <1>5, <2>1, <2>2, <2>3, HandlerGoto
<1>6. CASE At("gpio", "acknowledge") /\ Goto("inte") /\ UNCHANGED <<coreVars, timer, gpioVars, i2cVars>>
           /\ g_ack' = [g_ack EXCEPT !.gpio = TRUE]
  <2>1. g_ack'.gpio BY <1>6 DEF Inv, Values
  <2>2. Harmless("inte") BY <1>6, <2>1 DEF Harmless
  <2> QED BY <1>1, <1>4, <1>6, <2>2, HandlerGoto
<1>7. CASE At("gpio", "inte") /\ Goto("oe") /\ INTE' = FALSE
           /\ UNCHANGED <<coreVars, timer, INTS, edges, OE, OUT, i2cVars, progVars>>
  <2>1. Harmless("oe") BY <1>3, <1>7 DEF Harmless, At
  <2> QED BY <1>1, <1>4, <1>7, <2>1, HandlerGoto
<1>8. CASE At("gpio", "oe") /\ Goto("out")
           /\ UNCHANGED <<coreVars, timer, INTS, INTE, edges, OUT, i2cVars, progVars>>
  <2>1. Harmless("out") BY <1>3, <1>8 DEF Harmless, At
  <2> QED BY <1>1, <1>4, <1>8, <2>1, HandlerGoto
<1>9. CASE At("gpio", "out") /\ Goto("transmit")
           /\ UNCHANGED <<coreVars, timer, INTS, INTE, edges, OE, i2cVars, progVars>>
  <2>1. Harmless("transmit") BY <1>3, <1>9 DEF Harmless, At
  <2> QED BY <1>1, <1>4, <1>9, <2>1, HandlerGoto
<1>10. CASE At("gpio", "transmit") /\ Goto("called") /\ StartTransfer("BUSY_TX_IT", TxBytes)
           /\ UNCHANGED <<coreVars, timer, gpioVars, progVars>>
  <2>1. i2c'.flag = i2c.flag BY <1>10 DEF StartTransfer
  <2>2. Harmless("called") BY <1>3, <1>10, <2>1 DEF Harmless, At
  <2> QED BY <1>1, <1>4, <1>10, <2>2, HandlerGoto
<1>11. ASSUME NEW pin \in {1, 5}, NEW next \in {"wait", "disable"}, SetPin(pin, next),
              UNCHANGED progVars
       PROVE  Control' /\ Sources'
  <2>1. pin \in Pin /\ next \in PinNext BY DEF Pin, PinNext
  <2> QED BY <1>1, <1>11, <2>1, SetsPin
<1> QED BY <1>5, <1>6, <1>7, <1>8, <1>9, <1>10, <1>11 DEF GpioCallback

\* The I2C handler, which runs only once the GPIO callback has disabled its interrupt.
LEMMA I2cHandlerKeeps ==
  ASSUME Inv, Values', I2cSequence \/ I2cCallbacks, slow' = slow
  PROVE  Control' /\ Sources'
<1>1. Top.h = "i2c" /\ Top.pc \notin Masked BY DEF I2cSequence, I2cCallbacks, At, Masked
<1>2. Depth \in FramesOf("i2c") BY <1>1, TopFrame DEF FramesOf, Inv, Top
<1>3. ~INTE /\ g_ack.gpio BY <1>2 DEF Inv, Sources, GpioFirst
<1>4. {"disable", "txCplt", "rxCplt", "receive"} \subseteq Label \ (Masked \cup PinPc)
  BY DEF Label, PinNext, Masked, PinPc
<1>5. i2c \in Master BY DEF Inv, Values
<1> USE DEF coreVars, gpioVars, i2cVars, progVars
<1>6. CASE I2cSequence
  <2>1. PICK pc \in {"disable", "txCplt", "rxCplt"} : Goto(pc) BY <1>6 DEF I2cSequence
  <2>2. i2c'.flag = FALSE BY <1>5, <1>6 DEF I2cSequence, Master
  <2>3. UNCHANGED <<coreVars, timer, gpioVars, eeprom, progVars>> BY <1>6 DEF I2cSequence
  <2>4. Harmless(pc) BY <1>1, <1>3, <2>2, <2>3 DEF Harmless
  <2> QED BY <1>1, <1>4, <2>1, <2>3, <2>4, HandlerGoto
<1>7. CASE At("i2c", "address") /\ Goto("receive") /\ SetAddress
           /\ UNCHANGED <<coreVars, timer, gpioVars, progVars>>
  <2>1. (i2c'.flag => i2c.flag) /\ i2c'.busy = i2c.busy BY <1>5, <1>7 DEF SetAddress, Master
  <2>2. Harmless("receive") BY <1>1, <1>7, <2>1 DEF Harmless
  <2> QED BY <1>1, <1>4, <1>7, <2>2, HandlerGoto
<1>8. CASE At("i2c", "receive") /\ Goto("disable") /\ StartTransfer("BUSY_RX_IT", RxBytes)
           /\ UNCHANGED <<coreVars, timer, gpioVars, progVars>>
  <2>1. i2c'.flag = i2c.flag BY <1>5, <1>8 DEF StartTransfer, Master
  <2>2. Harmless("disable") BY <1>1, <1>3, <1>8, <2>1 DEF Harmless
  <2> QED BY <1>1, <1>4, <1>8, <2>2, HandlerGoto
<1>9. ASSUME NEW pin \in {2, 3, 4}, NEW next \in {"address", "matching", "disable"},
             SetPin(pin, next), g_ack'.gpio = g_ack.gpio
      PROVE  Control' /\ Sources'
  <2>1. pin \in Pin /\ next \in PinNext BY DEF Pin, PinNext
  <2> QED BY <1>1, <1>9, <2>1, SetsPin
<1>10. CASE g_ack' = [g_ack EXCEPT !.i2c_tx = TRUE] /\ SetPin(2, "address")
  <2>1. g_ack'.gpio = g_ack.gpio BY <1>10 DEF Inv, Values
  <2> QED BY <1>9, <1>10, <2>1
<1>11. CASE g_ack' = [g_ack EXCEPT !.i2c_rx = TRUE] /\ SetPin(3, "matching")
  <2>1. g_ack'.gpio = g_ack.gpio BY <1>11 DEF Inv, Values
  <2> QED BY <1>9, <1>11, <2>1
<1>12. CASE SetPin(4, "disable") /\ UNCHANGED progVars BY <1>9, <1>12
<1> QED BY <1>6, <1>7, <1>8, <1>10, <1>11, <1>12 DEF I2cCallbacks

\* The accesses of gpio_set_pin, in whichever frame is on top.
LEMMA PinStepKeeps ==
  ASSUME Inv, Values', PinStep, slow' = slow
  PROVE  Control' /\ Sources'
<1>1. PICK pc \in PinPc \cup PinNext : Control' /\ Moved(pc) BY PinControl DEF Inv
<1>2. Harmless(pc) BY DEF Harmless, PinStep, progVars, i2cVars, PinPc, PinNext
<1>3. Top.pc \notin {"ack", "clear"} BY DEF PinStep
<1>4. pc \notin {"ack", "clear", "gpioOn"} BY DEF PinPc, PinNext
<1> QED BY <1>1, <1>2, <1>3, <1>4, BodySources DEF Inv

\* The CSR instructions of the two macros, which touch no device.
LEMMA CriticalSectionKeeps ==
  ASSUME Inv, Values', CriticalSection, slow' = slow
  PROVE  Control' /\ Sources'
<1>1. PICK pc \in Label \ {"ack", "clear", "gpioOn"} :
        Control' /\ Moved(pc) /\ pc \in {"body", "restoreMstatus"} \cup Masked
  BY CriticalControl DEF Inv
<1>2. Harmless(pc) BY <1>1 DEF Harmless, CriticalSection, progVars, gpioVars, i2cVars, Masked
<1>3. Top.pc \notin {"ack", "clear"} BY DEF CriticalSection, After
<1> QED BY <1>1, <1>2, <1>3, BodySources DEF Inv

\* main switches the devices on while no handler runs, and then waits.
LEMMA MainKeeps ==
  ASSUME Inv, Values', Main, slow' = slow
  PROVE  Control' /\ Sources'
<1>1. Top.h = "main" /\ Top.pc \notin Masked BY DEF Main, At, Masked
<1>2. Depth = 1 /\ Len(stack) = 1 /\ Top = stack[1] BY <1>1, TopFrame DEF Inv, Depth, Top
<1>3. \A h \in Handler : FramesOf(h) = {} BY <1>1, <1>2 DEF FramesOf, Handler
<1> USE DEF coreVars, gpioVars, i2cVars, progVars
<1>4. ASSUME NEW pc \in {"timerOn", "wait"}, Goto(pc), UNCHANGED coreVars,
             UNCHANGED <<INTS, edges, i2cVars, progVars>>, Top.pc # "gpioOn" => UNCHANGED INTE
      PROVE  Control' /\ Sources'
  <2>1. /\ pc \in Label \ (Masked \cup PinPc) /\ pc \in MainPc
    BY DEF Label, MainPc, Masked, PinPc
  <2>2. Control' /\ Moved(pc) BY <1>1, <1>4, <2>1, GotoControl DEF Inv
  <2>3. /\ Len(stack') = 1 /\ stack'[1].pc = pc /\ stack'[1].h = "main"
        /\ FramesOf("timer")' = {} /\ FramesOf("gpio")' = {} /\ FramesOf("i2c")' = {}
        /\ Top' = stack'[1]
    BY <1>1, <1>2, <1>3, <2>2 DEF Moved, Handler, Top, Depth
  <2>4. Quiet' /\ TimerOnce' BY <2>3 DEF Quiet, TimerOnce
  <2>5. GpioPerEdge'
    <3>1. Unserved' => Unserved BY <1>1, <1>4, <2>3 DEF Unserved
    <3>2. Cardinality(FramesOf("gpio")) + (IF Unserved THEN 1 ELSE 0) <= edges
      BY DEF Inv, Sources, GpioPerEdge
    <3>3. Cardinality({}) = 0 /\ IsFiniteSet({}) BY FS_EmptySet
    <3>4. FramesOf("gpio") = {} BY <1>3 DEF Handler
    <3> QED BY <1>4, <2>3, <3>1, <3>2, <3>3, <3>4 DEF GpioPerEdge, Values, Inv
  <2>6. GpioFirst'
    BY <1>2, <1>3, <1>4, <2>3 DEF GpioFirst, Inv, Sources, Quiet
  <2>7. I2cOnce' BY <1>2, <1>4, <2>3 DEF I2cOnce, Inv, Sources
  <2> QED BY <2>2, <2>4, <2>5, <2>6, <2>7 DEF Sources
<1>5. CASE At("main", "gpioOn") /\ Goto("timerOn") /\ UNCHANGED <<coreVars, INTS, edges, i2cVars, progVars>>
  BY <1>4, <1>5 DEF At
<1>6. CASE At("main", "timerOn") /\ Goto("wait") /\ UNCHANGED <<coreVars, gpioVars, i2cVars, progVars>>
  BY <1>4, <1>6 DEF At
<1>7. CASE At("main", "wait") /\ SetPin(7, "sleep") /\ UNCHANGED progVars
  <2>1. 7 \in Pin /\ "sleep" \in PinNext BY DEF Pin, PinNext
  <2> QED BY <1>1, <1>7, <2>1, SetsPin
<1> QED BY <1>5, <1>6, <1>7 DEF Main

\* A handler acknowledges: the interrupt it serves is no longer pending.
LEMMA AckSources ==
  ASSUME Control, Values, Values', Sources, NEW pc \in {"clear", "saveMepc"}, Moved(pc), Harmless(pc),
         Top.pc \in {"ack", "clear"}, Top.h # "main",
         Top.h = "timer" => ~timer'.ENA_INT,
         Top.h = "gpio" /\ pc = "saveMepc" => ~INTS',
         Top.h = "i2c" => ~i2c'.flag
  PROVE  Sources'
<1> USE DEF Harmless
<1> DEFINE n == Len(stack)
<1>1. /\ n \in Nat /\ n > 1 /\ Len(stack') = n /\ Top = stack[n] /\ Top' = stack'[n]
      /\ stack'[n].pc = pc /\ stack'[n].h = Top.h
      /\ \A d \in 1 .. n : d # n => stack'[d] = stack[d]
  BY TopFrame DEF Moved, Top, Depth
<1>2. /\ FramesOf("timer")' = FramesOf("timer") /\ FramesOf("gpio")' = FramesOf("gpio")
      /\ FramesOf("i2c")' = FramesOf("i2c")
  BY DEF Moved, Handler
<1>3. \A h, d : d \in FramesOf(h) <=> d \in 1 .. n /\ stack[d].h = h BY FrameOf
<1> HIDE DEF n
<1>4. Quiet'
  <2> SUFFICES ASSUME stack'[1].pc = "gpioOn" PROVE FALSE BY DEF Quiet
  <2>1. stack[1].pc = "gpioOn" /\ n # 1 BY <1>1
  <2> QED BY <2>1 DEF Sources, Quiet, n
<1>5. TimerOnce'
  <2> SUFFICES ASSUME NEW d \in FramesOf("timer")
               PROVE  (\A e \in FramesOf("timer") : e = d) /\ ~timer'.ENA_INT
    BY <1>2 DEF TimerOnce
  <2>1. CASE d = n BY <1>1, <1>3, <2>1 DEF Sources, TimerOnce
  <2>2. CASE d # n BY <2>2 DEF Sources, TimerOnce, n
  <2> QED BY <2>1, <2>2
<1>6. GpioPerEdge'
  <2>1. Unserved' => Unserved BY <1>1 DEF Unserved
  <2>2. /\ IsFiniteSet(FramesOf("gpio"))
        /\ Cardinality(FramesOf("gpio")) + (IF Unserved THEN 1 ELSE 0) <= edges
    BY DEF Sources, GpioPerEdge
  <2>3. Cardinality(FramesOf("gpio")) \in Nat BY <2>2, FS_CardinalityType
  <2>4. edges \in Nat BY NestedAssumption DEF Values
  <2>5. Cardinality(FramesOf("gpio")) + (IF Unserved' THEN 1 ELSE 0) <= edges
    BY <2>1, <2>2, <2>3, <2>4
  <2> QED BY <1>2, <2>2, <2>5 DEF GpioPerEdge
<1>7. GpioFirst'
  <2>1. ASSUME NEW d \in FramesOf("gpio")
        PROVE  /\ stack'[d].pc = "inte" => g_ack'.gpio
               /\ stack'[d].pc \in {"oe", "out", "transmit", "called"} => ~INTE' /\ g_ack'.gpio
    <3>1. d \in 1 .. n /\ stack[d].h = "gpio" BY <1>3
    <3>2. CASE d = n BY <1>1, <3>1, <3>2
    <3>3. CASE d # n BY <1>1, <3>1, <3>3 DEF Sources, GpioFirst
    <3> QED BY <3>2, <3>3
  <2>2. i2c'.busy \/ i2c'.flag \/ FramesOf("i2c") # {} => ~INTE' /\ g_ack'.gpio
    BY DEF Sources, GpioFirst
  <2> QED BY <1>2, <2>1, <2>2 DEF GpioFirst
<1>8. I2cOnce'
  <2> SUFFICES ASSUME slow
               PROVE  /\ i2c'.flag \/ FramesOf("i2c") # {} => ~INTS'
                      /\ \A d \in FramesOf("i2c") :
                           /\ \A e \in FramesOf("i2c") : e = d
                           /\ \A e \in FramesOf("gpio") : e < d
                           /\ ~i2c'.flag
    BY <1>2 DEF I2cOnce
  <2>1. i2c'.flag \/ FramesOf("i2c") # {} => ~INTS' BY DEF Sources, I2cOnce
  <2>2. ASSUME NEW d \in FramesOf("i2c")
        PROVE  /\ \A e \in FramesOf("i2c") : e = d
               /\ \A e \in FramesOf("gpio") : e < d
               /\ ~i2c'.flag
    <3>1. CASE d = n BY <1>1, <1>3, <3>1 DEF Sources, I2cOnce
    <3>2. CASE d # n BY <3>2 DEF Sources, I2cOnce, n
    <3> QED BY <3>1, <3>2
  <2> QED BY <2>1, <2>2
<1> QED BY <1>4, <1>5, <1>6, <1>7, <1>8 DEF Sources

\* The acknowledge of an interrupt, with interrupts still disabled.
LEMMA AckKeeps ==
  ASSUME Inv, Values', Ack, slow' = slow
  PROVE  Control' /\ Sources'
<1>1. Top.h # "main" /\ Top.pc \in {"ack", "clear"} /\ Top \in FrameSet
  BY TopFrame DEF Ack, At, Inv
<1>2. Saved(Top, Depth) /\ Registers(Top, Depth, mepc, mstatus) BY TopFrame DEF Inv
<1>3. ASSUME NEW pc \in {"clear", "saveMepc"}, Goto(pc), UNCHANGED coreVars
      PROVE  Control' /\ Moved(pc)
  <2>1. pc \in Label \ PinPc BY DEF Label, Masked, PinPc
  <2>2. Saved([Top EXCEPT !.pc = pc], Depth)
    BY <1>1, <1>2 DEF Saved, FrameSet
  <2>3. Registers([Top EXCEPT !.pc = pc], Depth, mepc', mstatus')
    BY <1>1, <1>2, <1>3 DEF Registers, FrameSet, coreVars, Masked
  <2> QED BY <1>1, <1>3, <2>1, <2>2, <2>3, EntryControl DEF Inv
<1>4. After.ack = "saveMepc" BY DEF After
<1> USE DEF coreVars, gpioVars, i2cVars, progVars
<1>5. CASE At("timer", "ack") /\ Goto(After.ack) /\ AckTimer /\ UNCHANGED <<coreVars, gpioVars, i2cVars, progVars>>
  <2>1. ~timer'.ENA_INT BY <1>5 DEF AckTimer, Inv, Values
  <2>2. Harmless("saveMepc") BY <1>5, <2>1 DEF Harmless
  <2> QED BY <1>1, <1>3, <1>4, <1>5, <2>1, <2>2, AckSources DEF At, Inv
<1>6. CASE At("i2c", "ack") /\ Goto(After.ack) /\ i2c' = [i2c EXCEPT !.flag = FALSE]
           /\ UNCHANGED <<coreVars, timer, gpioVars, progVars>>
  <2>1. ~i2c'.flag /\ i2c'.busy = i2c.busy BY <1>6 DEF Inv, Values
  <2>2. Harmless("saveMepc") BY <1>6, <2>1 DEF Harmless
  <2> QED BY <1>1, <1>3, <1>4, <1>6, <2>1, <2>2, AckSources DEF At, Inv
<1>7. CASE At("gpio", "ack") /\ Goto("clear") /\ UNCHANGED <<coreVars, timer, gpioVars, i2cVars, g_ack>>
  <2>1. Harmless("clear") BY <1>7 DEF Harmless
  <2> QED BY <1>1, <1>3, <1>7, <2>1, AckSources DEF At, Inv
<1>8. CASE At("gpio", "clear") /\ Goto(After.ack) /\ INTS' = FALSE
           /\ UNCHANGED <<coreVars, timer, INTE, edges, OE, OUT, i2cVars, progVars>>
  <2>1. Harmless("saveMepc") BY <1>8 DEF Harmless
  <2> QED BY <1>1, <1>3, <1>4, <1>8, <2>1, AckSources DEF At, Inv
<1> QED BY <1>5, <1>6, <1>7, <1>8 DEF Ack

\* An interrupt pushes a frame on the handler's stack.
LEMMA InterruptControl ==
  ASSUME Inv, NEW h \in Handler, TakeInterrupt(h)
  PROVE  /\ Control' /\ Len(stack') = Len(stack) + 1 /\ Top.pc \notin Masked
         /\ stack'[Len(stack) + 1] = Frame(h, "ack")
         /\ \A d \in 1 .. Len(stack) : stack'[d] = stack[d]
<1> DEFINE n == Len(stack)
           f == Frame(h, "ack")
<1>1. n \in Nat /\ n > 0 /\ Depth = n /\ stack \in Seq(FrameSet) /\ Registers(Top, Depth, mepc, mstatus)
  BY TopFrame DEF Inv, Control
<1>2. Top.pc \notin Masked BY <1>1 DEF Registers, TakeInterrupt
<1>3. f \in FrameSet
  BY DEF Frame, FrameSet, Label, Masked, Pin, Status, Handler
<1>4. /\ f.h = h /\ f.pc = "ack" /\ f.next = "ack" /\ f.mepc = 0 BY DEF Frame
<1> HIDE DEF f
<1>5. /\ stack' \in Seq(FrameSet) /\ Len(stack') = n + 1 /\ stack'[n + 1] = f
      /\ \A d \in 1 .. n : stack'[d] = stack[d]
  BY <1>1, <1>3 DEF TakeInterrupt, f
<1>6. mepc' = n /\ mstatus' = Trapped
  BY <1>1 DEF TakeInterrupt, Trapped, Registers, Status
<1>7. h # "main" BY DEF Handler
<1>8. ASSUME NEW d \in 1 .. n + 1
      PROVE  /\ (stack'[d].h = "main") = (d = 1)
             /\ FrameOK(stack'[d]) /\ Saved(stack'[d], d)
             /\ d < n + 1 => stack'[d].pc \notin Masked
  <2>1. CASE d = n + 1
    <3>1. FrameOK(f) BY <1>4, <1>7 DEF FrameOK, PinPc
    <3>2. Saved(f, d) BY <1>1, <1>4, <2>1 DEF Saved
    <3> QED BY <1>1, <1>4, <1>5, <1>7, <2>1, <3>1, <3>2
  <2>2. CASE d = n BY <1>1, <1>2, <1>5, <2>2 DEF Inv, Control, Top
  <2>3. CASE d < n BY <1>1, <1>5, <2>3 DEF Inv, Control
  <2> QED BY <1>1, <2>1, <2>2, <2>3
<1>9. Registers(f, n + 1, mepc', mstatus')
  <2>1. mstatus' \in Status /\ mstatus'.MIE = FALSE BY <1>6 DEF Trapped, Status
  <2>2. mepc' \in Nat /\ mepc' = (n + 1) - 1 BY <1>1, <1>6
  <2>3. f.pc \in Masked BY <1>4 DEF Masked
  <2> HIDE DEF n
  <2> QED BY <1>4, <1>6, <2>1, <2>2, <2>3 DEF Registers
<1>10. Control' BY <1>1, <1>5, <1>8, <1>9 DEF Control
<1> QED BY <1>2, <1>5, <1>10 DEF f

\* An interrupt puts a frame on the stack: here the depth grows, and an edge pays for it.
LEMMA InterruptKeeps ==
  ASSUME Inv, Values', NEW h \in Handler, TakeInterrupt(h), slow' = slow
  PROVE  Control' /\ Sources'
<1> DEFINE n == Len(stack)
<1>1. /\ Control' /\ Len(stack') = n + 1 /\ Top.pc \notin Masked
      /\ stack'[n + 1].h = h /\ stack'[n + 1].pc = "ack"
      /\ \A d \in 1 .. n : stack'[d] = stack[d]
  <2>1. Frame(h, "ack").h = h /\ Frame(h, "ack").pc = "ack" BY DEF Frame
  <2> QED BY <2>1, InterruptControl
<1>2. n \in Nat /\ n > 0 /\ Top = stack[n] BY TopFrame DEF Inv
<1>3. \A k, d : d \in FramesOf(k) <=> d \in 1 .. n /\ stack[d].h = k BY FrameOf DEF Inv
<1>4. \A k, d : d \in FramesOf(k)' <=> d \in 1 .. n + 1 /\ stack'[d].h = k
  BY <1>1 DEF FramesOf, Depth
<1>5. FramesOf(h)' = FramesOf(h) \cup {n + 1} BY <1>1, <1>2, <1>3, <1>4
<1>6. \A k \in Handler : k # h => FramesOf(k)' = FramesOf(k)
  <2> SUFFICES ASSUME NEW k \in Handler, k # h PROVE FramesOf(k)' = FramesOf(k) OBVIOUS
  <2>1. \A d : d \in FramesOf(k)' <=> d \in FramesOf(k) BY <1>1, <1>2, <1>3, <1>4
  <2> QED BY <2>1
<1>7. Top' = stack'[n + 1] BY <1>1 DEF Top, Depth
<1>8. UNCHANGED <<timer, INTS, INTE, edges, i2c, g_ack>> BY DEF TakeInterrupt, gpioVars, i2cVars, progVars
<1>9. Pending(h) /\ (h # "i2c" => ~Pending("i2c")) /\ (h = "timer" => ~Pending("gpio"))
  BY DEF TakeInterrupt
<1>10. stack[n].pc \notin {"ack", "clear"} BY <1>1, <1>2 DEF Masked
<1> USE DEF Inv, Sources
<1> HIDE DEF n
<1>11. Quiet'
  <2>1. stack'[1].pc = stack[1].pc BY <1>1, <1>2
  <2>2. ~(timer.ENA_INT \/ INTS \/ i2c.flag) => FALSE
    BY <1>9 DEF Pending, Handler
  <2> QED BY <2>1, <2>2 DEF Quiet
<1>12. TimerOnce'
  <2>1. CASE h = "timer"
    <3>1. timer.ENA_INT BY <1>9, <2>1 DEF Pending
    <3>2. FramesOf("timer") = {} BY <1>3, <1>10, <3>1 DEF TimerOnce, n
    <3> QED BY <1>1, <1>5, <2>1, <3>2 DEF TimerOnce
  <2>2. CASE h # "timer"
    <3>1. FramesOf("timer")' = FramesOf("timer") BY <1>6, <2>2 DEF Handler
    <3>2. ASSUME NEW d \in FramesOf("timer") PROVE ~timer.ENA_INT
      BY <1>10 DEF TimerOnce, n
    <3> QED BY <1>8, <3>1, <3>2 DEF TimerOnce
  <2> QED BY <2>1, <2>2
<1>13. GpioPerEdge'
  <2>1. Unserved = INTS BY <1>2, <1>10 DEF Unserved, Values
  <2>2. /\ IsFiniteSet(FramesOf("gpio"))
        /\ Cardinality(FramesOf("gpio")) + (IF INTS THEN 1 ELSE 0) <= edges
    BY <2>1 DEF GpioPerEdge
  <2>3. Cardinality(FramesOf("gpio")) \in Nat /\ edges \in Nat
    BY <2>2, FS_CardinalityType, NestedAssumption DEF Values
  <2>4. CASE h = "gpio"
    <3>1. INTS BY <1>9, <2>4 DEF Pending
    <3>2. ~Unserved' BY <1>1, <1>7, <2>4 DEF Unserved
    <3>3. n + 1 \notin FramesOf("gpio") BY <1>2, <1>3
    <3>4. IsFiniteSet(FramesOf("gpio")') /\ Cardinality(FramesOf("gpio")') = Cardinality(FramesOf("gpio")) + 1
      BY <1>5, <2>2, <2>4, <3>3, FS_AddElement
    <3> QED BY <1>8, <2>2, <2>3, <3>1, <3>2, <3>4 DEF GpioPerEdge
  <2>5. CASE h # "gpio"
    <3>1. FramesOf("gpio")' = FramesOf("gpio") BY <1>6, <2>5 DEF Handler
    <3>2. Unserved' => INTS BY <1>8 DEF Unserved
    <3> QED BY <1>8, <2>2, <2>3, <3>1, <3>2 DEF GpioPerEdge
  <2> QED BY <2>4, <2>5
<1>14. GpioFirst'
  <2>1. ASSUME NEW d \in FramesOf("gpio")'
        PROVE  /\ stack'[d].pc = "inte" => g_ack'.gpio
               /\ stack'[d].pc \in {"oe", "out", "transmit", "called"} => ~INTE' /\ g_ack'.gpio
    <3>1. CASE d = n + 1 BY <1>1, <3>1
    <3>2. CASE d # n + 1
      <4>1. d \in FramesOf("gpio") /\ stack'[d] = stack[d] BY <1>1, <1>2, <1>3, <1>4, <3>2
      <4> QED BY <1>8, <4>1 DEF GpioFirst
    <3> QED BY <3>1, <3>2
  <2>2. i2c'.busy \/ i2c'.flag \/ FramesOf("i2c")' # {} => ~INTE' /\ g_ack'.gpio
    <3>1. CASE h = "i2c" BY <1>8, <1>9, <3>1 DEF GpioFirst, Pending
    <3>2. CASE h # "i2c"
      <4>1. FramesOf("i2c")' = FramesOf("i2c") BY <1>6, <3>2 DEF Handler
      <4> QED BY <1>8, <4>1 DEF GpioFirst
    <3> QED BY <3>1, <3>2
  <2> QED BY <2>1, <2>2 DEF GpioFirst
<1>15. I2cOnce'
  <2> SUFFICES ASSUME slow
               PROVE  /\ i2c'.flag \/ FramesOf("i2c")' # {} => ~INTS'
                      /\ \A d \in FramesOf("i2c")' :
                           /\ \A e \in FramesOf("i2c")' : e = d
                           /\ \A e \in FramesOf("gpio")' : e < d
                           /\ (d = n + 1 /\ stack'[d].pc = "ack") \/ ~i2c'.flag
    BY <1>1 DEF I2cOnce
  <2>1. CASE h = "i2c"
    <3>1. i2c.flag /\ ~INTS BY <1>9, <2>1 DEF Pending, I2cOnce
    <3>2. FramesOf("i2c") = {} BY <1>3, <1>10, <3>1 DEF I2cOnce, n
    <3>3. FramesOf("i2c")' = {n + 1} BY <1>5, <2>1, <3>2
    <3>4. FramesOf("gpio")' = FramesOf("gpio") BY <1>6, <2>1 DEF Handler
    <3>5. \A e \in FramesOf("gpio") : e < n + 1 BY <1>2, <1>3
    <3> QED BY <1>1, <1>8, <3>1, <3>3, <3>4, <3>5
  <2>2. CASE h # "i2c"
    <3>1. FramesOf("i2c")' = FramesOf("i2c") BY <1>6, <2>2 DEF Handler
    <3>2. ASSUME NEW d \in FramesOf("i2c")
          PROVE  ~i2c.flag /\ (\A e \in FramesOf("i2c") : e = d)
                 /\ (\A e \in FramesOf("gpio") : e < d) /\ h # "gpio"
      <4>1. ~i2c.flag /\ ~INTS BY <1>10 DEF I2cOnce, n
      <4>2. h # "gpio" BY <1>9, <4>1 DEF Pending
      <4> QED BY <4>1, <4>2 DEF I2cOnce
    <3>3. h # "gpio" => FramesOf("gpio")' = FramesOf("gpio") BY <1>6 DEF Handler
    <3>4. i2c.flag \/ FramesOf("i2c") # {} => ~INTS BY DEF I2cOnce
    <3> QED BY <1>8, <3>1, <3>2, <3>3, <3>4
  <2> QED BY <2>1, <2>2
<1> QED BY <1>1, <1>11, <1>12, <1>13, <1>14, <1>15

\* mret pops the frame; the one below runs with interrupts enabled.
LEMMA MretKeeps ==
  ASSUME Inv, Values', Mret, slow' = slow
  PROVE  Control' /\ Sources'
<1> DEFINE n == Len(stack)
           m == Len(stack) - 1
<1>1. /\ n \in Nat /\ Depth = n /\ Top = stack[n] /\ stack \in Seq(FrameSet)
      /\ Registers(Top, Depth, mepc, mstatus) /\ Top.pc = "mret"
  BY TopFrame DEF Inv, Control, Mret
<1>2. m \in Nat /\ m > 0 /\ n = m + 1 BY <1>1, TopFrame DEF Inv, Masked
<1>3. /\ stack' \in Seq(FrameSet) /\ Len(stack') = m
      /\ \A d \in 1 .. m : stack'[d] = stack[d]
  BY <1>1, <1>2 DEF Mret
<1>4. mstatus = Trapped /\ mepc' = mepc /\ mepc \in Nat /\ mstatus' = [MIE |-> mstatus.MPIE, MPIE |-> TRUE]
  BY <1>1 DEF Registers, Mret
<1>5. mstatus' = [MIE |-> TRUE, MPIE |-> TRUE] BY <1>4 DEF Trapped
<1>6. \A d \in 1 .. n :
        /\ (stack[d].h = "main") = (d = 1)
        /\ FrameOK(stack[d]) /\ Saved(stack[d], d)
        /\ d < n => stack[d].pc \notin Masked
  BY DEF Inv, Control
<1>7. UNCHANGED <<timer, INTS, INTE, edges, i2c, g_ack>> BY DEF Mret, gpioVars, i2cVars, progVars
<1>8. \A k, d : d \in FramesOf(k) <=> d \in 1 .. n /\ stack[d].h = k BY FrameOf DEF Inv
<1>9. \A k, d : d \in FramesOf(k)' <=> d \in 1 .. m /\ stack'[d].h = k
  BY <1>3 DEF FramesOf, Depth
<1>10. Top' = stack'[m] BY <1>3 DEF Top, Depth
<1>11. stack[n].pc \notin {"ack", "clear"} BY <1>1
<1> HIDE DEF n, m
<1>12. Registers(stack'[m], m, mepc', mstatus')
  <2>1. mstatus' \in Status /\ mstatus'.MIE = TRUE BY <1>5 DEF Status
  <2>2. stack'[m].pc \notin Masked BY <1>2, <1>3, <1>6
  <2> QED BY <1>4, <2>1, <2>2 DEF Registers, Masked
<1>13. Control'
  <2>1. \A d \in 1 .. m :
          /\ (stack'[d].h = "main") = (d = 1)
          /\ FrameOK(stack'[d]) /\ Saved(stack'[d], d)
          /\ d < m => stack'[d].pc \notin Masked
    BY <1>2, <1>3, <1>6
  <2> QED BY <1>2, <1>3, <1>12, <2>1 DEF Control
<1>14. \A k : FramesOf(k)' \subseteq FramesOf(k) BY <1>2, <1>3, <1>8, <1>9
<1>15. \A k, d : d \in FramesOf(k)' => stack'[d] = stack[d] BY <1>3, <1>9
<1> USE DEF Inv, Sources
<1>16. Quiet'
  <2>1. stack'[1].pc = stack[1].pc BY <1>2, <1>3
  <2>2. n # 1 BY <1>2
  <2> QED BY <2>1, <2>2 DEF Quiet, n
<1>17. TimerOnce'
  <2> SUFFICES ASSUME NEW d \in FramesOf("timer")'
               PROVE  (\A e \in FramesOf("timer")' : e = d) /\ ~timer'.ENA_INT
    BY DEF TimerOnce
  <2>1. d \in FramesOf("timer") /\ FramesOf("timer")' \subseteq FramesOf("timer") BY <1>14
  <2> QED BY <1>7, <1>11, <2>1 DEF TimerOnce, n
<1>18. GpioPerEdge'
  <2>1. Unserved = INTS BY <1>1 DEF Unserved, Values
  <2>2. /\ IsFiniteSet(FramesOf("gpio"))
        /\ Cardinality(FramesOf("gpio")) + (IF INTS THEN 1 ELSE 0) <= edges
    BY <2>1 DEF GpioPerEdge
  <2>3. FramesOf("gpio")' \subseteq FramesOf("gpio") BY <1>14
  <2>4. /\ IsFiniteSet(FramesOf("gpio")')
        /\ Cardinality(FramesOf("gpio")') <= Cardinality(FramesOf("gpio"))
    BY <2>2, <2>3, FS_Subset
  <2>5. /\ Cardinality(FramesOf("gpio")) \in Nat /\ Cardinality(FramesOf("gpio")') \in Nat
        /\ edges \in Nat
    BY <2>2, <2>4, FS_CardinalityType, NestedAssumption DEF Values
  <2>6. Unserved' => INTS BY <1>7 DEF Unserved
  <2> QED BY <1>7, <2>2, <2>4, <2>5, <2>6 DEF GpioPerEdge
<1>19. GpioFirst'
  <2>1. ASSUME NEW d \in FramesOf("gpio")'
        PROVE  /\ stack'[d].pc = "inte" => g_ack'.gpio
               /\ stack'[d].pc \in {"oe", "out", "transmit", "called"} => ~INTE' /\ g_ack'.gpio
    BY <1>7, <1>14, <1>15 DEF GpioFirst
  <2>2. i2c'.busy \/ i2c'.flag \/ FramesOf("i2c")' # {} => ~INTE' /\ g_ack'.gpio
    BY <1>7, <1>14 DEF GpioFirst
  <2> QED BY <2>1, <2>2 DEF GpioFirst
<1>20. I2cOnce'
  <2> SUFFICES ASSUME slow
               PROVE  /\ i2c'.flag \/ FramesOf("i2c")' # {} => ~INTS'
                      /\ \A d \in FramesOf("i2c")' :
                           /\ \A e \in FramesOf("i2c")' : e = d
                           /\ \A e \in FramesOf("gpio")' : e < d
                           /\ ~i2c'.flag
    BY DEF I2cOnce
  <2>1. i2c.flag \/ FramesOf("i2c") # {} => ~INTS BY DEF I2cOnce
  <2>2. ASSUME NEW d \in FramesOf("i2c")
        PROVE  /\ \A e \in FramesOf("i2c") : e = d
               /\ \A e \in FramesOf("gpio") : e < d
               /\ ~i2c.flag
    BY <1>11 DEF I2cOnce, n
  <2>3. FramesOf("i2c")' \subseteq FramesOf("i2c") /\ FramesOf("gpio")' \subseteq FramesOf("gpio")
    BY <1>14
  <2> QED BY <1>7, <2>1, <2>2, <2>3
<1> QED BY <1>13, <1>16, <1>17, <1>18, <1>19, <1>20

------------------------------------------------------------------------------
(***************************************************************************)
(* The peripherals.                                                        *)
(***************************************************************************)

\* Nothing but the devices changes.
LEMMA StackStays ==
  ASSUME Control, UNCHANGED <<stack, mepc, mstatus>>
  PROVE  Control' /\ Len(stack') = Len(stack) /\ Top' = Top /\ \A h : FramesOf(h)' = FramesOf(h)
BY DEF Control, Top, Depth, FramesOf

\* The timer raises its flag; no frame moves.
LEMMA TimerWrapsKeeps ==
  ASSUME Inv, Values', TimerWraps, slow' = slow
  PROVE  Control' /\ Sources'
<1>1. /\ Control' /\ stack' = stack /\ Top' = Top /\ \A h : FramesOf(h)' = FramesOf(h)
      /\ UNCHANGED <<INTS, INTE, edges, i2c, g_ack>>
  BY StackStays DEF TimerWraps, coreVars, gpioVars, i2cVars, progVars, Inv
<1>2. timer'.ENA_INT = timer.ENA_INT BY DEF TimerWraps, Inv, Values
<1>3. Unserved' = Unserved BY <1>1 DEF Unserved
<1> QED BY <1>1, <1>2, <1>3
        DEF Inv, Sources, Quiet, TimerOnce, GpioPerEdge, GpioFirst, I2cOnce

\* An edge at the pin is counted where it raises INTS, so the bound on the depth holds.
LEMMA EdgeKeeps ==
  ASSUME Inv, Values', Edge, slow' = slow
  PROVE  Control' /\ Sources'
<1>1. /\ Control' /\ stack' = stack /\ Top' = Top /\ \A h : FramesOf(h)' = FramesOf(h)
      /\ UNCHANGED <<timer, INTE, i2c, g_ack>> /\ INTE /\ INTS' = TRUE /\ edges' = edges + 1
  BY StackStays DEF Edge, coreVars, gpioVars, i2cVars, progVars, Inv
<1> USE DEF Inv, Sources
<1>2. Quiet' /\ TimerOnce' BY <1>1 DEF Quiet, TimerOnce
<1>3. GpioPerEdge'
  <2>1. /\ IsFiniteSet(FramesOf("gpio"))
        /\ Cardinality(FramesOf("gpio")) + (IF Unserved THEN 1 ELSE 0) <= edges
    BY DEF GpioPerEdge
  <2>2. Cardinality(FramesOf("gpio")) \in Nat /\ edges \in Nat
    BY <2>1, FS_CardinalityType, NestedAssumption DEF Values
  <2>3. Cardinality(FramesOf("gpio")) + (IF Unserved' THEN 1 ELSE 0) <= edges + 1
    BY <2>1, <2>2
  <2> QED BY <1>1, <2>1, <2>3 DEF GpioPerEdge
<1>4. GpioFirst' /\ I2cOnce' BY <1>1 DEF GpioFirst, I2cOnce
<1> QED BY <1>1, <1>2, <1>3, <1>4

\* A slow byte ends while no I2C handler runs and no edge is pending.
LEMMA ByteEndsKeeps ==
  ASSUME Inv, Values', ByteEnds, slow' = slow
  PROVE  Control' /\ Sources'
<1>1. /\ Control' /\ stack' = stack /\ Top' = Top /\ \A h : FramesOf(h)' = FramesOf(h)
      /\ UNCHANGED <<timer, INTS, INTE, edges, g_ack>>
  BY StackStays DEF ByteEnds, coreVars, gpioVars, progVars, Inv
<1>2. i2c.busy BY DEF ByteEnds
<1>3. slow => ~INTS /\ FramesOf("i2c") = {} BY DEF ByteEnds, Pending
<1> USE DEF Inv, Sources
<1>4. Quiet' BY <1>1, <1>2 DEF Quiet
<1>5. TimerOnce' /\ GpioPerEdge' BY <1>1 DEF TimerOnce, GpioPerEdge, Unserved
<1>6. GpioFirst' BY <1>1, <1>2 DEF GpioFirst
<1>7. I2cOnce' BY <1>1, <1>3 DEF I2cOnce
<1> QED BY <1>1, <1>4, <1>5, <1>6, <1>7

\* The write cycle of the EEPROM ends; nothing else changes.
LEMMA WriteCycleEndsKeeps ==
  ASSUME Inv, Values', WriteCycleEnds, slow' = slow
  PROVE  Control' /\ Sources'
<1>1. /\ Control' /\ stack' = stack /\ Top' = Top /\ \A h : FramesOf(h)' = FramesOf(h)
      /\ UNCHANGED <<timer, INTS, INTE, edges, i2c, g_ack>>
  BY StackStays DEF WriteCycleEnds, coreVars, gpioVars, progVars, Inv
<1> QED BY <1>1
        DEF Inv, Sources, Quiet, TimerOnce, GpioPerEdge, Unserved, GpioFirst, I2cOnce

------------------------------------------------------------------------------
(***************************************************************************)
(* The theorems.                                                           *)
(***************************************************************************)

\* The program starts in main with every device off.
LEMMA InitInv == Init => Inv
<1> SUFFICES ASSUME Init PROVE Inv OBVIOUS
<1> DEFINE f == Frame("main", "gpioOn")
<1>1. f \in FrameSet
  BY DEF Frame, FrameSet, Label, Masked, MainPc, Pin, Status, Handler
<1>2. f.h = "main" /\ f.pc = "gpioOn" /\ f.mepc = 0 BY DEF Frame
<1>3. stack = <<f>> BY DEF Init
<1> HIDE DEF f
<1>4. stack \in Seq(FrameSet) /\ Len(stack) = 1 /\ stack[1] = f BY <1>1, <1>3
<1>5. FrameOK(f) /\ Saved(f, 1) BY <1>2 DEF FrameOK, Saved, MainPc, PinPc
<1>6. Registers(f, 1, mepc, mstatus)
  <2>1. mepc \in Nat /\ mstatus \in Status /\ mstatus.MIE = TRUE BY DEF Init, Status
  <2> QED BY <1>2, <2>1 DEF Registers, Masked
<1>7. Control BY <1>2, <1>4, <1>5, <1>6 DEF Control
<1>8. Values
  <2>1. 0 \in 0 .. MaxEdges /\ 0 \in 0 .. (TxBytes + RxBytes) BY Lengths
  <2>2. <<>> \in Seq(Nat) OBVIOUS
  <2>3. i2c \in Master BY <2>1, <2>2 DEF Init, Master
  <2>4. eeprom \in Eeprom
    <3>1. {0} \subseteq Nat /\ {<<>>} \subseteq Seq(Nat) BY <2>2
    <3>2. eeprom \in [ptr : {0}, page : {<<>>}, mem : {<<>>}, writing : BOOLEAN] BY DEF Init
    <3> QED BY <3>1, <3>2, Zenon DEF Eeprom
  <2> QED BY <2>1, <2>3, <2>4 DEF Init, Values
<1>9. FramesOf("timer") = {} /\ FramesOf("gpio") = {} /\ FramesOf("i2c") = {}
  BY <1>2, <1>4 DEF FramesOf, Depth
<1>10. GpioPerEdge
  <2>1. IsFiniteSet({}) /\ Cardinality({}) = 0 BY FS_EmptySet
  <2>2. edges = 0 /\ ~Unserved BY DEF Unserved, Init
  <2> QED BY <1>9, <2>1, <2>2 DEF GpioPerEdge
<1>11. Quiet BY <1>4 DEF Quiet, Init
<1>12. TimerOnce /\ GpioFirst /\ I2cOnce BY <1>9 DEF TimerOnce, GpioFirst, I2cOnce, Init
<1> QED BY <1>7, <1>8, <1>10, <1>11, <1>12 DEF Inv, Sources

\* Every step keeps the invariant.
LEMMA NextInv == Inv /\ [Next]_vars => Inv'
<1> SUFFICES ASSUME Inv, [Next]_vars PROVE Inv' OBVIOUS
<1>1. CASE UNCHANGED vars
  <2>1. Control' /\ Values'
    BY <1>1, StackStays DEF vars, Inv, Values
  <2>2. /\ stack' = stack /\ Top' = Top /\ \A h : FramesOf(h)' = FramesOf(h)
        /\ UNCHANGED <<slow, timer, INTS, INTE, edges, i2c, g_ack>>
    BY <1>1, StackStays DEF vars, Inv
  <2>3. Sources'
    BY <2>2 DEF Inv, Sources, Quiet, TimerOnce, GpioPerEdge, Unserved, GpioFirst, I2cOnce
  <2> QED BY <2>1, <2>3 DEF Inv
<1>2. CASE Next
  <2>1. Values' BY <1>2, ValuesKept DEF Inv
  <2>2. slow' = slow BY <1>2 DEF Next
  <2>3. CASE Instruction
    BY <2>1, <2>2, <2>3, MainKeeps, AckKeeps, CriticalSectionKeeps, PinStepKeeps, MretKeeps,
       TimerCallbackKeeps, GpioCallbackKeeps, I2cHandlerKeeps DEF Instruction, Inv
  <2>4. CASE \E h \in Handler : TakeInterrupt(h) BY <2>1, <2>2, <2>4, InterruptKeeps DEF Inv
  <2>5. CASE TimerWraps \/ Edge \/ ByteEnds \/ WriteCycleEnds
    BY <2>1, <2>2, <2>5, TimerWrapsKeeps, EdgeKeeps, ByteEndsKeeps, WriteCycleEndsKeeps DEF Inv
  <2> QED BY <1>2, <2>3, <2>4, <2>5 DEF Next, Core
<1> QED BY <1>1, <1>2

\* The invariant holds in every state the program reaches.
THEOREM Invariant == Spec => []Inv
BY InitInv, NextInv, PTL DEF Spec

\* Registers and frames keep their types: the stack is never empty, main is at its
\* bottom and nowhere else.
THEOREM TypeCorrect == Spec => []TypeOK
<1>1. Inv => TypeOK
  <2> SUFFICES ASSUME Inv PROVE TypeOK OBVIOUS
  <2>1. Depth = Len(stack) BY DEF Depth
  <2>2. \A d \in 1 .. Len(stack) :
          /\ stack[d] \in FrameSet /\ (stack[d].h = "main") = (d = 1) /\ stack[d].mepc < d
    BY DEF Inv, Control, Saved
  <2>3. \A d \in 1 .. Len(stack) :
          /\ stack[d].h \in Handler \cup {"main"} /\ stack[d].pin \in Pin
          /\ stack[d].reg \subseteq Pin /\ stack[d].mstatus \in Status
    BY <2>2 DEF FrameSet
  <2>4. mepc \in Nat /\ mstatus \in Status /\ Len(stack) > 0 BY DEF Inv, Control, Registers
  <2> QED BY <2>1, <2>2, <2>3, <2>4 DEF TypeOK, Inv, Values
<1> QED BY <1>1, Invariant, PTL

\* Whatever interrupts a handler, and however deep, the mret at its end returns to
\* the frame it interrupted (NESTED_IRQ_CRITICAL_SECTION_ENTRY and _EXIT).
THEOREM ReturnsRight == Spec => []ReturnsToInterrupted
<1>1. Inv => ReturnsToInterrupted
  BY TopFrame DEF Inv, ReturnsToInterrupted, Registers
<1> QED BY <1>1, Invariant, PTL

\* Interrupts are enabled everywhere outside the entry and exit code.
THEOREM NeverLeftMasked == Spec => []InterruptsRestored
<1>1. Inv => InterruptsRestored
  <2> SUFFICES ASSUME Inv PROVE InterruptsRestored OBVIOUS
  <2>1. mstatus.MIE = (Top.pc \notin Masked) BY TopFrame DEF Inv, Registers
  <2>2. (Top.pc \notin Masked)
          = (Top.pc \notin DOMAIN After \cup {"clear", "mret"} \/ Top.pc = "disable")
    BY DEF Masked, After
  <2> QED BY <2>1, <2>2 DEF InterruptsRestored
<1> QED BY <1>1, Invariant, PTL

\* The handlers nest at most as deep as their devices allow, for any number of
\* edges and any length of the transfers.
THEOREM NestingBounded == Spec => []BoundedNesting
<1>1. ASSUME NEW S, \A d, e \in S : d = e PROVE Cardinality(S) <= 1
  <2>1. CASE S = {} BY <2>1, FS_EmptySet
  <2>2. CASE S # {}
    <3>1. PICK d : S = {d} BY <1>1, <2>2
    <3>2. Cardinality({d}) = 1 BY FS_Singleton
    <3> QED BY <3>1, <3>2
  <2> QED BY <2>1, <2>2
<1>2. Inv => BoundedNesting
  <2> SUFFICES ASSUME Inv PROVE BoundedNesting OBVIOUS
  <2>1. Cardinality(FramesOf("timer")) <= 1
    <3>1. \A d, e \in FramesOf("timer") : d = e BY DEF Inv, Sources, TimerOnce
    <3> QED BY <1>1, <3>1
  <2>2. Cardinality(FramesOf("gpio")) <= edges
    <3>1. /\ IsFiniteSet(FramesOf("gpio"))
          /\ Cardinality(FramesOf("gpio")) + (IF Unserved THEN 1 ELSE 0) <= edges
      BY DEF Inv, Sources, GpioPerEdge
    <3>2. Cardinality(FramesOf("gpio")) \in Nat /\ edges \in Nat
      BY <3>1, FS_CardinalityType, NestedAssumption DEF Inv, Values
    <3> QED BY <3>1, <3>2
  <2>3. slow => Cardinality(FramesOf("i2c")) <= 1
    <3>1. slow => \A d, e \in FramesOf("i2c") : d = e BY DEF Inv, Sources, I2cOnce
    <3> QED BY <1>1, <3>1
  <2> QED BY <2>1, <2>2, <2>3 DEF BoundedNesting
<1> QED BY <1>2, Invariant, PTL
==============================================================================
