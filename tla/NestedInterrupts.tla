-------------------------- MODULE NestedInterrupts --------------------------
(***************************************************************************)
(* The nested interrupt test (other_test/nested_interrupts).  The main     *)
(* program waits for the timer handler, which waits for the GPIO handler,  *)
(* which waits for the I2C handler; each enables interrupts again after it *)
(* has saved the registers of the core.  Every handler sets output pins    *)
(* with read-modify-writes.                                                *)
(*                                                                         *)
(* A step is an instruction or a register access of the frame on top of    *)
(* the stack, an interrupt, or an event of a peripheral.  An I2C transfer  *)
(* is a number of bytes, with an interrupt after each.  The data bytes in  *)
(* g_i2c_tx_buf are 1, 2, ..., and the address before them is one of a     *)
(* page of the EEPROM that holds nothing else.                             *)
(***************************************************************************)
EXTENDS Naturals, Sequences, FiniteSets

CONSTANTS
  AddressBytes,        \* bytes of g_i2c_tx_buf that are the address, and
  DataBytes,           \*   bytes that are data; size of g_i2c_rx_buf
  MaxEdges,            \* bound: edges on the GPIO pin (more than 1 if it bounces)
  MaxEdgesFast,        \* the same bound when the I2C bytes are fast
  MaxNested            \* bound: I2C handlers on the stack when the bytes are fast

ASSUME NestedAssumption ==
  /\ {AddressBytes, DataBytes} \subseteq Nat \ {0}
  /\ MaxEdges \in Nat /\ MaxEdgesFast \in 0 .. MaxEdges /\ MaxNested \in Nat

VARIABLES
  slow,                \* an I2C byte outlasts a run of the I2C handler
  stack,               \* frames: main, then the handlers that interrupted it
  mepc, mstatus,       \* mepc is the number of the frame to return to
  timer,               \* PIT: CNT_EN, ENA_INT, and the flag
  INTS, INTE, edges,   \* GPIO: is the pin's bit set, is it enabled; edges so far
  OE, OUT,             \* GPIO: pins enabled, pins set
  i2c,                 \* I2C: a byte under way, interrupt flag, interrupt enable,
                       \*   RXACK, receive register, and the handle: State, interrupts
                       \*   left, bytes received
  eeprom,              \* next cell, bytes of an unfinished page write, cells written,
                       \*   a write cycle under way
  ints,                \* the GPIO handle's copy of INTS
  g_ack

vars == <<slow, stack, mepc, mstatus, timer, INTS, INTE, edges, OE, OUT, i2c, eeprom, ints, g_ack>>

\* Interrupts of a transfer: after the control byte and after each byte.
TxBytes == 1 + AddressBytes + DataBytes
RxBytes == 1 + DataBytes

Pin == 0 .. 7
Handler == {"timer", "gpio", "i2c"}
Frame(h, pc) == [h |-> h, pc |-> pc, pin |-> 0, next |-> pc, reg |-> {},
                 mepc |-> 0, mstatus |-> [MIE |-> FALSE, MPIE |-> FALSE]]

------------------------------------------------------------------------------
(***************************************************************************)
(* Steps of the frame on top.  Goto leaves everything but its program      *)
(* counter to the step; Only says what else stays.                         *)
(***************************************************************************)
Depth == Len(stack)
Top == stack[Depth]
At(h, pc) == Top.h = h /\ Top.pc = pc
Goto(pc) == stack' = [stack EXCEPT ![Depth].pc = pc]

coreVars == <<mepc, mstatus>>
gpioVars == <<INTS, INTE, edges, OE, OUT>>
i2cVars == <<i2c, eeprom>>
progVars == <<ints, g_ack>>

\* OE |= pin and then OUT |= pin.
SetPin(pin, next) ==
  /\ stack' = [stack EXCEPT ![Depth] = [@ EXCEPT !.pc = "oeRead", !.pin = pin, !.next = next]]
  /\ UNCHANGED <<coreVars, timer, gpioVars, i2cVars>>

PinStep ==
  /\ \/ /\ Top.pc \in {"oeRead", "outRead"}
        /\ stack' = [stack EXCEPT ![Depth].reg = IF Top.pc = "oeRead" THEN OE ELSE OUT,
                                  ![Depth].pc = IF Top.pc = "oeRead" THEN "oeWrite" ELSE "outWrite"]
        /\ UNCHANGED <<OE, OUT>>
     \/ Top.pc = "oeWrite" /\ OE' = Top.reg \cup {Top.pin} /\ Goto("outRead") /\ UNCHANGED OUT
     \/ Top.pc = "outWrite" /\ OUT' = Top.reg \cup {Top.pin} /\ Goto(Top.next) /\ UNCHANGED OE
  /\ UNCHANGED <<coreVars, timer, INTS, INTE, edges, i2cVars, progVars>>

------------------------------------------------------------------------------
(***************************************************************************)
(* The core (external): an interrupt, and mret.  I2C goes before GPIO, and *)
(* GPIO before the timer.                                                  *)
(***************************************************************************)
Pending(h) ==
  CASE h = "timer" -> timer.ENA_INT /\ timer.flag
    [] h = "gpio"  -> INTS
    [] h = "i2c"   -> i2c.IEN /\ i2c.flag

TakeInterrupt(h) ==
  /\ mstatus.MIE /\ Pending(h)
  /\ h # "i2c" => ~Pending("i2c")
  /\ h = "timer" => ~Pending("gpio")
  /\ mepc' = Depth /\ mstatus' = [MIE |-> FALSE, MPIE |-> mstatus.MIE]
  /\ stack' = Append(stack, Frame(h, "ack"))
  /\ UNCHANGED <<timer, gpioVars, i2cVars, progVars>>

\* The frame that is resumed must be the one below; ReturnsToInterrupted says so.
Mret ==
  /\ Top.pc = "mret"
  /\ stack' = SubSeq(stack, 1, Depth - 1)
  /\ mstatus' = [MIE |-> mstatus.MPIE, MPIE |-> TRUE]
  /\ UNCHANGED <<mepc, timer, gpioVars, i2cVars, progVars>>

(***************************************************************************)
(* What each handler does around its callback, in this order.              *)
(***************************************************************************)
\* Mutant: interrupts are enabled before the status is saved.
After_EnableFirst ==
  [ack |-> "enable", enable |-> "saveMepc", saveMepc |-> "saveMstatus", saveMstatus |-> "body",
   disable |-> "restoreMstatus", restoreMstatus |-> "restoreMepc", restoreMepc |-> "mret"]

\* Mutant: interrupts stay disabled.
After_NoEnable ==
  [ack |-> "saveMepc", saveMepc |-> "saveMstatus", saveMstatus |-> "body", enable |-> "body",
   disable |-> "restoreMstatus", restoreMstatus |-> "restoreMepc", restoreMepc |-> "mret"]

After ==
  [ack |-> "saveMepc", saveMepc |-> "saveMstatus", saveMstatus |-> "enable", enable |-> "body",
   disable |-> "restoreMstatus", restoreMstatus |-> "restoreMepc", restoreMepc |-> "mret"]

\* Mutant: the timer is acknowledged and its interrupt stays enabled.
AckTimer_FlagOnly == timer' = [timer EXCEPT !.flag = FALSE]

\* TIMER_ACK_INT_AND_DISABLE_IRQ.
AckTimer == timer' = [timer EXCEPT !.ENA_INT = FALSE, !.flag = FALSE]

\* The first step of the handlers; GPIO_ACK_INT_AND_SAVE_INTS takes two.
Ack ==
  \/ /\ At("timer", "ack") /\ Goto(After.ack) /\ AckTimer
     /\ UNCHANGED <<coreVars, gpioVars, i2cVars, progVars>>
  \/ /\ At("i2c", "ack") /\ Goto(After.ack)
     /\ i2c' = [i2c EXCEPT !.flag = FALSE]
     /\ UNCHANGED <<coreVars, timer, gpioVars, eeprom, progVars>>
  \/ /\ At("gpio", "ack") /\ Goto("clear") /\ ints' = INTS
     /\ UNCHANGED <<coreVars, timer, gpioVars, i2cVars, g_ack>>
  \/ /\ At("gpio", "clear") /\ Goto(After.ack) /\ INTS' = FALSE
     /\ UNCHANGED <<coreVars, timer, INTE, edges, OE, OUT, i2cVars, progVars>>

CriticalSection ==
  /\ Top.pc \in DOMAIN After \ {"ack"}
  /\ LET to == After[Top.pc] IN
     CASE Top.pc = "saveMepc" ->
            stack' = [stack EXCEPT ![Depth].mepc = mepc, ![Depth].pc = to] /\ UNCHANGED coreVars
       [] Top.pc = "saveMstatus" ->
            stack' = [stack EXCEPT ![Depth].mstatus = mstatus, ![Depth].pc = to] /\ UNCHANGED coreVars
       [] Top.pc = "enable" -> mstatus' = [mstatus EXCEPT !.MIE = TRUE] /\ Goto(to) /\ UNCHANGED mepc
       [] Top.pc = "disable" -> mstatus' = [mstatus EXCEPT !.MIE = FALSE] /\ Goto(to) /\ UNCHANGED mepc
       [] Top.pc = "restoreMstatus" -> mstatus' = Top.mstatus /\ Goto(to) /\ UNCHANGED mepc
       [] Top.pc = "restoreMepc" -> mepc' = Top.mepc /\ Goto(to) /\ UNCHANGED mstatus
  /\ UNCHANGED <<timer, gpioVars, i2cVars, progVars>>

------------------------------------------------------------------------------
(***************************************************************************)
(* main.                                                                   *)
(***************************************************************************)
Main ==
  \/ /\ At("main", "gpioOn") /\ Goto("timerOn") /\ INTE' = TRUE
     /\ UNCHANGED <<coreVars, timer, INTS, edges, OE, OUT, i2cVars, progVars>>
  \/ /\ At("main", "timerOn") /\ Goto("wait")
     /\ timer' = [timer EXCEPT !.CNT_EN = TRUE, !.ENA_INT = TRUE]
     /\ UNCHANGED <<coreVars, gpioVars, i2cVars, progVars>>
  \/ At("main", "wait") /\ g_ack.timer /\ SetPin(7, "sleep") /\ UNCHANGED progVars

(***************************************************************************)
(* timer_irq_handler_callback.                                             *)
(***************************************************************************)
TimerCallback ==
  \/ /\ At("timer", "body") /\ Goto("wait")
     /\ timer' = [CNT_EN |-> FALSE, ENA_INT |-> FALSE, flag |-> FALSE]
     /\ UNCHANGED <<coreVars, gpioVars, i2cVars, progVars>>
  \/ /\ At("timer", "wait") /\ g_ack.gpio
     /\ g_ack' = [g_ack EXCEPT !.timer = TRUE] /\ SetPin(6, "disable") /\ UNCHANGED ints

(***************************************************************************)
(* gpio_irq_handler_callback.                                              *)
(***************************************************************************)
\* i2c_master_tx_it and i2c_master_rx_it: refused unless READY.
StartTransfer(state, bytes) ==
  /\ i2c' = IF i2c.State = "READY"
            THEN [i2c EXCEPT !.busy = TRUE, !.IEN = TRUE,
                             !.State = state, !.left = bytes, !.data = <<>>]
            ELSE i2c
  /\ UNCHANGED eeprom

\* The GPIO callback leaves its loop.
BothDone == g_ack.i2c_tx \/ g_ack.i2c_rx

GpioCallback ==
  \/ /\ At("gpio", "body") /\ Goto(IF ints THEN "acknowledge" ELSE "disable")
     /\ UNCHANGED <<coreVars, timer, gpioVars, i2cVars, progVars>>
  \/ /\ At("gpio", "acknowledge") /\ Goto("inte")
     /\ ints' = FALSE /\ g_ack' = [g_ack EXCEPT !.gpio = TRUE]
     /\ UNCHANGED <<coreVars, timer, gpioVars, i2cVars>>
  \/ /\ At("gpio", "inte") /\ Goto("oe") /\ INTE' = FALSE
     /\ UNCHANGED <<coreVars, timer, INTS, edges, OE, OUT, i2cVars, progVars>>
  \/ /\ At("gpio", "oe") /\ Goto("out") /\ OE' = {0}
     /\ UNCHANGED <<coreVars, timer, INTS, INTE, edges, OUT, i2cVars, progVars>>
  \/ /\ At("gpio", "out") /\ Goto("transmit") /\ OUT' = {0}
     /\ UNCHANGED <<coreVars, timer, INTS, INTE, edges, OE, i2cVars, progVars>>
  \/ /\ At("gpio", "transmit") /\ Goto("called") /\ StartTransfer("BUSY_TX_IT", TxBytes)
     /\ UNCHANGED <<coreVars, timer, gpioVars, progVars>>
  \/ At("gpio", "called") /\ SetPin(1, "wait") /\ UNCHANGED progVars
  \/ At("gpio", "wait") /\ BothDone /\ SetPin(5, "disable") /\ UNCHANGED progVars

(***************************************************************************)
(* i2c_irq_handler, which acknowledges again, and the callbacks.  The      *)
(* transmit callback sends the address in a blocking transfer, which ends  *)
(* with another acknowledge, and starts the reception.  At the end of the  *)
(* reception the master is given a STOP and is busy with it; nobody        *)
(* acknowledges that one.                                                  *)
(***************************************************************************)
\* The byte under way, or the last one, is the control byte of the transfer.
ControlByte == i2c.left = (IF i2c.State = "BUSY_TX_IT" THEN TxBytes ELSE RxBytes)

I2cSequence ==
  /\ At("i2c", "body")
  /\ LET acked == [i2c EXCEPT !.flag = FALSE,
                              !.data = IF i2c.State = "BUSY_RX_IT" /\ ~ControlByte
                                       THEN Append(@, i2c.rx) ELSE @]
         refused == ControlByte /\ i2c.nack IN
     \/ /\ i2c.State # "READY" /\ refused
        /\ i2c' = [acked EXCEPT !.busy = TRUE] /\ Goto("disable")
     \/ /\ i2c.State # "READY" /\ ~refused /\ i2c.left > 1
        /\ i2c' = [acked EXCEPT !.busy = TRUE, !.left = @ - 1] /\ Goto("disable")
     \/ /\ i2c.State # "READY" /\ ~refused /\ i2c.left = 1
        /\ i2c' = [acked EXCEPT !.State = "READY", !.IEN = FALSE, !.left = 0,
                               !.busy = (i2c.State = "BUSY_RX_IT")]
        /\ Goto(IF i2c.State = "BUSY_TX_IT" THEN "txCplt" ELSE "rxCplt")
     \/ i2c.State = "READY" /\ i2c' = acked /\ Goto("disable")
  /\ UNCHANGED <<coreVars, timer, gpioVars, eeprom, progVars>>

\* Mutant: an address that is refused is not sent again.
SetAddress_Once ==
  IF i2c.State = "READY"
  THEN /\ i2c' = [i2c EXCEPT !.flag = FALSE, !.nack = eeprom.writing]
       /\ eeprom' = IF eeprom.writing THEN eeprom ELSE [eeprom EXCEPT !.ptr = 1]
  ELSE UNCHANGED i2cVars

\* i2c_master_tx with the address only: it sends the control byte until the EEPROM
\* acknowledges, which it does not during a write cycle.
SetAddress ==
  IF i2c.State = "READY"
  THEN /\ ~eeprom.writing
       /\ i2c' = [i2c EXCEPT !.flag = FALSE, !.nack = FALSE]
       /\ eeprom' = [eeprom EXCEPT !.ptr = 1]
  ELSE UNCHANGED i2cVars

\* The loop over the two buffers finds no difference; where it does, it stalls.
Matching == i2c.data = [i \in 1 .. DataBytes |-> i]

I2cCallbacks ==
  \/ /\ At("i2c", "txCplt")
     /\ g_ack' = [g_ack EXCEPT !.i2c_tx = TRUE] /\ SetPin(2, "address") /\ UNCHANGED ints
  \/ /\ At("i2c", "address") /\ Goto("receive") /\ SetAddress
     /\ UNCHANGED <<coreVars, timer, gpioVars, progVars>>
  \/ /\ At("i2c", "receive") /\ Goto("disable") /\ StartTransfer("BUSY_RX_IT", RxBytes)
     /\ UNCHANGED <<coreVars, timer, gpioVars, progVars>>
  \/ /\ At("i2c", "rxCplt")
     /\ g_ack' = [g_ack EXCEPT !.i2c_rx = TRUE] /\ SetPin(3, "matching") /\ UNCHANGED ints
  \/ At("i2c", "matching") /\ Matching /\ SetPin(4, "disable") /\ UNCHANGED progVars

Instruction ==
  \/ Main \/ Ack \/ CriticalSection \/ PinStep \/ Mret
  \/ TimerCallback \/ GpioCallback \/ I2cSequence \/ I2cCallbacks

------------------------------------------------------------------------------
(***************************************************************************)
(* The peripherals.                                                        *)
(***************************************************************************)
TimerWraps ==
  /\ timer.CNT_EN /\ timer' = [timer EXCEPT !.flag = TRUE]
  /\ UNCHANGED <<stack, coreVars, gpioVars, i2cVars, progVars>>

\* The edge is recorded only while the pin's interrupt is enabled.
Edge ==
  /\ edges < (IF slow THEN MaxEdges ELSE MaxEdgesFast) /\ INTE
  /\ INTS' = TRUE /\ edges' = edges + 1
  /\ UNCHANGED <<stack, coreVars, timer, INTE, OE, OUT, i2cVars, progVars>>

FramesOf(h) == {d \in 1 .. Depth : stack[d].h = h}

\* Byte b of a transmission; with the last one comes the STOP that starts the write.
EepromTakes(b) ==
  LET page == Append(eeprom.page, b - AddressBytes) IN
  eeprom' = IF b <= AddressBytes THEN [eeprom EXCEPT !.ptr = 1, !.page = <<>>]
            ELSE IF b < TxBytes - 1 THEN [eeprom EXCEPT !.ptr = @ + 1, !.page = page]
            ELSE [ptr |-> eeprom.ptr + 1, page |-> <<>>, mem |-> page, writing |-> TRUE]

Cell(a) == IF a \in DOMAIN eeprom.mem THEN eeprom.mem[a] ELSE 0

\* At 400 kHz a byte takes far longer than the I2C handler, unless that waits for the
\* EEPROM, and than an interrupt waits to be taken.  The master acknowledges the bytes
\* it receives but the last.  READY is the STOP after a reception.
ByteEnds ==
  /\ i2c.busy
  /\ slow => FramesOf("i2c") = {} /\ ~Pending("gpio")
  /\ ~slow => Cardinality(FramesOf("i2c")) < MaxNested
  /\ LET ended == [i2c EXCEPT !.busy = FALSE, !.flag = TRUE] IN
     \/ i2c.State = "READY" /\ i2c' = ended /\ UNCHANGED eeprom
     \/ /\ i2c.State # "READY" /\ ControlByte
        /\ i2c' = [ended EXCEPT !.nack = eeprom.writing] /\ UNCHANGED eeprom
     \/ /\ i2c.State = "BUSY_TX_IT" /\ ~ControlByte
        /\ i2c' = [ended EXCEPT !.nack = FALSE] /\ EepromTakes(TxBytes - i2c.left)
     \/ /\ i2c.State = "BUSY_RX_IT" /\ ~ControlByte
        /\ i2c' = [ended EXCEPT !.nack = (i2c.left = 1), !.rx = Cell(eeprom.ptr)]
        /\ eeprom' = [eeprom EXCEPT !.ptr = @ + 1]
  /\ UNCHANGED <<stack, coreVars, timer, gpioVars, progVars>>

WriteCycleEnds ==
  /\ eeprom.writing /\ eeprom' = [eeprom EXCEPT !.writing = FALSE]
  /\ UNCHANGED <<stack, coreVars, timer, gpioVars, i2c, progVars>>

Init ==
  /\ slow \in BOOLEAN
  /\ stack = <<Frame("main", "gpioOn")>>
  /\ mepc = 0 /\ mstatus = [MIE |-> TRUE, MPIE |-> FALSE]
  /\ timer = [CNT_EN |-> FALSE, ENA_INT |-> FALSE, flag |-> FALSE]
  /\ INTS = FALSE /\ INTE = FALSE /\ edges = 0 /\ OE = {} /\ OUT = {}
  /\ i2c = [busy |-> FALSE, flag |-> FALSE, IEN |-> FALSE, nack |-> FALSE, rx |-> 0,
            State |-> "READY", left |-> 0, data |-> <<>>]
  /\ eeprom \in [ptr : {0}, page : {<<>>}, mem : {<<>>}, writing : BOOLEAN]
  /\ ints = FALSE
  /\ g_ack = [timer |-> FALSE, gpio |-> FALSE, i2c_tx |-> FALSE, i2c_rx |-> FALSE]

Core == Instruction \/ \E h \in Handler : TakeInterrupt(h)

Next == (Core \/ TimerWraps \/ Edge \/ ByteEnds \/ WriteCycleEnds) /\ UNCHANGED slow

Spec == Init /\ [][Next]_vars

\* The core runs, an interrupt that stays pending is taken although main and the
\* handlers loop, the counter, the I2C byte and the write cycle end, and somebody
\* presses the button once.
FairSpec ==
  /\ Spec /\ WF_vars(UNCHANGED slow /\ Core) /\ WF_vars(UNCHANGED slow /\ TimerWraps)
  /\ WF_vars(UNCHANGED slow /\ ByteEnds) /\ WF_vars(UNCHANGED slow /\ WriteCycleEnds)
  /\ WF_vars(UNCHANGED slow /\ edges = 0 /\ Edge)

------------------------------------------------------------------------------
(***************************************************************************)
(* Properties.                                                             *)
(***************************************************************************)
Status == [MIE : BOOLEAN, MPIE : BOOLEAN]
Master == [busy : BOOLEAN, flag : BOOLEAN, IEN : BOOLEAN, nack : BOOLEAN, rx : Nat,
           State : {"READY", "BUSY_TX_IT", "BUSY_RX_IT"}, left : 0 .. (TxBytes + RxBytes),
           data : Seq(Nat)]
Eeprom == [ptr : Nat, page : Seq(Nat), mem : Seq(Nat), writing : BOOLEAN]

\* Registers and frames hold what they can.
TypeOK ==
  /\ Depth > 0
  /\ \A d \in 1 .. Depth :
       /\ (stack[d].h = "main") = (d = 1) /\ stack[d].h \in Handler \cup {"main"}
       /\ stack[d].pin \in Pin /\ stack[d].reg \subseteq Pin
       /\ stack[d].mepc < d /\ stack[d].mstatus \in Status
  /\ mepc \in Nat /\ mstatus \in Status
  /\ timer \in [CNT_EN : BOOLEAN, ENA_INT : BOOLEAN, flag : BOOLEAN]
  /\ slow \in BOOLEAN /\ INTS \in BOOLEAN /\ INTE \in BOOLEAN /\ edges \in 0 .. MaxEdges
  /\ OE \subseteq Pin /\ OUT \subseteq Pin
  /\ i2c \in Master /\ eeprom \in Eeprom
  /\ ints \in BOOLEAN
  /\ g_ack \in [timer : BOOLEAN, gpio : BOOLEAN, i2c_tx : BOOLEAN, i2c_rx : BOOLEAN]

\* A handler that executes mret returns to the frame it interrupted, whatever
\* interrupted it (the order in NESTED_IRQ_CRITICAL_SECTION_ENTRY and _EXIT).
ReturnsToInterrupted == Top.pc = "mret" => mepc = Depth - 1

\* Outside the entry and exit of the handlers interrupts are enabled: every
\* interrupt can nest, and none stays masked after a handler that nested.
InterruptsRestored ==
  mstatus.MIE = (Top.pc \notin DOMAIN After \cup {"clear", "mret"} \/ Top.pc = "disable")

\* The stack is bounded: the timer does not interrupt its own handler, the GPIO
\* handler nests at most once for each edge, and the I2C handler does not nest when
\* a byte outlasts it.
BoundedNesting ==
  /\ Cardinality(FramesOf("timer")) <= 1
  /\ Cardinality(FramesOf("gpio")) <= edges
  /\ slow => Cardinality(FramesOf("i2c")) <= 1

\* The timer handler waits for a GPIO handler that it has interrupted.
WaitsForever ==
  ~g_ack.gpio /\ \E d \in FramesOf("gpio"), e \in FramesOf("timer") : d < e

\* The frame on top sets a pin in OE or OUT, and a frame it has interrupted will write
\* that register without having seen it.
LosesPin ==
  /\ Top.pc \in {"oeWrite", "outWrite"}
  /\ \E d \in 1 .. Depth - 1 :
       stack[d].pc \in {Top.pc, "inte"} \cup (IF Top.pc = "oeWrite" THEN {"oe"} ELSE {"oe", "out"})

\* Whenever the button is pressed, all handlers return, main sleeps, what was read
\* from the EEPROM is what was written, and the eight pins are on, for good; unless
\* the timer handler waits for ever, a pin is lost because a handler interrupted a
\* change of OE or OUT, or the pin has a second edge before the callback disables its
\* interrupt.  Bytes are slow.
Finished == Depth = 1 /\ Top.pc = "sleep" /\ OE = Pin /\ OUT = Pin /\ g_ack.i2c_rx
Finishes == slow => <>([]Finished \/ WaitsForever \/ LosesPin \/ edges > 1)
==============================================================================
