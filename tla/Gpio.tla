-------------------------------- MODULE Gpio --------------------------------
(***************************************************************************)
(* The interrupts of the GPIO peripheral, clock by clock, the driver's     *)
(* interrupt handler, and the example test/gpio: two buttons, each of      *)
(* which makes main sweep the LEDs in its direction.                       *)
(*                                                                         *)
(* Every step is a clock.  In it the core may do one load or store, and    *)
(* the input pads may change.                                              *)
(***************************************************************************)
EXTENDS Naturals

CONSTANTS
  Leds,                \* LEDs in a sweep (5 in the example)
  MaxEdges             \* bound: falling edges of each button

ASSUME GpioAssumption == Leds \in Nat \ {0} /\ MaxEdges \in Nat

Button == {"right", "left"}

VARIABLES
  ext_pad_i,           \* buttons whose pad is high
  sync, ext_pad_s,     \* the synchroniser
  rgpio_in,            \* the inputs a clock later
  INTE, INTS,          \* buttons whose interrupt is enabled, and has occurred
  wb_inta_o,
  OUT,                 \* the LED that is lit, or 0
  Interrupt_Status,    \* in the driver's handle
  shift,               \* shift_right and shift_left: those that are 1
  main, handler,       \* where the programs are
  falls, reports,      \* falling edges, and callbacks, of each button
  owed,                \* buttons pressed and not yet followed by a sweep
  lost                 \* buttons whose last press was cleared before it was read

padVars == <<ext_pad_i, falls>>
inVars == <<sync, ext_pad_s, rgpio_in>>
vars == <<padVars, inVars, INTE, INTS, wb_inta_o, OUT, Interrupt_Status, shift,
          main, handler, reports, owed, lost>>

------------------------------------------------------------------------------
(***************************************************************************)
(* The peripheral.  PTRIG stays 0: falling edges interrupt.                *)
(***************************************************************************)
Edges == rgpio_in \ ext_pad_s

\* The pads change to any values.
Pads ==
  /\ ext_pad_i' \in SUBSET Button
  /\ falls' = [b \in Button |-> IF b \in ext_pad_i \ ext_pad_i' THEN falls[b] + 1 ELSE falls[b]]
  /\ \A b \in Button : falls'[b] <= MaxEdges

\* A write of INTS goes before an edge in the same clock.
Ints(clear) == IF clear THEN {} ELSE INTS \cup (Edges \cap INTE)

\* A later press of these buttons, or one in this clock, has not reached INTS.
Coming == (ext_pad_s \ sync) \cup (sync \ ext_pad_i) \cup (ext_pad_i \ ext_pad_i')

\* Presses that the store of 0 clears although the handler has not read them, unless
\* main still has the button's flag or another press of it follows.
Cleared(clear) ==
  IF clear THEN Ints(FALSE) \ (Interrupt_Status \cup shift \cup Coming) ELSE {}

\* A clock of the peripheral, in which the core may store 0 in INTS.
GpioClock(clear) ==
  /\ Pads
  /\ sync' = ext_pad_i /\ ext_pad_s' = sync /\ rgpio_in' = ext_pad_s
  /\ INTS' = Ints(clear)
  /\ wb_inta_o' = (INTS # {})
  /\ lost' = (lost \ (ext_pad_i \ ext_pad_i')) \cup Cleared(clear)

\* What a step of the core does to the presses that wait for a sweep of b.
Owed(served) == owed' = (owed \ served) \cup {b \in INTE : falls'[b] > falls[b]}

------------------------------------------------------------------------------
(***************************************************************************)
(* The interrupt handler: gpio_irq_handler and GPIO_EXTI_Callback.         *)
(***************************************************************************)
progVars == <<INTE, OUT, Interrupt_Status, shift, main, handler, reports>>

TakeInterrupt ==
  /\ wb_inta_o /\ handler = "idle" /\ handler' = "read"
  /\ GpioClock(FALSE) /\ Owed({})
  /\ UNCHANGED <<INTE, OUT, Interrupt_Status, shift, main, reports>>

HandlerRead ==
  /\ handler = "read" /\ handler' = "clear"
  /\ Interrupt_Status' = INTS
  /\ GpioClock(FALSE) /\ Owed({})
  /\ UNCHANGED <<INTE, OUT, shift, main, reports>>

\* Mutant: INTS is not cleared.
HandlerClear_No ==
  /\ handler = "clear" /\ handler' = "right"
  /\ GpioClock(FALSE) /\ Owed({})
  /\ UNCHANGED <<INTE, OUT, Interrupt_Status, shift, main, reports>>

HandlerClear ==
  /\ handler = "clear" /\ handler' = "right"
  /\ GpioClock(TRUE) /\ Owed({})
  /\ UNCHANGED <<INTE, OUT, Interrupt_Status, shift, main, reports>>

\* The callback tests one button, and then the other.
Callback ==
  /\ handler \in Button
  /\ handler' = IF handler = "right" THEN "left" ELSE "idle"
  /\ LET told == {handler} \cap Interrupt_Status IN
     /\ shift' = shift \cup told
     /\ reports' = [b \in Button |-> IF b \in told THEN reports[b] + 1 ELSE reports[b]]
  /\ GpioClock(FALSE) /\ Owed({})
  /\ UNCHANGED <<INTE, OUT, Interrupt_Status, main>>

------------------------------------------------------------------------------
(***************************************************************************)
(* main: it enables the interrupts and then loops.  main.for is the button *)
(* whose flag it tests or that it sweeps for.                              *)
(***************************************************************************)
At(pc, b, i) == [pc |-> pc, for |-> b, i |-> i]

\* The stores to OE and CTRL have no effect before the one to INTE.
MainInit ==
  /\ main.pc = "init" /\ main' = At("test", "right", 0)
  /\ INTE' = Button
  /\ UNCHANGED <<OUT, shift>> /\ Owed({})

\* shift_right is tested, and if it is 0, shift_left.
MainTest ==
  /\ main.pc = "test"
  /\ main' = IF main.for \in shift THEN At("clear", main.for, 0)
             ELSE At("test", IF main.for = "right" THEN "left" ELSE "right", 0)
  /\ UNCHANGED <<INTE, OUT, shift>> /\ Owed({})

MainClear ==
  /\ main.pc = "clear" /\ main' = At("sweep", main.for, 1)
  /\ shift' = shift \ {main.for}
  /\ UNCHANGED <<INTE, OUT>> /\ Owed({})

\* Mutant: the flag is reset after the sweep as well.
MainSweep_ResetsLate ==
  /\ main.pc = "sweep"
  /\ OUT' = IF main.for = "right" THEN main.i ELSE Leds + 1 - main.i
  /\ main' = IF main.i < Leds THEN At("sweep", main.for, main.i + 1) ELSE At("test", "right", 0)
  /\ shift' = IF main.i = Leds THEN shift \ {main.for} ELSE shift
  /\ Owed(IF main.i = 1 THEN {main.for} ELSE {}) /\ UNCHANGED INTE

MainSweep ==
  /\ main.pc = "sweep"
  /\ OUT' = IF main.for = "right" THEN main.i ELSE Leds + 1 - main.i
  /\ main' = IF main.i < Leds THEN At("sweep", main.for, main.i + 1) ELSE At("test", "right", 0)
  /\ Owed(IF main.i = 1 THEN {main.for} ELSE {})
  /\ UNCHANGED <<INTE, shift>>

MainStep ==
  /\ handler = "idle"
  /\ GpioClock(FALSE)
  /\ MainInit \/ MainTest \/ MainClear \/ MainSweep
  /\ UNCHANGED <<Interrupt_Status, handler, reports>>

HandlerStep == HandlerRead \/ HandlerClear \/ Callback

\* The core does something else.
OtherClock == GpioClock(FALSE) /\ Owed({}) /\ UNCHANGED progVars

Init ==
  /\ ext_pad_i \in SUBSET Button
  /\ sync = {} /\ ext_pad_s = {} /\ rgpio_in = {}
  /\ INTE = {} /\ INTS = {} /\ wb_inta_o = FALSE /\ OUT = 0
  /\ Interrupt_Status = {} /\ shift = {}
  /\ main = At("init", "right", 0) /\ handler = "idle"
  /\ falls = [b \in Button |-> 0] /\ reports = [b \in Button |-> 0] /\ owed = {} /\ lost = {}

Next == MainStep \/ TakeInterrupt \/ HandlerStep \/ OtherClock

Spec == Init /\ [][Next]_vars

\* The core executes its programs, and takes an interrupt that stays requested.
FairSpec == Spec /\ WF_vars(MainStep) /\ WF_vars(HandlerStep) /\ WF_vars(TakeInterrupt)

------------------------------------------------------------------------------
(***************************************************************************)
(* Properties.                                                             *)
(***************************************************************************)

\* The registers hold sets of buttons, the programs are at one of their steps.
TypeOK ==
  /\ {ext_pad_i, sync, ext_pad_s, rgpio_in, INTE, INTS} \subseteq SUBSET Button
  /\ {Interrupt_Status, shift, owed, lost} \subseteq SUBSET Button
  /\ wb_inta_o \in BOOLEAN /\ OUT \in 0 .. Leds
  /\ main \in [pc : {"init", "test", "clear", "sweep"}, for : Button, i : 0 .. Leds]
  /\ handler \in {"idle", "read", "clear", "right", "left"}
  /\ falls \in [Button -> 0 .. MaxEdges] /\ reports \in [Button -> Nat]

\* A press is reported to the program at most once, however the pads change while
\* gpio_irq_handler runs.
ReportedOnce == \A b \in Button : reports[b] <= falls[b]

\* A press is followed by a sweep that began after it: also one during a sweep, one
\* between the test of its flag and the reset, and two at once.  The exception is an
\* edge between the read of INTS and the store that clears it (or in the clock of that
\* store): gpio_irq_handler clears what it did not record.  That excuses the lost press
\* only: the next press of the button is owed a sweep again, and so is an earlier one.
Served == \A b \in Button : b \in owed ~> b \notin owed \/ b \in lost
==============================================================================
