----------------------------- MODULE GpioProofs -----------------------------
(***************************************************************************)
(* Proofs about the GPIO peripheral and its driver: types, and that no     *)
(* press is reported twice, for any number of LEDs and of edges.           *)
(***************************************************************************)
EXTENDS Gpio, TLAPS

------------------------------------------------------------------------------
(***************************************************************************)
(* Where the presses of a button are that have not been reported: on their *)
(* way through the synchroniser, one per stage; in INTS; and in the        *)
(* driver's copy of it, from the store that clears INTS to the callback.   *)
(* Between the read of INTS and that store a press is in both, and counts  *)
(* once: the copy then holds nothing that INTS does not.                   *)
(***************************************************************************)
One(P) == IF P THEN 1 ELSE 0

Arriving(b) ==
  One(b \in sync \ ext_pad_i) + One(b \in ext_pad_s \ sync) + One(b \in rgpio_in \ ext_pad_s)

ToReport(b) ==
  One(b \in Interrupt_Status /\ (handler = "right" \/ (handler = "left" /\ b = "left")))

Accounted ==
  \A b \in Button : reports[b] + ToReport(b) + One(b \in INTS) + Arriving(b) <= falls[b]

CopyIsOld == handler = "clear" => Interrupt_Status \subseteq INTS

\* A sweep starts at the first LED.
SweepFromOne == main.pc = "sweep" => main.i >= 1

PressInv == TypeOK /\ SweepFromOne /\ CopyIsOld /\ Accounted

------------------------------------------------------------------------------
(***************************************************************************)
(* What a clock of the peripheral does.                                    *)
(***************************************************************************)

\* The registers and the presses that are owed keep their types, whatever the core
\* stores in INTE.
LEMMA ClockTypes ==
  ASSUME TypeOK, NEW clear \in BOOLEAN, GpioClock(clear), NEW served, Owed(served)
  PROVE  /\ {ext_pad_i, sync, ext_pad_s, rgpio_in, INTS}' \subseteq SUBSET Button
         /\ {owed, lost}' \subseteq SUBSET Button
         /\ wb_inta_o' \in BOOLEAN
         /\ falls' \in [Button -> 0 .. MaxEdges]
<1> USE DEF TypeOK
<1>1. {ext_pad_i, sync, ext_pad_s, rgpio_in}' \subseteq SUBSET Button BY DEF GpioClock, Pads
<1>2. INTS' \subseteq Button /\ lost' \subseteq Button BY DEF GpioClock, Ints, Edges, Cleared
<1>3. owed' \subseteq Button BY DEF Owed
<1>4. wb_inta_o' \in BOOLEAN BY DEF GpioClock
<1>5. falls' \in [Button -> 0 .. MaxEdges]
  <2>1. \A b \in Button : falls[b] \in Nat BY GpioAssumption
  <2>2. falls' = [b \in Button |-> falls'[b]] BY DEF GpioClock, Pads
  <2>3. \A b \in Button : falls'[b] \in Nat /\ falls'[b] <= MaxEdges
    BY <2>1 DEF GpioClock, Pads
  <2>4. \A b \in Button : falls'[b] \in 0 .. MaxEdges BY <2>3, GpioAssumption
  <2> QED BY <2>2, <2>4
<1> QED BY <1>1, <1>2, <1>3, <1>4, <1>5

\* A press moves one stage; one that leaves the synchroniser is in INTS afterwards,
\* or gone.
LEMMA ClockMoves ==
  ASSUME TypeOK, NEW clear \in BOOLEAN, GpioClock(clear), NEW b \in Button
  PROVE  /\ Arriving(b) \in Nat /\ Arriving(b)' \in Nat
         /\ falls[b] \in Nat /\ falls'[b] \in Nat
         /\ One(b \in INTS)' + Arriving(b)' - falls'[b] <= One(b \in INTS) + Arriving(b) - falls[b]
         /\ clear => One(b \in INTS)' = 0 /\ Arriving(b)' - falls'[b] <= Arriving(b) - falls[b]
<1> DEFINE e == One(b \in Edges)
<1> DEFINE n == One(b \in ext_pad_i \ ext_pad_i')
<1>1. falls[b] \in Nat /\ falls'[b] = falls[b] + n
  BY GpioAssumption DEF TypeOK, GpioClock, Pads, One
<1>2. e \in 0 .. 1 /\ n \in 0 .. 1 BY DEF One
<1>3. Arriving(b)' + e = Arriving(b) + n
  BY DEF GpioClock, Arriving, One, Edges
<1>4. Arriving(b) \in Nat /\ Arriving(b)' \in Nat BY DEF Arriving, One
<1>5. One(b \in INTS)' <= One(b \in INTS) + e BY DEF GpioClock, Ints, One
<1>6. clear => One(b \in INTS)' = 0 BY DEF GpioClock, Ints, One
<1>7. One(b \in INTS) \in 0 .. 1 /\ One(b \in INTS)' \in 0 .. 1 BY DEF One
<1> HIDE DEF e, n
<1> QED BY <1>1, <1>2, <1>3, <1>4, <1>5, <1>6, <1>7

\* A clock in which nothing is reported keeps the account.
LEMMA QuietClock ==
  ASSUME TypeOK, Accounted, GpioClock(FALSE), reports' = reports,
         \A b \in Button : ToReport(b)' <= ToReport(b)
  PROVE  Accounted'
<1> SUFFICES ASSUME NEW b \in Button
             PROVE  reports'[b] + ToReport(b)' + One(b \in INTS)' + Arriving(b)' <= falls'[b]
  BY DEF Accounted
<1>1. /\ Arriving(b) \in Nat /\ Arriving(b)' \in Nat
      /\ falls[b] \in Nat /\ falls'[b] \in Nat
      /\ One(b \in INTS)' + Arriving(b)' - falls'[b] <= One(b \in INTS) + Arriving(b) - falls[b]
  BY ClockMoves
<1>2. reports[b] \in Nat /\ reports'[b] = reports[b] BY DEF TypeOK
<1>3. reports[b] + ToReport(b) + One(b \in INTS) + Arriving(b) <= falls[b] BY DEF Accounted
<1>4. /\ One(b \in INTS) \in 0 .. 1 /\ One(b \in INTS)' \in 0 .. 1
      /\ ToReport(b) \in 0 .. 1 /\ ToReport(b)' \in 0 .. 1
  BY DEF One, ToReport
<1>5. ToReport(b)' <= ToReport(b) OBVIOUS
<1> QED BY <1>1, <1>2, <1>3, <1>4, <1>5

\* So does the one that clears INTS, if only presses that were in INTS wait for a
\* callback afterwards.
LEMMA ClearingClock ==
  ASSUME TypeOK, Accounted, GpioClock(TRUE), reports' = reports,
         \A b \in Button : ToReport(b)' <= ToReport(b) + One(b \in INTS)
  PROVE  Accounted'
<1> SUFFICES ASSUME NEW b \in Button
             PROVE  reports'[b] + ToReport(b)' + One(b \in INTS)' + Arriving(b)' <= falls'[b]
  BY DEF Accounted
<1>1. /\ Arriving(b) \in Nat /\ Arriving(b)' \in Nat
      /\ falls[b] \in Nat /\ falls'[b] \in Nat
      /\ One(b \in INTS)' = 0 /\ Arriving(b)' - falls'[b] <= Arriving(b) - falls[b]
  BY ClockMoves
<1>2. reports[b] \in Nat /\ reports'[b] = reports[b] BY DEF TypeOK
<1>3. reports[b] + ToReport(b) + One(b \in INTS) + Arriving(b) <= falls[b] BY DEF Accounted
<1>4. /\ One(b \in INTS) \in 0 .. 1
      /\ ToReport(b) \in 0 .. 1 /\ ToReport(b)' \in 0 .. 1
  BY DEF One, ToReport
<1>5. ToReport(b)' <= ToReport(b) + One(b \in INTS) OBVIOUS
<1> QED BY <1>1, <1>2, <1>3, <1>4, <1>5

------------------------------------------------------------------------------
(***************************************************************************)
(* The steps.                                                              *)
(***************************************************************************)

\* The steps of gpio_irq_handler, and clocks in which the core does something else.
LEMMA HandlerKeeps ==
  ASSUME PressInv, TakeInterrupt \/ HandlerRead \/ HandlerClear \/ OtherClock
  PROVE  PressInv'
<1>0. TypeOK /\ Accounted /\ CopyIsOld /\ SweepFromOne BY DEF PressInv
<1>1. CASE TakeInterrupt
  <2>1. GpioClock(FALSE) /\ Owed({}) BY <1>1 DEF TakeInterrupt
  <2>2. TypeOK' BY <1>0, <1>1, <2>1, ClockTypes DEF TypeOK, TakeInterrupt
  <2>3. \A b \in Button : ToReport(b)' <= ToReport(b)
    BY <1>1 DEF TakeInterrupt, ToReport, One
  <2>4. Accounted' BY <1>0, <1>1, <2>1, <2>3, QuietClock DEF TakeInterrupt
  <2> QED BY <1>0, <1>1, <2>2, <2>4 DEF PressInv, CopyIsOld, SweepFromOne, TakeInterrupt
<1>2. CASE HandlerRead
  <2>1. GpioClock(FALSE) /\ Owed({}) BY <1>2 DEF HandlerRead
  <2>2. TypeOK' BY <1>0, <1>2, <2>1, ClockTypes DEF TypeOK, HandlerRead
  <2>3. \A b \in Button : ToReport(b)' <= ToReport(b)
    BY <1>2 DEF HandlerRead, ToReport, One
  <2>4. Accounted' BY <1>0, <1>2, <2>1, <2>3, QuietClock DEF HandlerRead
  <2>5. CopyIsOld' BY <1>2, <2>1 DEF HandlerRead, GpioClock, Ints, CopyIsOld
  <2> QED BY <1>0, <1>2, <2>2, <2>4, <2>5 DEF PressInv, SweepFromOne, HandlerRead
<1>3. CASE HandlerClear
  <2>1. GpioClock(TRUE) /\ Owed({}) BY <1>3 DEF HandlerClear
  <2>2. TypeOK' BY <1>0, <1>3, <2>1, ClockTypes DEF TypeOK, HandlerClear
  <2>3. \A b \in Button : ToReport(b)' <= ToReport(b) + One(b \in INTS)
    BY <1>0, <1>3 DEF HandlerClear, ToReport, One, CopyIsOld
  <2>4. Accounted' BY <1>0, <1>3, <2>1, <2>3, ClearingClock DEF HandlerClear
  <2> QED BY <1>0, <1>3, <2>2, <2>4 DEF PressInv, CopyIsOld, SweepFromOne, HandlerClear
<1>4. CASE OtherClock
  <2>1. GpioClock(FALSE) /\ Owed({}) BY <1>4 DEF OtherClock
  <2>2. TypeOK' BY <1>0, <1>4, <2>1, ClockTypes DEF TypeOK, OtherClock, progVars
  <2>3. \A b \in Button : ToReport(b)' <= ToReport(b)
    BY <1>4 DEF OtherClock, progVars, ToReport, One
  <2>4. Accounted' BY <1>0, <1>4, <2>1, <2>3, QuietClock DEF OtherClock, progVars
  <2>5. CopyIsOld' BY <1>0, <1>4, <2>1 DEF OtherClock, progVars, GpioClock, Ints, CopyIsOld
  <2> QED BY <1>0, <1>4, <2>2, <2>4, <2>5 DEF PressInv, SweepFromOne, OtherClock, progVars
<1> QED BY <1>1, <1>2, <1>3, <1>4

\* A callback turns a press that waits for it into a report.
LEMMA CallbackKeeps ==
  ASSUME PressInv, Callback
  PROVE  PressInv'
<1>0. TypeOK /\ Accounted /\ SweepFromOne BY DEF PressInv
<1>1. GpioClock(FALSE) /\ Owed({}) BY DEF Callback
<1>2. reports' \in [Button -> Nat] BY <1>0 DEF TypeOK, Callback
<1>3. TypeOK'
  <2>1. /\ {ext_pad_i, sync, ext_pad_s, rgpio_in, INTS}' \subseteq SUBSET Button
        /\ {owed, lost}' \subseteq SUBSET Button
        /\ wb_inta_o' \in BOOLEAN
        /\ falls' \in [Button -> 0 .. MaxEdges]
    BY <1>0, <1>1, ClockTypes
  <2>2. handler' \in {"idle", "read", "clear", "right", "left"} BY DEF Callback
  <2>3. shift' \subseteq Button
    <3>1. shift \subseteq Button BY <1>0 DEF TypeOK
    <3> QED BY <3>1 DEF Callback
  <2>4. UNCHANGED <<INTE, OUT, Interrupt_Status, main>> BY DEF Callback
  <2> QED BY <1>0, <1>2, <2>1, <2>2, <2>3, <2>4 DEF TypeOK
<1>4. Accounted'
  <2> SUFFICES ASSUME NEW b \in Button
               PROVE  reports'[b] + ToReport(b)' + One(b \in INTS)' + Arriving(b)' <= falls'[b]
    BY DEF Accounted
  <2>1. /\ Arriving(b) \in Nat /\ Arriving(b)' \in Nat
        /\ falls[b] \in Nat /\ falls'[b] \in Nat
        /\ One(b \in INTS)' + Arriving(b)' - falls'[b] <= One(b \in INTS) + Arriving(b) - falls[b]
    BY <1>0, <1>1, ClockMoves
  <2>2. reports'[b] + ToReport(b)' = reports[b] + ToReport(b)
    BY <1>0 DEF TypeOK, Callback, ToReport, One, Button
  <2>3. reports[b] \in Nat /\ reports'[b] \in Nat BY <1>0, <1>2 DEF TypeOK
  <2>4. reports[b] + ToReport(b) + One(b \in INTS) + Arriving(b) <= falls[b]
    BY <1>0 DEF Accounted
  <2>5. /\ One(b \in INTS) \in 0 .. 1 /\ One(b \in INTS)' \in 0 .. 1
        /\ ToReport(b) \in 0 .. 1 /\ ToReport(b)' \in 0 .. 1
    BY DEF One, ToReport
  <2> QED BY <2>1, <2>2, <2>3, <2>4, <2>5
<1>5. CopyIsOld' BY DEF Callback, CopyIsOld, Button
<1>6. SweepFromOne' BY <1>0 DEF SweepFromOne, Callback
<1> QED BY <1>3, <1>4, <1>5, <1>6 DEF PressInv

\* main runs while the handler does not, and reports nothing.
LEMMA MainKeeps ==
  ASSUME PressInv, MainStep
  PROVE  PressInv'
<1>0. TypeOK /\ Accounted /\ SweepFromOne BY DEF PressInv
<1>1. GpioClock(FALSE) /\ handler = "idle" /\ UNCHANGED <<Interrupt_Status, handler, reports>>
  BY DEF MainStep
<1>2. PICK served : Owed(served) BY DEF MainStep, MainInit, MainTest, MainClear, MainSweep
<1>3. /\ INTE' \subseteq Button /\ shift' \subseteq Button /\ OUT' \in 0 .. Leds
      /\ main' \in [pc : {"init", "test", "clear", "sweep"}, for : Button, i : 0 .. Leds]
      /\ main'.pc = "sweep" => main'.i >= 1
  <2> USE <1>0, GpioAssumption DEF TypeOK, At
  <2>1. CASE MainInit BY <2>1 DEF MainInit, Button
  <2>2. CASE MainTest BY <2>2 DEF MainTest, Button
  <2>3. CASE MainClear BY <2>3 DEF MainClear
  <2>4. CASE MainSweep
    <3>1. main.i \in 1 .. Leds BY <2>4 DEF MainSweep, SweepFromOne
    <3>2. OUT' \in 0 .. Leds BY <2>4, <3>1 DEF MainSweep
    <3>3. main' \in [pc : {"init", "test", "clear", "sweep"}, for : Button, i : 0 .. Leds]
      BY <2>4, <3>1 DEF MainSweep, Button
    <3>4. main'.pc = "sweep" => main'.i >= 1 BY <2>4, <3>1 DEF MainSweep
    <3> QED BY <2>4, <3>2, <3>3, <3>4 DEF MainSweep
  <2> QED BY <2>1, <2>2, <2>3, <2>4 DEF MainStep
<1>4. TypeOK' BY <1>0, <1>1, <1>2, <1>3, ClockTypes DEF TypeOK
<1>5. \A b \in Button : ToReport(b)' <= ToReport(b) BY <1>1 DEF ToReport, One
<1>6. Accounted' BY <1>0, <1>1, <1>5, QuietClock
<1> QED BY <1>1, <1>3, <1>4, <1>6 DEF PressInv, CopyIsOld, SweepFromOne

------------------------------------------------------------------------------
\* Every press has at most one report to come or made.
THEOREM PressInvariant == Spec => []PressInv
<1>1. Init => PressInv
  <2> SUFFICES ASSUME Init PROVE PressInv OBVIOUS
  <2>0. /\ OUT \in 0 .. Leds /\ falls \in [Button -> 0 .. MaxEdges]
        /\ reports \in [Button -> Nat]
        /\ main \in [pc : {"init", "test", "clear", "sweep"}, for : Button, i : 0 .. Leds]
    BY GpioAssumption DEF Init, At, Button
  <2>1. TypeOK BY <2>0 DEF Init, TypeOK
  <2>2. SweepFromOne /\ CopyIsOld BY DEF Init, SweepFromOne, CopyIsOld, At
  <2>3. Accounted BY DEF Init, Accounted, Arriving, ToReport, One
  <2> QED BY <2>1, <2>2, <2>3 DEF PressInv
<1>2. PressInv /\ [Next]_vars => PressInv'
  <2> SUFFICES ASSUME PressInv, [Next]_vars PROVE PressInv' OBVIOUS
  <2>1. CASE UNCHANGED vars
    BY <2>1 DEF PressInv, TypeOK, SweepFromOne, CopyIsOld, Accounted, Arriving, ToReport, One,
                vars, padVars, inVars
  <2>2. CASE Next
    BY <2>2, HandlerKeeps, CallbackKeeps, MainKeeps DEF Next, HandlerStep
  <2> QED BY <2>1, <2>2
<1> QED BY <1>1, <1>2, PTL DEF Spec

\* The registers hold sets of buttons, the programs are at one of their steps, and
\* no LED beyond the last is lit, for any number of LEDs.
THEOREM TypeCorrect == Spec => []TypeOK
<1>1. PressInv => TypeOK BY DEF PressInv
<1> QED BY <1>1, PressInvariant, PTL

\* A press is reported to the program at most once, however the pads change while
\* gpio_irq_handler runs and however many presses there are.
THEOREM NoDoubleReport == Spec => []ReportedOnce
<1>1. PressInv => ReportedOnce
  <2> SUFFICES ASSUME PressInv, NEW b \in Button PROVE reports[b] <= falls[b]
    BY DEF ReportedOnce
  <2>1. reports[b] \in Nat /\ falls[b] \in Nat BY GpioAssumption DEF PressInv, TypeOK
  <2>2. ToReport(b) \in Nat /\ One(b \in INTS) \in Nat /\ Arriving(b) \in Nat
    BY DEF ToReport, One, Arriving
  <2>3. reports[b] + ToReport(b) + One(b \in INTS) + Arriving(b) <= falls[b]
    BY DEF PressInv, Accounted
  <2> QED BY <2>1, <2>2, <2>3
<1> QED BY <1>1, PressInvariant, PTL
==============================================================================
