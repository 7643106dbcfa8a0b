------------------------------- MODULE Timer -------------------------------
(***************************************************************************)
(* The programmable interval timer (PIT), clock by clock, its driver with  *)
(* the shadow of the control register, a main program that calls the       *)
(* driver, and an interrupt handler that calls it too.                     *)
(*                                                                         *)
(* Every step is a clock.  In it the core may do one load or store, or     *)
(* begin or end an interrupt.  A driver function is the sequence of its    *)
(* loads and stores.                                                       *)
(***************************************************************************)
EXTENDS Integers, Sequences

CONSTANTS
  COUNT_SIZE,          \* width of the counter (16 in the RTL)
  PRE_COUNT_SIZE,      \* width of the prescaler's counter (15 in the RTL)
  Mod, Prescaler       \* the values that timer_set is called with

\* The counter of pit_prescale ends at this value (DECADE_CNTR = 1).
EndCount(divisor) ==
  IF divisor > 7 THEN 20000 ELSE <<1, 2, 4, 8, 10, 100, 1000, 10000>>[divisor + 1]

ASSUME TimerAssumption ==
  /\ {COUNT_SIZE, PRE_COUNT_SIZE} \subseteq Nat
  /\ Mod \cup {1} \subseteq 0 .. (2^COUNT_SIZE - 1) /\ Prescaler \subseteq 0 .. 15
  /\ \A p \in Prescaler \cup {0} : EndCount(p) < 2^PRE_COUNT_SIZE

VARIABLES
  program,             \* which program runs
  pit,                 \* registers of the PIT
  shadow,              \* timer_ctrl_reg_shadow; CNT_EN and ENA_INT are set together
  status,              \* g_TIMER_int_status
  main, handler        \* loads and stores left of a driver call, and its locals

(***************************************************************************)
(* "timer" is other_test/timer, whose handler restarts the timer;          *)
(* "full_peripheral" is the test whose handler stops it; "reconfigure" is  *)
(* "timer" with a main program that also calls timer_set and timer_en      *)
(* while the timer runs.                                                   *)
(***************************************************************************)
Program == {"timer", "full_peripheral", "reconfigure"}
Restarts == program # "full_peripheral"

vars == <<program, pit, shadow, status, main, handler>>

Off == [pre |-> 0, en |-> FALSE]
Idle == [todo |-> <<>>, reg |-> Off, mod |-> 0, pre |-> 0]

------------------------------------------------------------------------------
(***************************************************************************)
(* The PIT.  A write is [reg, pre, en, clr, mod], or None.                 *)
(***************************************************************************)
None == [reg |-> "none", pre |-> 0, en |-> FALSE, clr |-> FALSE, mod |-> 0]
WriteCtrl(v) == [None EXCEPT !.reg = "CTRL", !.pre = v.pre, !.en = v.en]
WriteFlag == [None EXCEPT !.reg = "CTRL", !.clr = TRUE]
WriteMod(v) == [None EXCEPT !.reg = "MOD", !.mod = v]

\* A modulo of 0 counts as 1.
no_div == pit.mod \in {0, 1}
prescale_out == pit.pcnt = EndCount(pit.pre)
rollover == (pit.cnt = pit.mod \/ no_div) /\ prescale_out

\* Mutant: the counter of the prescaler is not reset with the main counter.
Prescale_NoReset == IF prescale_out THEN 1 ELSE (pit.pcnt + 1) % 2^PRE_COUNT_SIZE

\* pit_prescale.
Prescale == IF ~pit.en \/ prescale_out THEN 1 ELSE (pit.pcnt + 1) % 2^PRE_COUNT_SIZE

\* Mutant: the counter stops at its largest value.
Count_Saturates ==
  IF ~pit.en \/ rollover \/ no_div THEN 1
  ELSE IF prescale_out /\ pit.cnt < 2^COUNT_SIZE - 1 THEN pit.cnt + 1 ELSE pit.cnt

\* pit_count.
Count ==
  IF ~pit.en \/ rollover \/ no_div THEN 1
  ELSE IF prescale_out THEN (pit.cnt + 1) % 2^COUNT_SIZE ELSE pit.cnt

\* pit_regs: CTRL holds the prescaler, the clear bit, ENA_INT and CNT_EN.  The
\* interrupt request follows the flag a clock later.
PitClock(w) ==
  LET ctrl == w.reg = "CTRL" IN
  pit' = [pre  |-> IF ctrl THEN w.pre ELSE pit.pre,
          en   |-> IF ctrl THEN w.en ELSE pit.en,
          ien  |-> IF ctrl THEN w.en ELSE pit.ien,
          clr  |-> IF w.reg = "MOD" THEN pit.clr ELSE w.clr,
          mod  |-> IF w.reg = "MOD" THEN w.mod ELSE pit.mod,
          pcnt |-> Prescale,
          cnt  |-> Count,
          flag |-> pit.en /\ ~pit.clr /\ (rollover \/ pit.flag),
          irq  |-> pit.flag /\ pit.ien]

------------------------------------------------------------------------------
(***************************************************************************)
(* The driver.  "load" and "loadEn" compute the new shadow in a register   *)
(* of the core, "shadow" stores it, "CTRL", "MOD" and "FLAG" are stores to *)
(* the PIT.  The shadow is not volatile: the compiler may store it before  *)
(* or after MOD.  "clear" stores 0, before CTRL, as in the build that the  *)
(* repository holds.                                                       *)
(***************************************************************************)
timer_init == <<"clear", "CTRL", "MOD">>
timer_ack_intrq == <<"FLAG">>
\* Mutant: the hardware first, and then the record.
timer_clear_ctrl_Late == <<"CTRL", "clear">>
timer_clear_ctrl == <<"clear", "CTRL">>
timer_set == {<<"load", "shadow", "MOD", "CTRL">>, <<"load", "MOD", "shadow", "CTRL">>}
timer_en == <<"loadEn", "shadow", "CTRL">>

Call(todo, mod, pre) ==
  [todo |-> todo, reg |-> Off, mod |-> mod, pre |-> pre]

Load(f) == [pre |-> f.pre, en |-> shadow.en]

\* The next load or store of f, and the rest of the call.
Access(f, rest) ==
  LET op == Head(f.todo)
      reg == CASE op = "load" -> Load(f)
               [] op = "loadEn" -> [shadow EXCEPT !.en = TRUE]
               [] OTHER -> f.reg IN
  /\ rest = IF Len(f.todo) = 1 THEN Idle ELSE [f EXCEPT !.todo = Tail(@), !.reg = reg]
  /\ status' = CASE op = "status" -> TRUE [] op = "status0" -> FALSE [] OTHER -> status
  /\ shadow' = CASE op = "shadow" -> f.reg [] op = "clear" -> Off [] OTHER -> shadow
  /\ PitClock(CASE op = "CTRL" -> WriteCtrl(f.reg)
                [] op = "MOD" -> WriteMod(f.mod)
                [] op = "FLAG" -> WriteFlag
                [] OTHER -> None)

------------------------------------------------------------------------------
(***************************************************************************)
(* The programs.  Main calls the driver when it likes; in full_peripheral  *)
(* it clears the timer when the handler has told it to.                    *)
(***************************************************************************)
progVars == <<shadow, status>>

Begin(call) == main' = call /\ PitClock(None) /\ UNCHANGED <<progVars, handler>>

MainCalls ==
  /\ handler = Idle /\ main = Idle
  /\ \/ Begin(Call(timer_init, 0, 0))
     \/ /\ shadow.en => program = "reconfigure"
        /\ \/ \E mod \in Mod, pre \in Prescaler, todo \in timer_set : Begin(Call(todo, mod, pre))
           \/ Begin(Call(timer_en, 0, 0))
     \/ Restarts /\ Begin(Call(timer_clear_ctrl, 0, 0))
     \/ ~Restarts /\ status /\ Begin(Call(<<"status0">> \o timer_clear_ctrl, 0, 0))

MainStep ==
  /\ handler = Idle /\ main # Idle
  /\ Access(main, main')
  /\ UNCHANGED handler

TakeInterrupt ==
  /\ pit.irq /\ handler = Idle
  /\ \/ /\ Restarts
        /\ \E mod \in Mod, pre \in Prescaler, todo \in timer_set :
             handler' = Call(timer_ack_intrq \o todo, mod, pre)
     \/ /\ ~Restarts
        /\ handler' = Call(timer_init \o timer_ack_intrq \o <<"status">>, 0, 0)
  /\ PitClock(None) /\ UNCHANGED <<progVars, main>>

HandlerStep == handler # Idle /\ Access(handler, handler') /\ UNCHANGED main

\* The core does something else.
OtherClock == PitClock(None) /\ UNCHANGED <<progVars, main, handler>>

Init ==
  /\ program \in Program
  /\ pit = [pre |-> 0, en |-> FALSE, ien |-> FALSE, clr |-> FALSE, mod |-> 0,
            pcnt |-> 1, cnt |-> 1, flag |-> FALSE, irq |-> FALSE]
  /\ shadow = Off /\ status = FALSE /\ main = Idle /\ handler = Idle

Next ==
  /\ MainCalls \/ MainStep \/ TakeInterrupt \/ HandlerStep \/ OtherClock
  /\ UNCHANGED program

Spec == Init /\ [][Next]_vars

\* The clock runs, and the core executes its programs and takes its interrupts.
FairSpec ==
  /\ Spec /\ WF_vars(Next)
  /\ WF_vars(Next /\ MainStep) /\ WF_vars(Next /\ HandlerStep) /\ WF_vars(Next /\ TakeInterrupt)

------------------------------------------------------------------------------
(***************************************************************************)
(* Properties.                                                             *)
(***************************************************************************)

\* The registers hold what fits their width.
TypeOK ==
  /\ program \in Program
  /\ pit \in [pre : Prescaler \cup {0}, en : BOOLEAN, ien : BOOLEAN, clr : BOOLEAN,
              mod : Mod \cup {0}, pcnt : 0 .. (2^PRE_COUNT_SIZE - 1),
              cnt : 0 .. (2^COUNT_SIZE - 1), flag : BOOLEAN, irq : BOOLEAN]
  /\ shadow \in [pre : Prescaler \cup {0}, en : BOOLEAN] /\ status \in BOOLEAN

\* Between driver calls.  (A main program that changes a running timer has no such
\* states: the handler's timer_set may come between its load of the shadow and its
\* store, and the older prescaler goes into CTRL.)
Quiet == main = Idle /\ handler = Idle /\ program # "reconfigure"

\* Between driver calls the shadow is what the hardware does: a timer that was
\* cleared does not run, although an interrupt of it may still come in, and
\* restart it, while timer_clear_ctrl is at work.
ShadowAgrees == Quiet => pit.en = shadow.en /\ (pit.en => pit.pre = shadow.pre)

\* When main no longer changes its settings, a timer that runs gets its interrupt or
\* is stopped, even if MOD was set below the counter, which then counts on to the end
\* of its width (the warning in pit_count.v).
Expires == <>[](main = Idle) => (pit.en ~> (handler # Idle \/ ~pit.en))

(***************************************************************************)
(* The timer implements IntervalTimer.                                     *)
(***************************************************************************)
Period == EndCount(pit.pre) * (IF no_div THEN 1 ELSE pit.mod)

\* Clocks to the next rollover.  Each counter goes up to its end, around its width
\* when a change of the settings has put the end behind it.
PrescaleLeft == ((EndCount(pit.pre) - pit.pcnt) % 2^PRE_COUNT_SIZE) + 1
CountLeft == IF no_div THEN 0 ELSE (pit.mod - pit.cnt) % 2^COUNT_SIZE
Left == IF pit.en THEN CountLeft * EndCount(pit.pre) + PrescaleLeft ELSE Period

Abstract == INSTANCE IntervalTimer
  WITH running <- pit.en, flag <- pit.flag, clear <- pit.clr,
       setting <- <<pit.pre, pit.mod>>, period <- Period, left <- Left

\* The flag rises exactly every EndCount(pre) * mod clocks, from the first period on,
\* and also again after main has changed the period of the timer while it counts.
ImplementsIntervalTimer == Abstract!TimerSpec
==============================================================================
