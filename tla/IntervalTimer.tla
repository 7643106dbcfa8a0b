--------------------------- MODULE IntervalTimer ---------------------------
(***************************************************************************)
(* What the programmable interval timer promises: while it runs, its flag  *)
(* rises every period clocks, neither earlier nor later, and falls only    *)
(* when it is cleared or the timer is stopped; a start begins a whole      *)
(* period.  A step is a clock.                                             *)
(***************************************************************************)
EXTENDS Naturals

VARIABLES
  running, flag, clear,
  setting,             \* what the software asked for
  period,              \* the period it stands for, in clocks
  left                 \* clocks to the end of the period

timerVars == <<running, flag, clear, setting, period, left>>

TimerInit == ~running /\ period > 0 /\ left = period /\ ~flag

\* A stop and a start leave a whole period.  When the setting of a running timer
\* changes, the time to the next end may be anything, and what follows is exact again.
Countdown == period' = period /\ left' = IF left = 1 THEN period ELSE left - 1

Time ==
  /\ period' \in Nat \ {0}
  /\ CASE running /\ running' /\ setting' = setting -> Countdown
       [] running /\ running' /\ setting' # setting -> left' \in Nat \ {0}
       [] OTHER -> left' = period'

Flag == flag' = (running /\ ~clear /\ (flag \/ left = 1))

TimerSpec == TimerInit /\ [][Time /\ Flag]_timerVars
==============================================================================
