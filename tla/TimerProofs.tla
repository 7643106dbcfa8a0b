----------------------------- MODULE TimerProofs -----------------------------
(***************************************************************************)
(* Proofs about the programmable interval timer and its driver, for        *)
(* counters of any width and any settings that fit them.                   *)
(***************************************************************************)
EXTENDS Timer, TLAPS

------------------------------------------------------------------------------
(***************************************************************************)
(* Types.                                                                  *)
(***************************************************************************)
Op == {"clear", "CTRL", "MOD", "FLAG", "load", "loadEn", "shadow", "status", "status0"}
Ctrl == [pre : Prescaler \cup {0}, en : BOOLEAN]
PitSet == [pre : Prescaler \cup {0}, en : BOOLEAN, ien : BOOLEAN, clr : BOOLEAN,
           mod : Mod \cup {0}, pcnt : 0 .. (2^PRE_COUNT_SIZE - 1),
           cnt : 0 .. (2^COUNT_SIZE - 1), flag : BOOLEAN, irq : BOOLEAN]
CallSet == [todo : Seq(Op), reg : Ctrl, mod : Mod \cup {0}, pre : Prescaler \cup {0}]
WriteSet == [reg : {"none", "CTRL", "MOD"}, pre : Prescaler \cup {0}, en : BOOLEAN, clr : BOOLEAN,
             mod : Mod \cup {0}]

\* A driver call that is under way has an access left.
CallOK(f) == f = Idle \/ f.todo # <<>>

Types ==
  /\ program \in Program /\ pit \in PitSet /\ shadow \in Ctrl /\ status \in BOOLEAN
  /\ main \in CallSet /\ CallOK(main) /\ handler \in CallSet /\ CallOK(handler)

\* The counters are wide enough for their end values.
LEMMA Widths ==
  /\ 2^COUNT_SIZE \in Nat /\ 2^COUNT_SIZE > 1
  /\ 2^PRE_COUNT_SIZE \in Nat /\ 2^PRE_COUNT_SIZE > 1
  /\ \A p \in Prescaler \cup {0} : EndCount(p) \in 1 .. (2^PRE_COUNT_SIZE - 1)
  /\ \A m \in Mod \cup {0} : m \in 0 .. (2^COUNT_SIZE - 1)
<1>1. COUNT_SIZE \in Nat /\ PRE_COUNT_SIZE \in Nat BY TimerAssumption
<1>2. 2^COUNT_SIZE \in Int /\ 2^PRE_COUNT_SIZE \in Int BY <1>1
<1>3. 1 \in 0 .. (2^COUNT_SIZE - 1) BY TimerAssumption
<1>4. 2^COUNT_SIZE > 1 BY <1>2, <1>3
<1>5. EndCount(0) = 1 /\ EndCount(0) < 2^PRE_COUNT_SIZE BY TimerAssumption DEF EndCount
<1>6. \A p \in 0 .. 15 : EndCount(p) \in Nat \ {0} BY DEF EndCount
<1>7. \A p \in Prescaler \cup {0} : p \in 0 .. 15 /\ EndCount(p) < 2^PRE_COUNT_SIZE
  BY TimerAssumption
<1>8. \A m \in Mod \cup {0} : m \in 0 .. (2^COUNT_SIZE - 1) BY <1>2, <1>4, TimerAssumption
<1> QED BY <1>2, <1>4, <1>5, <1>6, <1>7, <1>8

------------------------------------------------------------------------------
(***************************************************************************)
(* Counters.                                                               *)
(***************************************************************************)

\* What is left for a counter that goes up modulo its width; one that starts at 1
\* has the whole way to go.
LEMMA CounterStep ==
  ASSUME NEW W \in Nat, W > 1, NEW p \in 0 .. W - 1, NEW e \in 0 .. W - 1
  PROVE  /\ (e - p) % W \in 0 .. W - 1
         /\ (e - p) % W = 0 <=> p = e
         /\ e > 0 => (e - 1) % W = e - 1
<1>1. (e - p) % W \in 0 .. W - 1 OBVIOUS
<1>2. (e - p) % W = 0 <=> p = e OBVIOUS
<1>3. e > 0 => (e - 1) % W = e - 1 OBVIOUS
<1> QED BY <1>1, <1>2, <1>3

\* Each step brings it one closer to its end, around the width too.
LEMMA CounterUp ==
  ASSUME NEW W \in Nat, W > 1, NEW p \in 0 .. W - 1, NEW e \in 0 .. W - 1, p # e
  PROVE  (e - ((p + 1) % W)) % W = ((e - p) % W) - 1
OBVIOUS

\* The time left, from what is left of the two counters.
LEMMA LeftArith ==
  ASSUME NEW c \in Nat, NEW e \in Nat \ {0}, NEW q \in Nat \ {0}
  PROVE  /\ c * e \in Nat /\ c * e + q \in Nat \ {0}
         /\ c * e + q = 1 <=> c = 0 /\ q = 1
         /\ c > 0 => (c - 1) * e + e = c * e
<1>1. c * e \in Nat OBVIOUS
<1>2. c > 0 => c * e > 0 OBVIOUS
<1>3. c = 0 => c * e = 0 OBVIOUS
<1>4. c > 0 => (c - 1) * e + e = c * e OBVIOUS
<1> QED BY <1>1, <1>2, <1>3, <1>4

\* What is left of each counter, and of the period, in range.
LEMMA LeftRange ==
  ASSUME pit \in PitSet
  PROVE  /\ EndCount(pit.pre) \in Nat \ {0} /\ Period \in Nat \ {0}
         /\ CountLeft \in Nat /\ PrescaleLeft \in Nat \ {0} /\ Left \in Nat \ {0}
         /\ PrescaleLeft = 1 <=> prescale_out
         /\ CountLeft = 0 <=> pit.cnt = pit.mod \/ no_div
<1> DEFINE W == 2^PRE_COUNT_SIZE
           N == 2^COUNT_SIZE
           E == EndCount(pit.pre)
<1>1. /\ W \in Nat /\ W > 1 /\ N \in Nat /\ N > 1 /\ E \in 1 .. W - 1
      /\ pit.mod \in 0 .. N - 1 /\ pit.pcnt \in 0 .. W - 1 /\ pit.cnt \in 0 .. N - 1
  BY Widths DEF PitSet
<1>2. /\ PrescaleLeft = ((E - pit.pcnt) % W) + 1
      /\ CountLeft = IF no_div THEN 0 ELSE (pit.mod - pit.cnt) % N
      /\ Period = E * (IF no_div THEN 1 ELSE pit.mod)
      /\ Left = IF pit.en THEN CountLeft * E + PrescaleLeft ELSE Period
      /\ prescale_out <=> pit.pcnt = E
  BY DEF PrescaleLeft, CountLeft, Period, Left, prescale_out
<1> HIDE DEF W, N, E
<1>3. /\ (E - pit.pcnt) % W \in 0 .. W - 1
      /\ (E - pit.pcnt) % W = 0 <=> pit.pcnt = E
  BY <1>1, CounterStep
<1>4. /\ (pit.mod - pit.cnt) % N \in 0 .. N - 1
      /\ (pit.mod - pit.cnt) % N = 0 <=> pit.cnt = pit.mod
  BY <1>1, CounterStep
<1>5. E \in Nat \ {0} BY <1>1
<1>6. Period \in Nat \ {0}
  <2>1. ~no_div => pit.mod \in Nat \ {0} BY <1>1 DEF no_div
  <2>2. (IF no_div THEN 1 ELSE pit.mod) \in Nat \ {0} BY <2>1
  <2>3. ASSUME NEW a \in Nat \ {0}, NEW b \in Nat \ {0} PROVE a * b \in Nat \ {0} BY <2>3
  <2> QED BY <1>2, <1>5, <2>2, <2>3
<1>7. CountLeft \in Nat BY <1>1, <1>2, <1>4
<1>8. PrescaleLeft \in Nat \ {0} BY <1>1, <1>2, <1>3
<1>9. PrescaleLeft = 1 <=> prescale_out BY <1>1, <1>2, <1>3
<1>10. CountLeft = 0 <=> pit.cnt = pit.mod \/ no_div BY <1>2, <1>4
<1>11. Left \in Nat \ {0} BY <1>2, <1>5, <1>6, <1>7, <1>8, LeftArith
<1> QED BY <1>5, <1>6, <1>7, <1>8, <1>9, <1>10, <1>11 DEF E

\* A clock leaves the registers of the PIT in range.
LEMMA PitType ==
  ASSUME pit \in PitSet, NEW w \in WriteSet, PitClock(w)
  PROVE  pit' \in PitSet
<1> DEFINE W == 2^PRE_COUNT_SIZE
           N == 2^COUNT_SIZE
<1>1. W \in Nat /\ W > 1 /\ N \in Nat /\ N > 1 BY Widths
<1>2. pit.pcnt \in 0 .. W - 1 /\ pit.cnt \in 0 .. N - 1 BY DEF PitSet
<1>3. Prescale \in 0 .. W - 1
  <2>1. Prescale = 1 \/ Prescale = (pit.pcnt + 1) % W BY DEF Prescale
  <2> HIDE DEF W
  <2> QED BY <1>1, <1>2, <2>1
<1>4. Count \in 0 .. N - 1
  <2>1. Count = 1 \/ Count = (pit.cnt + 1) % N \/ Count = pit.cnt BY DEF Count
  <2> HIDE DEF N
  <2> QED BY <1>1, <1>2, <2>1
<1>5. /\ pit.pre \in Prescaler \cup {0} /\ pit.mod \in Mod \cup {0} /\ pit.en \in BOOLEAN
      /\ pit.ien \in BOOLEAN /\ pit.clr \in BOOLEAN /\ pit.flag \in BOOLEAN
  BY DEF PitSet
<1>6. /\ w.pre \in Prescaler \cup {0} /\ w.mod \in Mod \cup {0} /\ w.en \in BOOLEAN
      /\ w.clr \in BOOLEAN
  BY DEF WriteSet
<1>7. /\ (pit.en /\ ~pit.clr /\ (rollover \/ pit.flag)) \in BOOLEAN
      /\ (pit.flag /\ pit.ien) \in BOOLEAN
  OBVIOUS
<1> HIDE DEF W, N
<1> QED BY <1>3, <1>4, <1>5, <1>6, <1>7 DEF PitClock, PitSet, W, N

\* The fields after a clock.
LEMMA PitFields ==
  ASSUME NEW w, PitClock(w)
  PROVE  /\ pit'.pre = (IF w.reg = "CTRL" THEN w.pre ELSE pit.pre)
         /\ pit'.en = (IF w.reg = "CTRL" THEN w.en ELSE pit.en)
         /\ pit'.ien = (IF w.reg = "CTRL" THEN w.en ELSE pit.ien)
         /\ pit'.mod = (IF w.reg = "MOD" THEN w.mod ELSE pit.mod)
         /\ pit'.pcnt = Prescale /\ pit'.cnt = Count
         /\ pit'.flag = (pit.en /\ ~pit.clr /\ (rollover \/ pit.flag))
         /\ pit'.irq = (pit.flag /\ pit.ien)
BY DEF PitClock

\* The period ends when both counters are at their end.
LEMMA EndsAtRollover ==
  ASSUME pit \in PitSet, pit.en
  PROVE  Left = 1 <=> rollover
<1>1. Left = CountLeft * EndCount(pit.pre) + PrescaleLeft BY DEF Left
<1>2. Left = 1 <=> CountLeft = 0 /\ PrescaleLeft = 1 BY <1>1, LeftRange, LeftArith
<1> QED BY <1>2, LeftRange DEF rollover

\* From a reset of the counters the whole period is left.
LEMMA WholePeriod == pit \in PitSet /\ pit.pcnt = 1 /\ pit.cnt = 1 => Left = Period
<1> SUFFICES ASSUME pit \in PitSet, pit.pcnt = 1, pit.cnt = 1 PROVE Left = Period OBVIOUS
<1> DEFINE W == 2^PRE_COUNT_SIZE
           N == 2^COUNT_SIZE
           E == EndCount(pit.pre)
<1>1. /\ W \in Nat /\ W > 1 /\ N \in Nat /\ N > 1 /\ E \in 1 .. W - 1
      /\ pit.mod \in 0 .. N - 1
  BY Widths DEF PitSet
<1>2. /\ PrescaleLeft = ((E - 1) % W) + 1
      /\ CountLeft = IF no_div THEN 0 ELSE (pit.mod - 1) % N
      /\ Period = E * (IF no_div THEN 1 ELSE pit.mod)
      /\ Left = IF pit.en THEN CountLeft * E + PrescaleLeft ELSE Period
  BY DEF PrescaleLeft, CountLeft, Period, Left
<1> HIDE DEF W, N, E
<1>3. PrescaleLeft = E
  <2>1. (E - 1) % W = E - 1 BY <1>1, CounterStep
  <2> QED BY <1>1, <1>2, <2>1
<1>4. CASE no_div BY <1>1, <1>2, <1>3, <1>4
<1>5. CASE ~no_div
  <2>1. pit.mod > 0 BY <1>1, <1>5 DEF no_div
  <2>2. CountLeft = pit.mod - 1 BY <1>1, <1>2, <1>5, <2>1, CounterStep
  <2>3. (pit.mod - 1) * E + E = pit.mod * E BY <1>1, <2>1, LeftArith
  <2>4. pit.mod * E = E * pit.mod BY <1>1
  <2> QED BY <1>2, <1>3, <1>5, <2>2, <2>3, <2>4
<1> QED BY <1>4, <1>5

\* While the timer runs with one setting, each clock takes one from the time left.
LEMMA CountsDown ==
  ASSUME pit \in PitSet, pit' \in PitSet, NEW w, PitClock(w), pit.en, pit'.en,
         pit'.pre = pit.pre, pit'.mod = pit.mod
  PROVE  Period' = Period /\ Left' = IF Left = 1 THEN Period ELSE Left - 1
<1> DEFINE W == 2^PRE_COUNT_SIZE
           N == 2^COUNT_SIZE
           E == EndCount(pit.pre)
<1>1. /\ W \in Nat /\ W > 1 /\ N \in Nat /\ N > 1 /\ E \in 1 .. W - 1 /\ E \in Nat \ {0}
      /\ pit.mod \in 0 .. N - 1 /\ pit.pcnt \in 0 .. W - 1 /\ pit.cnt \in 0 .. N - 1
  BY Widths DEF PitSet
<1>2. no_div' = no_div /\ E' = E BY DEF no_div
<1>3. Period' = Period BY <1>2 DEF Period
<1>4. /\ PrescaleLeft = ((E - pit.pcnt) % W) + 1 /\ PrescaleLeft' = ((E - pit'.pcnt) % W) + 1
      /\ CountLeft = IF no_div THEN 0 ELSE (pit.mod - pit.cnt) % N
      /\ CountLeft' = IF no_div THEN 0 ELSE (pit.mod - pit'.cnt) % N
      /\ Left = CountLeft * E + PrescaleLeft /\ Left' = CountLeft' * E + PrescaleLeft'
      /\ prescale_out <=> pit.pcnt = E
  BY <1>2 DEF PrescaleLeft, CountLeft, Left, prescale_out
<1>5. /\ pit'.pcnt = (IF prescale_out THEN 1 ELSE (pit.pcnt + 1) % W)
      /\ pit'.cnt = (IF rollover \/ no_div THEN 1
                     ELSE IF prescale_out THEN (pit.cnt + 1) % N ELSE pit.cnt)
  BY PitFields DEF Prescale, Count
<1>6. /\ CountLeft \in Nat /\ PrescaleLeft \in Nat \ {0} /\ Left \in Nat \ {0}
      /\ PrescaleLeft = 1 <=> prescale_out
      /\ CountLeft = 0 <=> pit.cnt = pit.mod \/ no_div
      /\ Left = 1 <=> rollover
  BY LeftRange, EndsAtRollover
<1>7. CASE rollover
  <2>1. pit'.pcnt = 1 /\ pit'.cnt = 1 BY <1>5, <1>7 DEF rollover
  <2>2. (pit \in PitSet /\ pit.pcnt = 1 /\ pit.cnt = 1 => Left = Period)' BY WholePeriod, PTL
  <2> QED BY <1>3, <1>6, <1>7, <2>1, <2>2
<1>8. CASE ~rollover /\ prescale_out
  <2>1. ~no_div /\ pit.cnt # pit.mod /\ CountLeft > 0 BY <1>6, <1>8 DEF rollover
  <2>2. pit'.cnt = (pit.cnt + 1) % N /\ pit'.pcnt = 1 BY <1>5, <1>8, <2>1
  <2> HIDE DEF W, N, E
  <2>3. CountLeft' = CountLeft - 1
    <3>1. (pit.mod - ((pit.cnt + 1) % N)) % N = ((pit.mod - pit.cnt) % N) - 1
      BY <1>1, <2>1, CounterUp
    <3> QED BY <1>4, <2>1, <2>2, <3>1
  <2>4. PrescaleLeft' = E
    <3>1. (E - 1) % W = E - 1 BY <1>1, CounterStep
    <3> QED BY <1>1, <1>4, <2>2, <3>1
  <2>5. (CountLeft - 1) * E + E = CountLeft * E /\ CountLeft * E \in Nat
    BY <1>1, <1>6, <2>1, LeftArith
  <2>6. Left' = Left - 1 BY <1>4, <1>6, <1>8, <2>3, <2>4, <2>5
  <2> QED BY <1>3, <1>6, <1>8, <2>6
<1>9. CASE ~prescale_out
  <2>1. pit'.pcnt = (pit.pcnt + 1) % W /\ pit.pcnt # E BY <1>4, <1>5, <1>9
  <2>2. ~no_div => pit'.cnt = pit.cnt BY <1>5, <1>9 DEF rollover
  <2> HIDE DEF W, N, E
  <2>3. CountLeft' = CountLeft BY <1>4, <2>2
  <2>4. PrescaleLeft' = PrescaleLeft - 1
    <3>1. (E - ((pit.pcnt + 1) % W)) % W = ((E - pit.pcnt) % W) - 1
      <4>1. E \in 0 .. W - 1 BY <1>1
      <4> QED BY <1>1, <2>1, <4>1, CounterUp
    <3>2. (E - pit.pcnt) % W \in Int BY <1>1
    <3> QED BY <1>4, <2>1, <3>1, <3>2
  <2>5. CountLeft * E \in Nat BY <1>1, <1>6, LeftArith
  <2>6. Left' = Left - 1 BY <1>4, <1>6, <2>3, <2>4, <2>5
  <2> QED BY <1>3, <1>6, <1>9, <2>6 DEF rollover
<1> QED BY <1>7, <1>8, <1>9

------------------------------------------------------------------------------
(***************************************************************************)
(* The refinement: whatever the software writes, a clock of the PIT is a   *)
(* clock of IntervalTimer.                                                 *)
(***************************************************************************)

\* The period and the time left are positive; LeftRange as an implication.
LEMMA LeftPositive == pit \in PitSet => Period \in Nat \ {0} /\ Left \in Nat \ {0}
BY LeftRange

\* A clock of the PIT, with any register write, is a step of the abstract timer.
LEMMA ClockImplements ==
  ASSUME pit \in PitSet, pit' \in PitSet, NEW w \in WriteSet, PitClock(w)
  PROVE  Abstract!Time /\ Abstract!Flag
<1>1. Period' \in Nat \ {0} /\ Left' \in Nat \ {0}
  <2>1. (pit \in PitSet => Period \in Nat \ {0} /\ Left \in Nat \ {0})' BY LeftPositive, PTL
  <2> QED BY <2>1
<1>2. CASE pit.en /\ pit'.en /\ <<pit'.pre, pit'.mod>> = <<pit.pre, pit.mod>>
  <2>1. pit'.pre = pit.pre /\ pit'.mod = pit.mod BY <1>2
  <2>2. Period' = Period /\ Left' = IF Left = 1 THEN Period ELSE Left - 1
    BY <1>2, <2>1, CountsDown
  <2> QED BY <1>1, <1>2, <2>2, EndsAtRollover, PitFields
          DEF Abstract!Time, Abstract!Countdown, Abstract!Flag
<1>3. CASE pit.en /\ pit'.en /\ <<pit'.pre, pit'.mod>> # <<pit.pre, pit.mod>>
  BY <1>1, <1>3, EndsAtRollover, PitFields DEF Abstract!Time, Abstract!Flag
<1>4. CASE ~(pit.en /\ pit'.en)
  <2>1. Left' = Period'
    <3>1. CASE ~pit'.en BY <3>1 DEF Left
    <3>2. CASE ~pit.en
      <4>1. pit'.pcnt = 1 /\ pit'.cnt = 1 BY <3>2, PitFields DEF Prescale, Count
      <4>2. (pit \in PitSet /\ pit.pcnt = 1 /\ pit.cnt = 1 => Left = Period)' BY WholePeriod, PTL
      <4> QED BY <4>1, <4>2
    <3> QED BY <1>4, <3>1, <3>2
  <2>2. Abstract!Time BY <1>1, <1>4, <2>1 DEF Abstract!Time
  <2>3. Abstract!Flag
    <3>1. CASE pit.en BY <3>1, EndsAtRollover, PitFields DEF Abstract!Flag
    <3>2. CASE ~pit.en BY <3>2, PitFields DEF Abstract!Flag
    <3> QED BY <3>1, <3>2
  <2> QED BY <2>2, <2>3
<1> QED BY <1>2, <1>3, <1>4

\* The values that the software stores fit the registers.
LEMMA WriteType ==
  /\ None \in WriteSet /\ WriteFlag \in WriteSet
  /\ \A v \in Ctrl : WriteCtrl(v) \in WriteSet
  /\ \A m \in Mod \cup {0} : WriteMod(m) \in WriteSet
<1>1. None \in WriteSet BY DEF None, WriteSet
<1>2. WriteFlag \in WriteSet BY DEF None, WriteFlag, WriteSet
<1>3. \A v \in Ctrl : WriteCtrl(v) \in WriteSet BY DEF None, WriteCtrl, WriteSet, Ctrl
<1>4. \A m \in Mod \cup {0} : WriteMod(m) \in WriteSet BY DEF None, WriteMod, WriteSet
<1> QED BY <1>1, <1>2, <1>3, <1>4

\* An access of a driver call keeps the types, and is a clock of the PIT.
LEMMA AccessType ==
  ASSUME Types, NEW f \in CallSet, f.todo # <<>>, NEW rest, Access(f, rest)
  PROVE  /\ rest \in CallSet /\ CallOK(rest) /\ shadow' \in Ctrl /\ status' \in BOOLEAN
         /\ \E w \in WriteSet : PitClock(w)
<1> DEFINE op == Head(f.todo)
           reg == CASE op = "load" -> Load(f)
                    [] op = "loadEn" -> [shadow EXCEPT !.en = TRUE]
                    [] OTHER -> f.reg
           w == CASE op = "CTRL" -> WriteCtrl(f.reg)
                  [] op = "MOD" -> WriteMod(f.mod)
                  [] op = "FLAG" -> WriteFlag
                  [] OTHER -> None
<1>1. /\ f.todo \in Seq(Op) /\ f.reg \in Ctrl /\ f.mod \in Mod \cup {0} /\ f.pre \in Prescaler \cup {0}
      /\ shadow \in Ctrl /\ status \in BOOLEAN
  BY DEF CallSet, Types
<1>2. Off \in Ctrl BY DEF Off, Ctrl
<1>3. reg \in Ctrl
  <2>1. Load(f) \in Ctrl BY <1>1 DEF Load, Ctrl
  <2>2. [shadow EXCEPT !.en = TRUE] \in Ctrl BY <1>1 DEF Ctrl
  <2> QED BY <1>1, <2>1, <2>2
<1>4. w \in WriteSet BY <1>1, WriteType
<1>5. /\ rest = IF Len(f.todo) = 1 THEN Idle ELSE [f EXCEPT !.todo = Tail(@), !.reg = reg]
      /\ shadow' = CASE op = "shadow" -> f.reg [] op = "clear" -> Off [] OTHER -> shadow
      /\ status' = CASE op = "status" -> TRUE [] op = "status0" -> FALSE [] OTHER -> status
      /\ PitClock(w)
  BY DEF Access
<1>6. Idle \in CallSet BY <1>2 DEF Idle, CallSet
<1>7. rest \in CallSet /\ CallOK(rest)
  <2>1. CASE Len(f.todo) = 1 BY <1>5, <1>6, <2>1 DEF CallOK
  <2>2. CASE Len(f.todo) # 1
    <3>1. Tail(f.todo) \in Seq(Op) /\ Tail(f.todo) # <<>>
      <4>1. Len(f.todo) \in Nat /\ Len(f.todo) # 0 BY <1>1
      <4>2. Tail(f.todo) \in Seq(Op) /\ Len(Tail(f.todo)) = Len(f.todo) - 1 BY <1>1, <4>1
      <4>3. Len(Tail(f.todo)) # 0 BY <2>2, <4>1, <4>2
      <4>4. Len(<<>>) = 0 OBVIOUS
      <4>5. ASSUME Tail(f.todo) = <<>> PROVE FALSE BY <4>3, <4>4, <4>5
      <4> QED BY <4>2, <4>5
    <3> HIDE DEF reg
    <3> QED BY <1>3, <1>5, <2>2, <3>1 DEF CallSet, CallOK
  <2> QED BY <2>1, <2>2
<1>8. shadow' \in Ctrl BY <1>1, <1>2, <1>5
<1>9. status' \in BOOLEAN BY <1>1, <1>5
<1> QED BY <1>4, <1>5, <1>7, <1>8, <1>9

\* The driver's calls are sequences of accesses.
LEMMA CallType ==
  ASSUME NEW m \in Mod \cup {0}, NEW p \in Prescaler \cup {0}, NEW t \in Seq(Op), t # <<>>
  PROVE  Call(t, m, p) \in CallSet /\ CallOK(Call(t, m, p))
<1>1. Off \in Ctrl BY DEF Off, Ctrl
<1> QED BY <1>1 DEF Call, CallSet, CallOK

\* What the driver's functions do are nonempty sequences of loads and stores.
LEMMA DriverCalls ==
  /\ timer_init \in Seq(Op) /\ timer_init # <<>>
  /\ timer_clear_ctrl \in Seq(Op) /\ timer_clear_ctrl # <<>>
  /\ <<"status0">> \o timer_clear_ctrl \in Seq(Op) /\ <<"status0">> \o timer_clear_ctrl # <<>>
  /\ timer_en \in Seq(Op) /\ timer_en # <<>>
  /\ \A t \in timer_set : t \in Seq(Op) /\ t # <<>>
  /\ \A t \in timer_set : timer_ack_intrq \o t \in Seq(Op) /\ timer_ack_intrq \o t # <<>>
  /\ timer_init \o timer_ack_intrq \o <<"status">> \in Seq(Op)
  /\ timer_init \o timer_ack_intrq \o <<"status">> # <<>>
<1>1. timer_init \in Seq(Op) /\ timer_init # <<>> BY DEF timer_init, Op
<1>2. timer_clear_ctrl \in Seq(Op) /\ timer_clear_ctrl # <<>> BY DEF timer_clear_ctrl, Op
<1>3. timer_en \in Seq(Op) /\ timer_en # <<>> BY DEF timer_en, Op
<1>4. \A t \in timer_set : t \in Seq(Op) /\ t # <<>>
  <2>1. /\ <<"load", "shadow", "MOD", "CTRL">> \in Seq(Op)
        /\ <<"load", "shadow", "MOD", "CTRL">> # <<>>
    BY DEF Op
  <2>2. /\ <<"load", "MOD", "shadow", "CTRL">> \in Seq(Op)
        /\ <<"load", "MOD", "shadow", "CTRL">> # <<>>
    BY DEF Op
  <2> QED BY <2>1, <2>2 DEF timer_set
<1>5. timer_ack_intrq \in Seq(Op) /\ timer_ack_intrq # <<>> BY DEF timer_ack_intrq, Op
<1>6. <<"status">> \in Seq(Op) /\ <<"status0">> \in Seq(Op) BY DEF Op
<1>7. ASSUME NEW a \in Seq(Op), a # <<>>, NEW b \in Seq(Op) PROVE a \o b \in Seq(Op) /\ a \o b # <<>>
  BY <1>7
<1>8. <<"status0">> # <<>> OBVIOUS
<1> QED BY <1>1, <1>2, <1>3, <1>4, <1>5, <1>6, <1>7, <1>8

\* Every step is a clock of the PIT and keeps the types.
LEMMA StepType ==
  ASSUME Types, Next
  PROVE  Types' /\ \E w \in WriteSet : PitClock(w)
<1>1. (\E w \in WriteSet : PitClock(w)) => pit' \in PitSet BY PitType DEF Types
<1>2. program' \in Program BY DEF Next, Types
<1>3. None \in WriteSet BY WriteType
<1>4. CASE MainCalls
  <2>1. ASSUME NEW c, Begin(c), c \in CallSet, CallOK(c) PROVE Types' /\ \E w \in WriteSet : PitClock(w)
    BY <1>1, <1>2, <1>3, <2>1 DEF Begin, Types, progVars
  <2>2. Mod \subseteq Mod \cup {0} /\ 0 \in Mod \cup {0} /\ 0 \in Prescaler \cup {0} OBVIOUS
  <2>3. CASE Begin(Call(timer_init, 0, 0)) BY <2>1, <2>2, <2>3, CallType, DriverCalls
  <2>4. CASE \E mod \in Mod, pre \in Prescaler, todo \in timer_set : Begin(Call(todo, mod, pre))
    BY <2>1, <2>2, <2>4, CallType, DriverCalls
  <2>5. CASE Begin(Call(timer_en, 0, 0)) BY <2>1, <2>2, <2>5, CallType, DriverCalls
  <2>6. CASE Begin(Call(timer_clear_ctrl, 0, 0)) BY <2>1, <2>2, <2>6, CallType, DriverCalls
  <2>7. CASE Begin(Call(<<"status0">> \o timer_clear_ctrl, 0, 0))
    BY <2>1, <2>2, <2>7, CallType, DriverCalls
  <2> QED BY <1>4, <2>3, <2>4, <2>5, <2>6, <2>7 DEF MainCalls
<1>5. CASE MainStep
  <2>1. main \in CallSet /\ main.todo # <<>> BY <1>5 DEF MainStep, Types, CallOK
  <2>2. Access(main, main') BY <1>5 DEF MainStep
  <2>3. /\ main' \in CallSet /\ CallOK(main') /\ shadow' \in Ctrl /\ status' \in BOOLEAN
        /\ \E w \in WriteSet : PitClock(w)
    BY <2>1, <2>2, AccessType
  <2> QED BY <1>1, <1>2, <1>5, <2>3 DEF MainStep, Types
<1>6. CASE TakeInterrupt
  <2>1. handler' \in CallSet /\ CallOK(handler')
    BY <1>6, CallType, DriverCalls DEF TakeInterrupt
  <2> QED BY <1>1, <1>2, <1>3, <1>6, <2>1 DEF TakeInterrupt, Types, progVars
<1>7. CASE HandlerStep
  <2>1. handler \in CallSet /\ handler.todo # <<>> BY <1>7 DEF HandlerStep, Types, CallOK
  <2>2. Access(handler, handler') BY <1>7 DEF HandlerStep
  <2>3. /\ handler' \in CallSet /\ CallOK(handler') /\ shadow' \in Ctrl /\ status' \in BOOLEAN
        /\ \E w \in WriteSet : PitClock(w)
    BY <2>1, <2>2, AccessType
  <2> QED BY <1>1, <1>2, <1>7, <2>3 DEF HandlerStep, Types
<1>8. CASE OtherClock BY <1>1, <1>2, <1>3, <1>8 DEF OtherClock, Types, progVars
<1> QED BY <1>4, <1>5, <1>6, <1>7, <1>8 DEF Next

\* Power-up has everything in its range: the counters start at 1, inside any width.
LEMMA InitTypes == Init => Types
<1> SUFFICES ASSUME Init PROVE Types OBVIOUS
<1>1. Off \in Ctrl BY DEF Off, Ctrl
<1>2. Idle \in CallSet BY <1>1 DEF Idle, CallSet
<1>3. pit \in PitSet
  <2>1. 1 \in 0 .. (2^PRE_COUNT_SIZE - 1) /\ 1 \in 0 .. (2^COUNT_SIZE - 1) BY Widths
  <2> QED BY <2>1 DEF Init, PitSet
<1> QED BY <1>1, <1>2, <1>3 DEF Init, Types, CallOK

\* The registers, the shadow and the driver's locals keep their types.
THEOREM TypesHold == Spec => []Types
<1>1. Types /\ [Next]_vars => Types'
  <2> SUFFICES ASSUME Types, [Next]_vars PROVE Types' OBVIOUS
  <2>1. CASE Next BY <2>1, StepType
  <2>2. CASE UNCHANGED vars BY <2>2 DEF vars, Types
  <2> QED BY <2>1, <2>2
<1> QED BY <1>1, InitTypes, PTL DEF Spec

\* The PIT, with the driver and programs that use it, implements IntervalTimer: the
\* flag rises exactly every EndCount(pre) * mod clocks while the setting stays, from
\* the first period on, for counters of any width (pit_prescale.v, pit_count.v).
THEOREM Refinement == Spec => ImplementsIntervalTimer
<1>1. Init => Abstract!TimerInit
  <2> SUFFICES ASSUME Init PROVE Abstract!TimerInit OBVIOUS
  <2>1. pit \in PitSet BY InitTypes DEF Types
  <2>2. ~pit.en /\ ~pit.flag BY DEF Init
  <2> QED BY <2>1, <2>2, LeftPositive DEF Abstract!TimerInit, Left
<1>2. Types /\ Types' /\ [Next]_vars => [Abstract!Time /\ Abstract!Flag]_(Abstract!timerVars)
  <2> SUFFICES ASSUME Types, Types', [Next]_vars
               PROVE  (Abstract!Time /\ Abstract!Flag) \/ UNCHANGED Abstract!timerVars
    OBVIOUS
  <2>1. CASE Next
    <3>1. \E w \in WriteSet : PitClock(w) BY <2>1, StepType
    <3> QED BY <3>1, ClockImplements DEF Types
  <2>2. CASE UNCHANGED vars
    BY <2>2 DEF vars, Abstract!timerVars, Period, Left, no_div, CountLeft, PrescaleLeft
  <2> QED BY <2>1, <2>2
<1> QED BY <1>1, <1>2, TypesHold, PTL DEF Spec, ImplementsIntervalTimer, Abstract!TimerSpec

------------------------------------------------------------------------------
(***************************************************************************)
(* The shadow.  The invariant follows main and the handler through the     *)
(* accesses of their calls; it is about the two programs whose main does   *)
(* not change a running timer.                                             *)
(***************************************************************************)
Agree == pit.en = shadow.en /\ (pit.en => pit.pre = shadow.pre)
BothOff == ~pit.en /\ ~shadow.en

\* Accesses left to the handler that restarts the timer: before the load, after it,
\* and after the store of the shadow.
SetTodo == {<<"load", "shadow", "MOD", "CTRL">>, <<"load", "MOD", "shadow", "CTRL">>}
AckTodo == {<<"FLAG", "load", "shadow", "MOD", "CTRL">>, <<"FLAG", "load", "MOD", "shadow", "CTRL">>}
LoadedTodo == {<<"shadow", "MOD", "CTRL">>, <<"MOD", "shadow", "CTRL">>, <<"shadow", "CTRL">>}
StoredTodo == {<<"MOD", "CTRL">>, <<"CTRL">>}

\* Accesses left to the handler that stops the timer.
StopTodo == {<<"clear", "CTRL", "MOD", "FLAG", "status">>}
StoppingTodo == {<<"CTRL", "MOD", "FLAG", "status">>}
StoppedTodo == {<<"MOD", "FLAG", "status">>, <<"FLAG", "status">>, <<"status">>}

HandlerOK ==
  \/ handler = Idle
  \/ handler.todo \in SetTodo \cup AckTodo
  \/ handler.todo \in LoadedTodo /\ handler.reg.en = shadow.en
  \/ handler.todo \in StoredTodo /\ handler.reg = shadow
  \/ handler.todo \in StopTodo /\ ~handler.reg.en
  \/ handler.todo \in StoppingTodo /\ ~handler.reg.en /\ ~shadow.en
  \/ handler.todo \in StoppedTodo /\ BothOff

\* Main has not begun to change anything; it has cleared the shadow and not yet the
\* hardware; it changes the settings of a timer that is off; it switches the timer on,
\* and no interrupt can come.
Calm ==
  /\ main = Idle \/ (/\ ~main.reg.en
                     /\ main.todo \in {<<"clear", "CTRL", "MOD">>, <<"clear", "CTRL">>,
                                       <<"status0", "clear", "CTRL">>})
  /\ handler = Idle => Agree
Clearing ==
  main.todo \in {<<"CTRL", "MOD">>, <<"CTRL">>} /\ ~main.reg.en /\ ~shadow.en
Setting ==
  /\ main.todo \in {<<"MOD">>, <<"MOD", "CTRL">>} \cup SetTodo \cup LoadedTodo
  /\ ~main.reg.en /\ BothOff
Starting ==
  /\ \/ main.todo = <<"loadEn", "shadow", "CTRL">>
     \/ main.todo = <<"shadow", "CTRL">> /\ main.reg.en
     \/ main.todo = <<"CTRL">> /\ main.reg.en /\ main.reg = shadow
  /\ handler = Idle /\ ~pit.en /\ ~pit.flag /\ ~pit.irq

ShadowInv ==
  program # "reconfigure" =>
    /\ pit.ien = pit.en /\ HandlerOK
    /\ Calm \/ Clearing \/ Setting \/ Starting

\* What an access of the call f does.
Effect(f, rest, op) ==
  /\ Len(f.todo) = 1 => rest = Idle
  /\ Len(f.todo) # 1 =>
       /\ rest.todo = Tail(f.todo)
       /\ rest.reg.en = (CASE op = "load" -> shadow.en [] op = "loadEn" -> TRUE [] OTHER -> f.reg.en)
       /\ op \notin {"load", "loadEn"} => rest.reg = f.reg
  /\ shadow' = (CASE op = "shadow" -> f.reg [] op = "clear" -> Off [] OTHER -> shadow)
  /\ pit'.en = (CASE op = "CTRL" -> f.reg.en [] op = "FLAG" -> FALSE [] OTHER -> pit.en)
  /\ op = "CTRL" => pit'.pre = f.reg.pre
  /\ op \notin {"CTRL", "FLAG"} => pit'.pre = pit.pre
  /\ pit.ien = pit.en => pit'.ien = pit'.en
  /\ pit'.flag => pit.en
  /\ pit'.irq => pit.flag

\* What one load or store of a driver function does to registers, shadow and call.
LEMMA AccessEffect ==
  ASSUME Types, NEW f \in CallSet, f.todo # <<>>, NEW rest, Access(f, rest)
  PROVE  Effect(f, rest, Head(f.todo))
<1> DEFINE op == Head(f.todo)
           reg == CASE op = "load" -> Load(f)
                    [] op = "loadEn" -> [shadow EXCEPT !.en = TRUE]
                    [] OTHER -> f.reg
           w == CASE op = "CTRL" -> WriteCtrl(f.reg)
                  [] op = "MOD" -> WriteMod(f.mod)
                  [] op = "FLAG" -> WriteFlag
                  [] OTHER -> None
<1>1. /\ rest = IF Len(f.todo) = 1 THEN Idle ELSE [f EXCEPT !.todo = Tail(@), !.reg = reg]
      /\ shadow' = (CASE op = "shadow" -> f.reg [] op = "clear" -> Off [] OTHER -> shadow)
      /\ PitClock(w)
  BY DEF Access
<1>2. /\ reg.en = (CASE op = "load" -> shadow.en [] op = "loadEn" -> TRUE [] OTHER -> f.reg.en)
      /\ op \notin {"load", "loadEn"} => reg = f.reg
  BY DEF Load, Types, Ctrl
<1>3. /\ w.reg = (CASE op \in {"CTRL", "FLAG"} -> "CTRL" [] op = "MOD" -> "MOD" [] OTHER -> "none")
      /\ op = "CTRL" => w.en = f.reg.en /\ w.pre = f.reg.pre
      /\ op = "FLAG" => w.en = FALSE
  BY DEF WriteCtrl, WriteMod, WriteFlag, None
<1>4. Len(f.todo) # 1 => rest.todo = Tail(f.todo) /\ rest.reg = reg
  <2> HIDE DEF reg
  <2> QED BY <1>1 DEF CallSet
<1>5. /\ pit'.pre = (IF w.reg = "CTRL" THEN w.pre ELSE pit.pre)
      /\ pit'.en = (IF w.reg = "CTRL" THEN w.en ELSE pit.en)
      /\ pit'.ien = (IF w.reg = "CTRL" THEN w.en ELSE pit.ien)
      /\ pit'.flag = (pit.en /\ ~pit.clr /\ (rollover \/ pit.flag))
      /\ pit'.irq = (pit.flag /\ pit.ien)
  BY <1>1, PitFields
<1> HIDE DEF w, reg, op
<1>6. /\ pit'.en = (CASE op = "CTRL" -> f.reg.en [] op = "FLAG" -> FALSE [] OTHER -> pit.en)
      /\ op = "CTRL" => pit'.pre = f.reg.pre
      /\ op \notin {"CTRL", "FLAG"} => pit'.pre = pit.pre
      /\ pit.ien = pit.en => pit'.ien = pit'.en
  BY <1>3, <1>5
<1> QED BY <1>1, <1>2, <1>4, <1>5, <1>6 DEF Effect, op

\* A clock without an access.
LEMMA NoEffect ==
  ASSUME PitClock(None)
  PROVE  /\ pit'.en = pit.en /\ pit'.pre = pit.pre /\ pit'.ien = pit.ien
         /\ pit'.flag => pit.en
         /\ pit'.irq => pit.flag /\ pit.ien
<1>1. None.reg = "none" BY DEF None
<1> DEFINE w == None
<1>2. PitClock(w) /\ w.reg = "none" BY <1>1
<1> HIDE DEF w
<1> QED BY <1>2, PitFields

\* The concatenations in the programs, spelled out.
LEMMA SeqEq ==
  ASSUME NEW S, NEW s \in Seq(S), NEW t \in Seq(S), Len(s) = Len(t),
         \A i \in 1 .. Len(s) : s[i] = t[i]
  PROVE  s = t
OBVIOUS

\* The handlers' functions one after the other are the sequences that the invariant lists.
LEMMA Concats ==
  /\ \A t \in timer_set : timer_ack_intrq \o t \in AckTodo
  /\ timer_init \o timer_ack_intrq \o <<"status">> \in StopTodo
  /\ <<"status0">> \o timer_clear_ctrl = <<"status0", "clear", "CTRL">>
<1>1. <<"FLAG">> \o <<"load", "shadow", "MOD", "CTRL">> = <<"FLAG", "load", "shadow", "MOD", "CTRL">>
  <2> DEFINE s == <<"FLAG">> \o <<"load", "shadow", "MOD", "CTRL">>
             t == <<"FLAG", "load", "shadow", "MOD", "CTRL">>
  <2>1. s \in Seq(Op) /\ Len(s) = 5 /\ t \in Seq(Op) /\ Len(t) = 5 BY DEF Op
  <2>2. \A i \in 1 .. 5 : s[i] = t[i] OBVIOUS
  <2> HIDE DEF s, t
  <2>3. s = t BY <2>1, <2>2, SeqEq
  <2> QED BY <2>3 DEF s, t
<1>2. <<"FLAG">> \o <<"load", "MOD", "shadow", "CTRL">> = <<"FLAG", "load", "MOD", "shadow", "CTRL">>
  <2> DEFINE s == <<"FLAG">> \o <<"load", "MOD", "shadow", "CTRL">>
             t == <<"FLAG", "load", "MOD", "shadow", "CTRL">>
  <2>1. s \in Seq(Op) /\ Len(s) = 5 /\ t \in Seq(Op) /\ Len(t) = 5 BY DEF Op
  <2>2. \A i \in 1 .. 5 : s[i] = t[i] OBVIOUS
  <2> HIDE DEF s, t
  <2>3. s = t BY <2>1, <2>2, SeqEq
  <2> QED BY <2>3 DEF s, t
<1>3. <<"clear", "CTRL", "MOD">> \o <<"FLAG">> \o <<"status">>
        = <<"clear", "CTRL", "MOD", "FLAG", "status">>
  <2> DEFINE s == <<"clear", "CTRL", "MOD">> \o <<"FLAG">> \o <<"status">>
             t == <<"clear", "CTRL", "MOD", "FLAG", "status">>
  <2>1. s \in Seq(Op) /\ Len(s) = 5 /\ t \in Seq(Op) /\ Len(t) = 5 BY DEF Op
  <2>2. \A i \in 1 .. 5 : s[i] = t[i] OBVIOUS
  <2> HIDE DEF s, t
  <2>3. s = t BY <2>1, <2>2, SeqEq
  <2> QED BY <2>3 DEF s, t
<1>4. <<"status0">> \o <<"clear", "CTRL">> = <<"status0", "clear", "CTRL">>
  <2> DEFINE s == <<"status0">> \o <<"clear", "CTRL">>
             t == <<"status0", "clear", "CTRL">>
  <2>1. s \in Seq(Op) /\ Len(s) = 3 /\ t \in Seq(Op) /\ Len(t) = 3 BY DEF Op
  <2>2. \A i \in 1 .. 3 : s[i] = t[i] OBVIOUS
  <2> HIDE DEF s, t
  <2>3. s = t BY <2>1, <2>2, SeqEq
  <2> QED BY <2>3 DEF s, t
<1>5. \A t \in timer_set : timer_ack_intrq \o t \in AckTodo
  BY <1>1, <1>2 DEF timer_set, timer_ack_intrq, AckTodo
<1>6. timer_init \o timer_ack_intrq \o <<"status">> \in StopTodo
  BY <1>3 DEF timer_init, timer_ack_intrq, StopTodo
<1> QED BY <1>4, <1>5, <1>6 DEF timer_clear_ctrl

\* Heads and tails of the calls' accesses.
LEMMA Heads ==
  /\ \A t \in SetTodo : Head(t) = "load" /\ Len(t) # 1 /\ Tail(t) \in LoadedTodo /\ t # <<>>
  /\ \A t \in AckTodo : Head(t) = "FLAG" /\ Len(t) # 1 /\ Tail(t) \in SetTodo /\ t # <<>>
  /\ \A t \in LoadedTodo :
       /\ Len(t) # 1 /\ t # <<>>
       /\ \/ Head(t) = "shadow" /\ Tail(t) \in StoredTodo
          \/ Head(t) = "MOD" /\ Tail(t) \in LoadedTodo
  /\ \A t \in StoredTodo :
       /\ t # <<>>
       /\ \/ Head(t) = "MOD" /\ Len(t) # 1 /\ Tail(t) = <<"CTRL">>
          \/ Head(t) = "CTRL" /\ Len(t) = 1
  /\ \A t \in StopTodo : Head(t) = "clear" /\ Len(t) # 1 /\ Tail(t) \in StoppingTodo /\ t # <<>>
  /\ \A t \in StoppingTodo : Head(t) = "CTRL" /\ Len(t) # 1 /\ Tail(t) \in StoppedTodo /\ t # <<>>
  /\ \A t \in StoppedTodo :
       /\ t # <<>> /\ Head(t) \in {"MOD", "FLAG", "status"}
       /\ Len(t) = 1 \/ Tail(t) \in StoppedTodo
<1>1. \A t \in SetTodo : Head(t) = "load" /\ Len(t) # 1 /\ Tail(t) \in LoadedTodo /\ t # <<>>
  <2> DEFINE P(t) == Head(t) = "load" /\ Len(t) # 1 /\ Tail(t) \in LoadedTodo /\ t # <<>>
  <2>1. P(<<"load", "shadow", "MOD", "CTRL">>) BY DEF LoadedTodo
  <2>2. P(<<"load", "MOD", "shadow", "CTRL">>) BY DEF LoadedTodo
  <2> QED BY <2>1, <2>2, Zenon DEF SetTodo
<1>2. \A t \in AckTodo : Head(t) = "FLAG" /\ Len(t) # 1 /\ Tail(t) \in SetTodo /\ t # <<>>
  <2> DEFINE P(t) == Head(t) = "FLAG" /\ Len(t) # 1 /\ Tail(t) \in SetTodo /\ t # <<>>
  <2>1. P(<<"FLAG", "load", "shadow", "MOD", "CTRL">>) BY DEF SetTodo
  <2>2. P(<<"FLAG", "load", "MOD", "shadow", "CTRL">>) BY DEF SetTodo
  <2> QED BY <2>1, <2>2, Zenon DEF AckTodo
<1>3. \A t \in LoadedTodo :
       /\ Len(t) # 1 /\ t # <<>>
       /\ \/ Head(t) = "shadow" /\ Tail(t) \in StoredTodo
          \/ Head(t) = "MOD" /\ Tail(t) \in LoadedTodo
  <2> DEFINE P(t) == 
       /\ Len(t) # 1 /\ t # <<>>
       /\ \/ Head(t) = "shadow" /\ Tail(t) \in StoredTodo
          \/ Head(t) = "MOD" /\ Tail(t) \in LoadedTodo
  <2>1. P(<<"shadow", "MOD", "CTRL">>) BY DEF LoadedTodo, StoredTodo
  <2>2. P(<<"MOD", "shadow", "CTRL">>) BY DEF LoadedTodo, StoredTodo
  <2>3. P(<<"shadow", "CTRL">>) BY DEF LoadedTodo, StoredTodo
  <2> QED BY <2>1, <2>2, <2>3, Zenon DEF LoadedTodo
<1>4. \A t \in StoredTodo :
       /\ t # <<>>
       /\ \/ Head(t) = "MOD" /\ Len(t) # 1 /\ Tail(t) = <<"CTRL">>
          \/ Head(t) = "CTRL" /\ Len(t) = 1
  <2> DEFINE P(t) == 
       /\ t # <<>>
       /\ \/ Head(t) = "MOD" /\ Len(t) # 1 /\ Tail(t) = <<"CTRL">>
          \/ Head(t) = "CTRL" /\ Len(t) = 1
  <2>1. P(<<"MOD", "CTRL">>) OBVIOUS
  <2>2. P(<<"CTRL">>) OBVIOUS
  <2> QED BY <2>1, <2>2, Zenon DEF StoredTodo
<1>5. \A t \in StopTodo : Head(t) = "clear" /\ Len(t) # 1 /\ Tail(t) \in StoppingTodo /\ t # <<>>
  <2> DEFINE P(t) == Head(t) = "clear" /\ Len(t) # 1 /\ Tail(t) \in StoppingTodo /\ t # <<>>
  <2>1. P(<<"clear", "CTRL", "MOD", "FLAG", "status">>) BY DEF StoppingTodo
  <2> QED BY <2>1, Zenon DEF StopTodo
<1>6. \A t \in StoppingTodo : Head(t) = "CTRL" /\ Len(t) # 1 /\ Tail(t) \in StoppedTodo /\ t # <<>>
  <2> DEFINE P(t) == Head(t) = "CTRL" /\ Len(t) # 1 /\ Tail(t) \in StoppedTodo /\ t # <<>>
  <2>1. P(<<"CTRL", "MOD", "FLAG", "status">>) BY DEF StoppedTodo
  <2> QED BY <2>1, Zenon DEF StoppingTodo
<1>7. \A t \in StoppedTodo :
       /\ t # <<>> /\ Head(t) \in {"MOD", "FLAG", "status"}
       /\ Len(t) = 1 \/ Tail(t) \in StoppedTodo
  <2> DEFINE P(t) == 
       /\ t # <<>> /\ Head(t) \in {"MOD", "FLAG", "status"}
       /\ Len(t) = 1 \/ Tail(t) \in StoppedTodo
  <2>1. P(<<"MOD", "FLAG", "status">>) BY DEF StoppedTodo
  <2>2. P(<<"FLAG", "status">>) BY DEF StoppedTodo
  <2>3. P(<<"status">>) BY DEF StoppedTodo
  <2> QED BY <2>1, <2>2, <2>3, Zenon DEF StoppedTodo
<1> QED BY <1>1, <1>2, <1>3, <1>4, <1>5, <1>6, <1>7

\* The accesses of a call that loads the control word.
LEMMA SetHead ==
  ASSUME NEW t \in SetTodo
  PROVE  Head(t) = "load" /\ Len(t) # 1 /\ Tail(t) \in LoadedTodo /\ t # <<>> /\ Tail(t) # <<>>
BY Heads

\* The accesses of a call that acknowledges first.
LEMMA AckHead ==
  ASSUME NEW t \in AckTodo
  PROVE  Head(t) = "FLAG" /\ Len(t) # 1 /\ Tail(t) \in SetTodo /\ t # <<>> /\ Tail(t) # <<>>
BY Heads

\* The accesses after the control word is loaded.
LEMMA LoadedHead ==
  ASSUME NEW t \in LoadedTodo
  PROVE  /\ Len(t) # 1 /\ t # <<>> /\ Tail(t) # <<>>
         /\ \/ Head(t) = "shadow" /\ Tail(t) \in StoredTodo
            \/ Head(t) = "MOD" /\ Tail(t) \in LoadedTodo
BY Heads

\* The accesses of a call that stops the timer.
LEMMA StopHead ==
  ASSUME NEW t \in StopTodo
  PROVE  Head(t) = "clear" /\ Len(t) # 1 /\ Tail(t) \in StoppingTodo /\ t # <<>> /\ Tail(t) # <<>>
BY Heads

\* The accesses after the shadow is cleared.
LEMMA StoppingHead ==
  ASSUME NEW t \in StoppingTodo
  PROVE  Head(t) = "CTRL" /\ Len(t) # 1 /\ Tail(t) \in StoppedTodo /\ t # <<>> /\ Tail(t) # <<>>
BY Heads

\* The handler's accesses: while it runs main stands still, and when it ends the
\* shadow and the hardware agree again or are both off.
LEMMA HandlerShadow ==
  ASSUME Types, Types', ShadowInv, HandlerStep, program' = program, program # "reconfigure"
  PROVE  ShadowInv'
<1> DEFINE op == Head(handler.todo)
<1>1. handler \in CallSet /\ handler # Idle /\ handler.todo # <<>> /\ main' = main
  BY DEF HandlerStep, Types, CallOK
<1>2. Effect(handler, handler', op) BY <1>1, AccessEffect DEF HandlerStep
<1>3. pit'.ien = pit'.en BY <1>2 DEF Effect, ShadowInv
<1>4. handler.reg \in Ctrl /\ shadow \in Ctrl BY <1>1 DEF CallSet, Types
<1>5. HandlerOK /\ (Calm \/ Clearing \/ Setting) BY <1>1 DEF ShadowInv, Starting
<1> HIDE DEF op
<1>6. Off.en = FALSE BY DEF Off
\* What an access may do besides, and that it is enough.
<1>7. ASSUME HandlerOK', ~shadow.en => ~shadow'.en, BothOff => BothOff', handler' = Idle => Agree'
      PROVE  ShadowInv'
  <2>1. Calm => Calm' BY <1>1, <1>7 DEF Calm
  <2>2. Clearing => Clearing' BY <1>1, <1>7 DEF Clearing
  <2>3. Setting => Setting' BY <1>1, <1>7 DEF Setting
  <2> QED BY <1>3, <1>5, <1>7, <2>1, <2>2, <2>3 DEF ShadowInv
<1>8. ASSUME Len(handler.todo) # 1, Tail(handler.todo) # <<>>
      PROVE  handler'.todo = Tail(handler.todo) /\ handler' # Idle
  <2>1. Idle.todo = <<>> BY DEF Idle
  <2>2. handler'.todo = Tail(handler.todo) BY <1>2, <1>8 DEF Effect
  <2> QED BY <1>8, <2>1, <2>2
<1>9. CASE handler.todo \in SetTodo
  <2>0. /\ Head(handler.todo) = "load" /\ Len(handler.todo) # 1
        /\ Tail(handler.todo) \in LoadedTodo /\ Tail(handler.todo) # <<>>
    BY <1>9, SetHead
  <2>1. op = "load" /\ handler'.todo \in LoadedTodo /\ handler' # Idle /\ Len(handler.todo) # 1
    BY <1>8, <2>0 DEF op
  <2>2. handler'.reg.en = shadow.en /\ shadow' = shadow /\ pit'.en = pit.en BY <1>2, <2>1 DEF Effect
  <2>3. HandlerOK' BY <2>1, <2>2 DEF HandlerOK
  <2> QED BY <1>7, <2>1, <2>2, <2>3 DEF BothOff
<1>10. CASE handler.todo \in AckTodo
  <2>0. /\ Head(handler.todo) = "FLAG" /\ Len(handler.todo) # 1
        /\ Tail(handler.todo) \in SetTodo /\ Tail(handler.todo) # <<>>
    BY <1>10, AckHead
  <2>1. op = "FLAG" /\ handler'.todo \in SetTodo /\ handler' # Idle
    BY <1>8, <2>0 DEF op
  <2>2. shadow' = shadow /\ pit'.en = FALSE BY <1>2, <2>1 DEF Effect
  <2>3. HandlerOK' BY <2>1 DEF HandlerOK
  <2> QED BY <1>7, <2>1, <2>2, <2>3 DEF BothOff
<1>11. CASE handler.todo \in LoadedTodo /\ handler.reg.en = shadow.en
  <2>0. Len(handler.todo) # 1 /\ Tail(handler.todo) # <<>> BY <1>11, LoadedHead
  <2>1. handler' # Idle /\ Len(handler.todo) # 1 BY <1>8, <2>0
  <2>2. CASE op = "shadow" /\ handler'.todo \in StoredTodo
    <3>1. handler'.reg = handler.reg /\ shadow' = handler.reg /\ pit'.en = pit.en
      BY <1>2, <2>1, <2>2 DEF Effect
    <3>2. HandlerOK' BY <2>2, <3>1 DEF HandlerOK
    <3> QED BY <1>7, <1>11, <2>1, <3>1, <3>2 DEF BothOff
  <2>3. CASE op = "MOD" /\ handler'.todo \in LoadedTodo
    <3>1. handler'.reg = handler.reg /\ shadow' = shadow /\ pit'.en = pit.en
      BY <1>2, <2>1, <2>3 DEF Effect
    <3>2. HandlerOK' BY <1>11, <2>3, <3>1 DEF HandlerOK
    <3> QED BY <1>7, <2>1, <3>1, <3>2 DEF BothOff
  <2>4. \/ op = "shadow" /\ Tail(handler.todo) \in StoredTodo
        \/ op = "MOD" /\ Tail(handler.todo) \in LoadedTodo
    BY <1>11, LoadedHead DEF op
  <2>5. handler'.todo = Tail(handler.todo) BY <1>2, <2>1 DEF Effect
  <2> QED BY <2>2, <2>3, <2>4, <2>5
<1>12. CASE handler.todo \in StoredTodo /\ handler.reg = shadow
  <2>1. CASE op = "MOD" /\ Len(handler.todo) # 1 /\ Tail(handler.todo) = <<"CTRL">>
    <3>1. handler'.todo \in StoredTodo /\ handler' # Idle
      <4>1. <<"CTRL">> \in StoredTodo /\ <<"CTRL">> # <<>> BY DEF StoredTodo
      <4>2. Tail(handler.todo) \in StoredTodo /\ Tail(handler.todo) # <<>> BY <2>1, <4>1
      <4>3. Len(handler.todo) # 1 BY <2>1
      <4>4. handler'.todo = Tail(handler.todo) BY <1>2, <4>3 DEF Effect
      <4>5. Idle.todo = <<>> BY DEF Idle
      <4> QED BY <4>2, <4>4, <4>5
    <3>2. handler'.reg = handler.reg /\ shadow' = shadow /\ pit'.en = pit.en
      BY <1>2, <2>1 DEF Effect
    <3>3. HandlerOK' BY <1>12, <3>1, <3>2 DEF HandlerOK
    <3> QED BY <1>7, <3>1, <3>2, <3>3 DEF BothOff
  <2>2. CASE op = "CTRL" /\ Len(handler.todo) = 1
    <3>1. handler' = Idle /\ shadow' = shadow /\ pit'.en = shadow.en /\ pit'.pre = shadow.pre
      BY <1>2, <1>12, <2>2 DEF Effect
    <3>2. HandlerOK' /\ Agree' BY <3>1 DEF HandlerOK, Agree
    <3> QED BY <1>7, <3>1, <3>2 DEF BothOff
  <2> QED BY <1>12, <2>1, <2>2, Heads DEF op
<1>13. CASE handler.todo \in StopTodo /\ ~handler.reg.en
  <2>0. /\ Head(handler.todo) = "clear" /\ Len(handler.todo) # 1
        /\ Tail(handler.todo) \in StoppingTodo /\ Tail(handler.todo) # <<>>
    BY <1>13, StopHead
  <2>1. op = "clear" /\ handler'.todo \in StoppingTodo /\ handler' # Idle /\ Len(handler.todo) # 1
    BY <1>8, <2>0 DEF op
  <2>2. handler'.reg = handler.reg /\ ~shadow'.en /\ pit'.en = pit.en
    BY <1>2, <1>6, <2>1 DEF Effect
  <2>3. HandlerOK' BY <1>13, <2>1, <2>2 DEF HandlerOK
  <2> QED BY <1>7, <2>1, <2>2, <2>3 DEF BothOff
<1>14. CASE handler.todo \in StoppingTodo /\ ~handler.reg.en /\ ~shadow.en
  <2>0. /\ Head(handler.todo) = "CTRL" /\ Len(handler.todo) # 1
        /\ Tail(handler.todo) \in StoppedTodo /\ Tail(handler.todo) # <<>>
    BY <1>14, StoppingHead
  <2>1. op = "CTRL" /\ handler'.todo \in StoppedTodo /\ handler' # Idle
    BY <1>8, <2>0 DEF op
  <2>2. shadow' = shadow /\ ~pit'.en BY <1>2, <1>14, <2>1 DEF Effect
  <2>3. HandlerOK' BY <1>14, <2>1, <2>2 DEF HandlerOK, BothOff
  <2> QED BY <1>7, <2>1, <2>2, <2>3 DEF BothOff
<1>15. CASE handler.todo \in StoppedTodo /\ BothOff
  <2>1. op \in {"MOD", "FLAG", "status"} BY <1>15, Heads DEF op
  <2>2. BothOff' /\ shadow' = shadow BY <1>2, <1>15, <2>1 DEF Effect, BothOff
  <2>3. CASE Len(handler.todo) = 1
    <3>1. handler' = Idle BY <1>2, <2>3 DEF Effect
    <3>2. HandlerOK' /\ Agree' BY <2>2, <3>1 DEF HandlerOK, Agree, BothOff, Types, Ctrl, PitSet
    <3> QED BY <1>7, <2>2, <3>2
  <2>4. CASE Len(handler.todo) # 1
    <3>1. Tail(handler.todo) \in StoppedTodo BY <1>15, <2>4, Heads
    <3>2. Tail(handler.todo) # <<>> BY <3>1, Heads
    <3>3. handler'.todo \in StoppedTodo /\ handler' # Idle BY <1>8, <2>4, <3>1, <3>2
    <3>4. HandlerOK' BY <2>2, <3>3 DEF HandlerOK
    <3> QED BY <1>7, <2>2, <3>3, <3>4
  <2> QED BY <2>3, <2>4
<1> QED BY <1>1, <1>5, <1>9, <1>10, <1>11, <1>12, <1>13, <1>14, <1>15 DEF HandlerOK

\* Heads and tails of main's other calls.
LEMMA MainHeads ==
  /\ Head(<<"status0", "clear", "CTRL">>) = "status0" /\ Len(<<"status0", "clear", "CTRL">>) # 1
  /\ Tail(<<"status0", "clear", "CTRL">>) = <<"clear", "CTRL">>
  /\ Head(<<"clear", "CTRL", "MOD">>) = "clear" /\ Len(<<"clear", "CTRL", "MOD">>) # 1
  /\ Tail(<<"clear", "CTRL", "MOD">>) = <<"CTRL", "MOD">>
  /\ Head(<<"clear", "CTRL">>) = "clear" /\ Len(<<"clear", "CTRL">>) # 1
  /\ Tail(<<"clear", "CTRL">>) = <<"CTRL">>
  /\ Head(<<"CTRL", "MOD">>) = "CTRL" /\ Len(<<"CTRL", "MOD">>) # 1
  /\ Tail(<<"CTRL", "MOD">>) = <<"MOD">>
  /\ Head(<<"CTRL">>) = "CTRL" /\ Len(<<"CTRL">>) = 1
  /\ Head(<<"MOD">>) = "MOD" /\ Len(<<"MOD">>) = 1
  /\ Head(<<"MOD", "CTRL">>) = "MOD" /\ Len(<<"MOD", "CTRL">>) # 1
  /\ Tail(<<"MOD", "CTRL">>) = <<"CTRL">>
  /\ Head(<<"shadow", "CTRL">>) = "shadow" /\ Len(<<"shadow", "CTRL">>) # 1
  /\ Tail(<<"shadow", "CTRL">>) = <<"CTRL">>
  /\ Head(<<"loadEn", "shadow", "CTRL">>) = "loadEn" /\ Len(<<"loadEn", "shadow", "CTRL">>) # 1
  /\ Tail(<<"loadEn", "shadow", "CTRL">>) = <<"shadow", "CTRL">>
OBVIOUS

\* Main's accesses, while no handler runs.
LEMMA MainShadow ==
  ASSUME Types, Types', ShadowInv, MainStep, program' = program, program # "reconfigure"
  PROVE  ShadowInv'
<1> DEFINE op == Head(main.todo)
<1>1. main \in CallSet /\ main # Idle /\ main.todo # <<>> /\ handler = Idle /\ handler' = Idle
  BY DEF MainStep, Types, CallOK
<1>2. Effect(main, main', op) BY <1>1, AccessEffect DEF MainStep
<1>3. pit'.ien = pit'.en /\ pit.ien = pit.en BY <1>2 DEF Effect, ShadowInv
<1>4. HandlerOK' BY <1>1 DEF HandlerOK
<1>5. Calm' \/ Clearing' \/ Setting' \/ Starting' => ShadowInv' BY <1>3, <1>4 DEF ShadowInv
<1>6. Off.en = FALSE BY DEF Off
<1>7. /\ pit.en \in BOOLEAN /\ pit'.en \in BOOLEAN /\ shadow.en \in BOOLEAN /\ shadow'.en \in BOOLEAN
      /\ main.reg.en \in BOOLEAN
  BY <1>1 DEF Types, PitSet, Ctrl, CallSet
<1> HIDE DEF op
<1>8. CASE Calm
  <2>1. ~main.reg.en BY <1>1, <1>8 DEF Calm
  <2>2. CASE main.todo = <<"status0", "clear", "CTRL">>
    <3>1. /\ op = "status0" /\ main'.todo = <<"clear", "CTRL">> /\ Len(main.todo) # 1
      BY <1>2, <2>2, MainHeads DEF Effect, op
    <3>2. ~main'.reg.en /\ shadow' = shadow /\ pit'.en = pit.en /\ pit'.pre = pit.pre
      BY <1>2, <2>1, <3>1 DEF Effect
    <3>3. Calm' BY <1>1, <1>8, <3>1, <3>2 DEF Calm, Agree
    <3> QED BY <1>5, <3>3
  <2>3. CASE main.todo \in {<<"clear", "CTRL", "MOD">>, <<"clear", "CTRL">>}
    <3>1. /\ op = "clear" /\ main'.todo \in {<<"CTRL", "MOD">>, <<"CTRL">>} /\ Len(main.todo) # 1
      BY <1>2, <2>3, MainHeads DEF Effect, op
    <3>2. ~main'.reg.en /\ ~shadow'.en BY <1>2, <1>6, <2>1, <3>1 DEF Effect
    <3>3. Clearing' BY <3>1, <3>2 DEF Clearing
    <3> QED BY <1>5, <3>3
  <2> QED BY <1>1, <1>8, <2>2, <2>3 DEF Calm
<1>9. CASE Clearing
  <2>1. ~main.reg.en /\ ~shadow.en /\ main.todo \in {<<"CTRL", "MOD">>, <<"CTRL">>}
    BY <1>9 DEF Clearing
  <2>2. op = "CTRL" BY <2>1, MainHeads DEF op
  <2>3. BothOff' /\ shadow' = shadow BY <1>2, <2>1, <2>2 DEF Effect, BothOff
  <2>4. CASE main.todo = <<"CTRL", "MOD">>
    <3>1. main'.todo = <<"MOD">> /\ ~main'.reg.en
      BY <1>2, <2>1, <2>2, <2>4, MainHeads DEF Effect
    <3>2. Setting' BY <2>3, <3>1 DEF Setting
    <3> QED BY <1>5, <3>2
  <2>5. CASE main.todo = <<"CTRL">>
    <3>1. main' = Idle BY <1>2, <2>5, MainHeads DEF Effect
    <3>2. Calm' BY <1>7, <2>3, <3>1 DEF Calm, Agree, BothOff
    <3> QED BY <1>5, <3>2
  <2> QED BY <2>1, <2>4, <2>5
<1>10. CASE Setting
  <2>1. /\ ~main.reg.en /\ BothOff
        /\ main.todo \in {<<"MOD">>, <<"MOD", "CTRL">>} \cup SetTodo \cup LoadedTodo
    BY <1>10 DEF Setting
  <2>2. CASE main.todo = <<"MOD">>
    <3>1. op = "MOD" /\ main' = Idle BY <1>2, <2>2, MainHeads DEF Effect, op
    <3>2. BothOff' BY <1>2, <2>1, <3>1 DEF Effect, BothOff
    <3>3. Calm' BY <1>7, <3>1, <3>2 DEF Calm, Agree, BothOff
    <3> QED BY <1>5, <3>3
  <2>3. CASE main.todo = <<"MOD", "CTRL">>
    <3>1. op = "MOD" /\ main'.todo = <<"CTRL">> /\ Len(main.todo) # 1
      BY <1>2, <2>3, MainHeads DEF Effect, op
    <3>2. ~shadow'.en /\ ~main'.reg.en BY <1>2, <2>1, <3>1 DEF Effect, BothOff
    <3>3. Clearing' BY <3>1, <3>2 DEF Clearing
    <3> QED BY <1>5, <3>3
  <2>4. CASE main.todo \in SetTodo
    <3>1. op = "load" /\ main'.todo \in LoadedTodo /\ Len(main.todo) # 1
      BY <1>2, <2>4, SetHead DEF Effect, op
    <3>2. BothOff' /\ ~main'.reg.en BY <1>2, <2>1, <3>1 DEF Effect, BothOff
    <3>3. Setting' BY <3>1, <3>2 DEF Setting
    <3> QED BY <1>5, <3>3
  <2>5. CASE main.todo \in LoadedTodo
    <3>1. Len(main.todo) # 1 /\ main'.todo = Tail(main.todo) BY <1>2, <2>5, LoadedHead DEF Effect
    <3>2. op \in {"shadow", "MOD"} BY <2>5, LoadedHead DEF op
    <3>3. BothOff' /\ ~main'.reg.en BY <1>2, <2>1, <3>1, <3>2 DEF Effect, BothOff
    <3>4. main'.todo \in StoredTodo \cup LoadedTodo BY <2>5, <3>1, LoadedHead
    <3>5. Setting' \/ Clearing' BY <3>3, <3>4 DEF Setting, Clearing, StoredTodo, BothOff
    <3> QED BY <1>5, <3>5
  <2> QED BY <2>1, <2>2, <2>3, <2>4, <2>5
<1>11. CASE Starting
  <2>1. ~pit.en /\ ~pit.flag BY <1>11 DEF Starting
  <2>2. ~pit'.flag /\ ~pit'.irq BY <1>2, <2>1 DEF Effect
  <2>3. CASE main.todo = <<"loadEn", "shadow", "CTRL">>
    <3>1. op = "loadEn" /\ main'.todo = <<"shadow", "CTRL">> /\ Len(main.todo) # 1
      BY <1>2, <2>3, MainHeads DEF Effect, op
    <3>2. main'.reg.en /\ ~pit'.en BY <1>2, <2>1, <3>1 DEF Effect
    <3>3. Starting' BY <1>1, <2>2, <3>1, <3>2 DEF Starting
    <3> QED BY <1>5, <3>3
  <2>4. CASE main.todo = <<"shadow", "CTRL">> /\ main.reg.en
    <3>1. op = "shadow" /\ main'.todo = <<"CTRL">> /\ Len(main.todo) # 1
      BY <1>2, <2>4, MainHeads DEF Effect, op
    <3>2. main'.reg = main.reg /\ shadow' = main.reg /\ ~pit'.en BY <1>2, <2>1, <3>1 DEF Effect
    <3>3. Starting' BY <1>1, <2>2, <2>4, <3>1, <3>2 DEF Starting
    <3> QED BY <1>5, <3>3
  <2>5. CASE main.todo = <<"CTRL">> /\ main.reg.en /\ main.reg = shadow
    <3>1. op = "CTRL" /\ main' = Idle BY <1>2, <2>5, MainHeads DEF Effect, op
    <3>2. shadow' = shadow /\ pit'.en = shadow.en /\ pit'.pre = shadow.pre
      BY <1>2, <2>5, <3>1 DEF Effect
    <3>3. Calm' BY <3>1, <3>2 DEF Calm, Agree
    <3> QED BY <1>5, <3>3
  <2> QED BY <1>11, <2>3, <2>4, <2>5 DEF Starting
<1> QED BY <1>8, <1>9, <1>10, <1>11 DEF ShadowInv

\* Main calls the driver.
LEMMA CallShadow ==
  ASSUME Types, Types', ShadowInv, MainCalls, program' = program, program # "reconfigure"
  PROVE  ShadowInv'
<1>1. handler = Idle /\ handler' = Idle /\ main = Idle /\ shadow' = shadow /\ PitClock(None)
  BY DEF MainCalls, Begin, progVars
<1>2. /\ pit'.en = pit.en /\ pit'.pre = pit.pre /\ pit'.ien = pit.ien
      /\ pit'.flag => pit.en
      /\ pit'.irq => pit.flag /\ pit.ien
  BY <1>1, NoEffect
<1>3. pit.ien = pit.en /\ HandlerOK' BY <1>1 DEF ShadowInv, HandlerOK
<1>4. Calm' \/ Setting' \/ Starting' => ShadowInv' BY <1>2, <1>3 DEF ShadowInv
<1>5. Idle.todo = <<>> BY DEF Idle
<1>6. Calm
  <2>1. main.todo = <<>> BY <1>1, <1>5
  <2>2. \A t \in SetTodo \cup LoadedTodo : t # <<>> BY Heads
  <2>3. /\ <<"CTRL", "MOD">> # <<>> /\ <<"CTRL">> # <<>> /\ <<"MOD">> # <<>> /\ <<"MOD", "CTRL">> # <<>>
        /\ <<"loadEn", "shadow", "CTRL">> # <<>> /\ <<"shadow", "CTRL">> # <<>>
    OBVIOUS
  <2>4. ~Clearing BY <2>1, <2>3 DEF Clearing
  <2>5. ~Setting BY <2>1, <2>2, <2>3 DEF Setting
  <2>6. ~Starting BY <2>1, <2>3 DEF Starting
  <2> QED BY <2>4, <2>5, <2>6 DEF ShadowInv
<1>7. Agree /\ Agree' BY <1>1, <1>2, <1>6 DEF Calm, Agree
<1>8. ASSUME NEW t, NEW m, NEW p, Begin(Call(t, m, p))
      PROVE  main'.todo = t /\ ~main'.reg.en
  BY <1>8 DEF Begin, Call, Off
<1>9. ASSUME NEW t \in {<<"clear", "CTRL", "MOD">>, <<"clear", "CTRL">>, <<"status0", "clear", "CTRL">>},
             main'.todo = t, ~main'.reg.en
      PROVE  ShadowInv'
  <2>1. Calm' BY <1>7, <1>9 DEF Calm
  <2> QED BY <1>4, <2>1
<1>10. CASE ~shadow.en /\ main'.todo \in timer_set /\ ~main'.reg.en
  <2>1. BothOff' BY <1>1, <1>7, <1>10 DEF BothOff, Agree
  <2>2. main'.todo \in SetTodo BY <1>10 DEF timer_set, SetTodo
  <2>3. Setting' BY <1>10, <2>1, <2>2 DEF Setting
  <2> QED BY <1>4, <2>3
<1>11. CASE ~shadow.en /\ main'.todo = timer_en
  <2>1. ~pit.en /\ ~pit.ien BY <1>3, <1>7, <1>11 DEF Agree
  <2>2. ~pit'.en /\ ~pit'.flag /\ ~pit'.irq BY <1>2, <2>1
  <2>3. Starting' BY <1>1, <1>11, <2>2 DEF Starting, timer_en
  <2> QED BY <1>4, <2>3
<1>12. CASE Begin(Call(timer_init, 0, 0)) BY <1>8, <1>9, <1>12 DEF timer_init
<1>13. CASE Begin(Call(timer_clear_ctrl, 0, 0)) BY <1>8, <1>9, <1>13 DEF timer_clear_ctrl
<1>14. CASE Begin(Call(<<"status0">> \o timer_clear_ctrl, 0, 0))
  <2>1. main'.todo = <<"status0", "clear", "CTRL">> /\ ~main'.reg.en BY <1>8, <1>14, Concats
  <2> QED BY <1>9, <2>1
<1>15. CASE ~shadow.en /\ \E mod \in Mod, pre \in Prescaler, todo \in timer_set : Begin(Call(todo, mod, pre))
  BY <1>8, <1>10, <1>15
<1>16. CASE ~shadow.en /\ Begin(Call(timer_en, 0, 0)) BY <1>8, <1>11, <1>16
<1> QED BY <1>12, <1>13, <1>14, <1>15, <1>16 DEF MainCalls

\* An interrupt: main cannot be switching the timer on.
LEMMA InterruptShadow ==
  ASSUME Types, Types', ShadowInv, TakeInterrupt, program' = program, program # "reconfigure"
  PROVE  ShadowInv'
<1>1. handler = Idle /\ main' = main /\ shadow' = shadow /\ PitClock(None) /\ pit.irq
  BY DEF TakeInterrupt, progVars
<1>2. pit'.en = pit.en /\ pit'.pre = pit.pre /\ pit'.ien = pit.ien BY <1>1, NoEffect
<1>3. ~Starting BY <1>1 DEF Starting
<1>4. handler'.todo \in AckTodo \cup StopTodo /\ ~handler'.reg.en
  <2>1. ASSUME NEW t \in AckTodo \cup StopTodo, NEW m, NEW p, handler' = Call(t, m, p)
        PROVE  handler'.todo \in AckTodo \cup StopTodo /\ ~handler'.reg.en
    BY <2>1 DEF Call, Off
  <2> QED BY <2>1, Concats DEF TakeInterrupt
<1>5. handler' # Idle /\ HandlerOK'
  <2>1. handler'.todo # <<>> BY <1>4, Heads
  <2>2. Idle.todo = <<>> BY DEF Idle
  <2> QED BY <1>4, <2>1, <2>2 DEF HandlerOK
<1>6. Calm => Calm' BY <1>1, <1>5 DEF Calm
<1>7. Clearing => Clearing' BY <1>1 DEF Clearing
<1>8. Setting => Setting' BY <1>1, <1>2 DEF Setting, BothOff
<1> QED BY <1>2, <1>3, <1>5, <1>6, <1>7, <1>8 DEF ShadowInv

\* A clock of the core without an access.
LEMMA OtherShadow ==
  ASSUME ShadowInv, OtherClock, program' = program, program # "reconfigure"
  PROVE  ShadowInv'
<1>1. main' = main /\ handler' = handler /\ shadow' = shadow /\ PitClock(None)
  BY DEF OtherClock, progVars
<1>2. /\ pit'.en = pit.en /\ pit'.pre = pit.pre /\ pit'.ien = pit.ien
      /\ pit'.flag => pit.en
      /\ pit'.irq => pit.flag /\ pit.ien
  BY <1>1, NoEffect
<1>3. BothOff' = BothOff /\ Agree' = Agree BY <1>1, <1>2 DEF BothOff, Agree
<1>4. HandlerOK' = HandlerOK BY <1>1, <1>3 DEF HandlerOK
<1>5. Calm => Calm' BY <1>1, <1>3 DEF Calm
<1>6. Clearing => Clearing' BY <1>1 DEF Clearing
<1>7. Setting => Setting' BY <1>1, <1>3 DEF Setting
<1>8. Starting => Starting' BY <1>1, <1>2 DEF Starting
<1> QED BY <1>2, <1>4, <1>5, <1>6, <1>7, <1>8 DEF ShadowInv

\* Between driver calls the shadow of the control register says what the hardware
\* does, although the handler restarts or stops the timer in the middle of main's
\* calls (timer_clear_ctrl, timer_set and timer_en of timer.c).
THEOREM ShadowCorrect == Spec => []ShadowAgrees
<1>1. Init => ShadowInv
  BY DEF Init, ShadowInv, HandlerOK, Calm, Agree, Off
<1>2. Types /\ Types' /\ ShadowInv /\ [Next]_vars => ShadowInv'
  <2> SUFFICES ASSUME Types, Types', ShadowInv, [Next]_vars, program # "reconfigure"
               PROVE  ShadowInv'
    BY DEF ShadowInv, Next, vars
  <2>1. CASE Next
    <3>1. program' = program BY <2>1 DEF Next
    <3> QED BY <2>1, <3>1, MainShadow, CallShadow, InterruptShadow, HandlerShadow, OtherShadow DEF Next
  <2>2. CASE UNCHANGED vars
    BY <2>2 DEF vars, ShadowInv, HandlerOK, Calm, Clearing, Setting, Starting, Agree, BothOff
  <2> QED BY <2>1, <2>2
<1>3. Types /\ ShadowInv => ShadowAgrees
  <2> SUFFICES ASSUME Types, ShadowInv, main = Idle, handler = Idle, program # "reconfigure"
               PROVE  Agree
    BY DEF ShadowAgrees, Quiet, Agree
  <2>1. Idle.todo = <<>> BY DEF Idle
  <2>2. \A t \in SetTodo \cup LoadedTodo : t # <<>> BY Heads
  <2>3. /\ <<"CTRL", "MOD">> # <<>> /\ <<"CTRL">> # <<>> /\ <<"MOD">> # <<>> /\ <<"MOD", "CTRL">> # <<>>
        /\ <<"loadEn", "shadow", "CTRL">> # <<>> /\ <<"shadow", "CTRL">> # <<>>
    OBVIOUS
  <2>4. ~Clearing BY <2>1, <2>3 DEF Clearing
  <2>5. ~Setting BY <2>1, <2>2, <2>3 DEF Setting
  <2>6. ~Starting BY <2>1, <2>3 DEF Starting
  <2> QED BY <2>4, <2>5, <2>6 DEF ShadowInv, Calm
<1> QED BY <1>1, <1>2, <1>3, TypesHold, PTL DEF Spec
==============================================================================
