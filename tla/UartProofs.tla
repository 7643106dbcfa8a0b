----------------------------- MODULE UartProofs -----------------------------
(***************************************************************************)
(* Proofs about the UART and its driver: what the program is given, and    *)
(* what leaves on the wire, for any number of calls and bytes.  What a     *)
(* program may call is a hypothesis of each theorem; the driver does not   *)
(* hold for every program.                                                 *)
(***************************************************************************)
EXTENDS UartDriver, TLAPS

------------------------------------------------------------------------------
(***************************************************************************)
(* Where main and the handler can be.  A handler that works on a call came *)
(* from a callback and goes back to the end of its own code.               *)
(***************************************************************************)
CallLabel == {"modify", "write", "txPoll", "txCheck", "txWait", "txWaited", "rxPoll", "rxCheck",
              "txFill", "txState", "rxFill"}
MainLabel == {"init", "enable", "enableRx", "ready"} \cup CallLabel
RxLabel == {"rxIrq", "rxGot", "rxCallback", "rxDone"}
TxLabel == {"txIrq", "return", "txReady", "txCallback", "txDone"}
IsrLabel == {"none"} \cup RxLabel \cup TxLabel \cup CallLabel

Register == {"none", "SETUP", "CONTROL", "RX_DATA", "TX_DATA"}
Value == [CONTROL : SUBSET CrBit, RX_EMPTY : Bit, RX_BYTE : Nat, TX_BUSY : Bit]
AllCalls == MainCall \cup TxCallback \cup RxCallback

FlowInv ==
  /\ DOMAIN pc = Thread /\ pc["main"] \in MainLabel /\ pc["isr"] \in IsrLabel
  /\ pc["isr"] \in CallLabel => ret \in {"rxDone", "txDone"}
  /\ pc["isr"] = "rxCallback" => ret = "rxDone"
  /\ pc["isr"] \in {"txReady", "txCallback"} => ret = "txDone"
  /\ pc["main"] \in {"modify", "write"} => rmw["main"].to \in {"enableRx", "ready"}
  /\ pc["isr"] \in {"modify", "write"} =>
       rmw["isr"].to = ret \/ rmw["isr"].to = IF ret = "rxDone" THEN "rxCallback" ELSE "txReady"
  /\ DOMAIN rmw = Thread /\ \A t \in Thread : rmw[t].set \subseteq CrBit

\* The access under way, and the address that the UART still has of it.
Reading(k) == bus.adr = "RX_DATA" /\ bus.clock = k
BusInv ==
  /\ DOMAIN bus = {"adr", "we", "dat", "clock"} /\ bus.adr \in Register
  /\ bus.clock \in 0 .. 3 /\ (bus.clock = 0 => bus = Idle)
  /\ bus.adr = "RX_DATA" => bus.clock # 0 /\ ~bus.we /\ pc[Running] \in {"rxCheck", "rxGot"}
  /\ bus.we /\ bus.adr = "CONTROL" => bus.dat \subseteq CrBit
  /\ Reading(2) => r_wb_ack = 1
  /\ Reading(3) => r_wb_ack = 0 /\ r_wb_addr = "RX_DATA"
  /\ reg \in [Thread -> Value]

DeviceInv ==
  /\ cr \subseteq CrBit /\ rx_stage \in {"idle", "bits", "pre_wr", "wr"}
  /\ rx_empty_d \in Bit /\ rx_empty \in Bit /\ {tx_empty_n, tx_busy} \subseteq Bit
  /\ in \in Nat /\ rx_bits \in 0 .. in /\ rx_data \in 0 .. in
  /\ rx_empty = 1 => rx_empty_d = 1

------------------------------------------------------------------------------
(***************************************************************************)
(* Steps of the core.                                                      *)
(***************************************************************************)

\* Where a call begins.
LEMMA EntryLabels ==
  ASSUME NEW c \in [fn : Function, size : Nat]
  PROVE  /\ Entry(c) \in {"modify", "txPoll", "txFill", "rxPoll", "rxFill"}
         /\ Entry(c) = "rxPoll" <=> c.fn = "Receive"
         /\ Entry(c) = "rxFill" <=> c.fn = "Receive_IT"
         /\ Entry(c) = "txPoll" <=> c.fn = "Transmit"
         /\ Entry(c) = "txFill" <=> c.fn = "Transmit_IT"
BY DEF Entry, Function

\* The calls of the program are calls.
LEMMA CallsAre == AllCalls \subseteq [fn : Function, size : Nat]
BY UartDriverAssumption DEF AllCalls

\* The bits that a call sets are bits of CONTROL.
LEMMA BitsAre ==
  ASSUME NEW c \in [fn : Function, size : Nat], Entry(c) = "modify"
  PROVE  Bits(c).set \subseteq CrBit
BY DEF Entry, Function, Bits, CrBit, Reset

\* Every step of a call keeps its thread in the code of its function.
LEMMA CallFlow ==
  ASSUME FlowInv, NEW t \in Thread, CallStep(t)
  PROVE  FlowInv'
<1> USE DEF FlowInv, At, To, Thread, swVars
<1>1. CASE ModifyStep(t)
  BY <1>1 DEF ModifyStep, Step, MainLabel, IsrLabel, CallLabel, RxLabel, TxLabel
<1>2. CASE TransmitStep(t)
  BY <1>2 DEF TransmitStep, SendByte, TransmitDone, Step, Back, MainLabel, IsrLabel, CallLabel, RxLabel, TxLabel
<1>3. CASE ReceiveStep(t)
  BY <1>3 DEF ReceiveStep, TakeByte, Step, Back, MainLabel, IsrLabel, CallLabel, RxLabel, TxLabel
<1>4. CASE TxFill(t)
  BY <1>4 DEF TxFill, MainLabel, IsrLabel, CallLabel
<1>5. CASE TxState(t)
  BY <1>5 DEF TxState, Change, Back, CrBit, MainLabel, IsrLabel, CallLabel
<1>6. CASE RxFill(t)
  BY <1>6 DEF RxFill, Change, Back, CrBit, MainLabel, IsrLabel, CallLabel
<1> QED BY <1>1, <1>2, <1>3, <1>4, <1>5, <1>6 DEF CallStep

\* A call that begins, in main or in a callback.
LEMMA StartFlow ==
  ASSUME FlowInv, NEW t \in Thread, NEW c \in AllCalls, StartCall(t, c),
         t = "main" \/ pc["isr"] \in {"rxCallback", "txCallback"}
  PROVE  FlowInv'
<1> USE DEF FlowInv, To, Thread
<1>1. Entry(c) \in {"modify", "txPoll", "txFill", "rxPoll", "rxFill"} BY EntryLabels, CallsAre
<1>2. CASE ~Accepts(c) /\ To(t, Back(t), Idle) /\ UNCHANGED <<arg, rmw, txs>>
  BY <1>2 DEF StartCall, Back, MainLabel, IsrLabel, CallLabel, RxLabel, TxLabel
<1>3. CASE Accepts(c)
  BY <1>1, <1>3, BitsAre, CallsAre DEF StartCall, Change, Back, MainLabel, IsrLabel, CallLabel, RxLabel, TxLabel
<1> QED BY <1>2, <1>3 DEF StartCall

\* The core keeps to the code.
LEMMA CpuFlow ==
  ASSUME FlowInv, CpuMoves \/ CpuWaits
  PROVE  FlowInv'
<1> USE DEF FlowInv, At, To, Thread, swVars
<1>1. CASE CpuWaits BY <1>1 DEF CpuWaits
<1>2. CASE TakeInterrupt
  BY <1>2 DEF TakeInterrupt, Interrupted, IsrLabel, RxLabel, TxLabel, CallLabel
<1>3. CASE RX_Not_Empty_IRQHandler
  BY <1>3 DEF RX_Not_Empty_IRQHandler, RxGot, RxDone, Step, Change, IsrLabel, RxLabel, TxLabel, CallLabel
<1>4. CASE TX_Not_Full_IRQHandler
  BY <1>4 DEF TX_Not_Full_IRQHandler, TxSend, TxEnd, TxReady, TxDone, Step, Change, IsrLabel, RxLabel, TxLabel, CallLabel
<1>5. CASE Callback("rxCallback", RxCallback)
  <2>1. CASE Step("isr", "rxCallback", ret, Idle)
    BY <2>1 DEF Step, IsrLabel, RxLabel, TxLabel, CallLabel
  <2>2. CASE At("isr", "rxCallback") /\ \E c \in RxCallback : StartCall("isr", c)
    BY <2>2, StartFlow DEF AllCalls
  <2> QED BY <1>5, <2>1, <2>2 DEF Callback
<1>6. CASE Callback("txCallback", TxCallback)
  <2>1. CASE Step("isr", "txCallback", ret, Idle)
    BY <2>1 DEF Step, IsrLabel, RxLabel, TxLabel, CallLabel
  <2>2. CASE At("isr", "txCallback") /\ \E c \in TxCallback : StartCall("isr", c)
    BY <2>2, StartFlow DEF AllCalls
  <2> QED BY <1>6, <2>1, <2>2 DEF Callback
<1>7. CASE CallStep("isr") \/ CallStep("main") BY <1>7, CallFlow
<1>8. CASE UART_Init \/ EnablePorts
  BY <1>8 DEF UART_Init, EnablePorts, Change, CrBit, MainLabel, CallLabel
<1>9. CASE MainCalls BY <1>9, StartFlow DEF MainCalls, AllCalls
<1> QED BY <1>1, <1>2, <1>3, <1>4, <1>5, <1>6, <1>7, <1>8, <1>9 DEF CpuMoves, HandlerStep

------------------------------------------------------------------------------
(***************************************************************************)
(* The bus.                                                                *)
(***************************************************************************)
\* What an instruction can put on the bus.
Accesses ==
  \/ bus' = Idle
  \/ bus' \in {ReadOf("CONTROL"), ReadOf("TX_DATA")}
  \/ bus' = ReadOf("RX_DATA") /\ pc'[Running'] \in {"rxCheck", "rxGot"}
  \/ bus' = WriteOf("SETUP", Nothing)
  \/ \E d : bus' = WriteOf("TX_DATA", d)
  \/ \E t \in Thread : bus' = WriteOf("CONTROL", Modified(t))

\* An instruction starts when the bus is free, and makes one access at most.
LEMMA CpuBus ==
  ASSUME FlowInv, CpuMoves
  PROVE  bus = Idle /\ reg' = reg /\ Accesses
<1> USE DEF FlowInv, At, To, Thread, swVars, Accesses
<1>0. bus = Idle BY DEF CpuMoves
<1>2. CASE TakeInterrupt BY <1>0, <1>2 DEF TakeInterrupt
<1>3. CASE RX_Not_Empty_IRQHandler
  BY <1>0, <1>3 DEF RX_Not_Empty_IRQHandler, RxGot, RxDone, Step, Running
<1>4. CASE TX_Not_Full_IRQHandler
  BY <1>0, <1>4 DEF TX_Not_Full_IRQHandler, TxSend, TxEnd, TxReady, TxDone, Step
<1>5. ASSUME NEW t \in Thread, NEW c, StartCall(t, c) PROVE bus' = Idle /\ reg' = reg
  BY <1>5 DEF StartCall
<1>6. CASE Callback("rxCallback", RxCallback) BY <1>0, <1>5, <1>6 DEF Callback, Step
<1>7. CASE Callback("txCallback", TxCallback) BY <1>0, <1>5, <1>7 DEF Callback, Step
<1>8. ASSUME NEW t \in Thread, CallStep(t) PROVE reg' = reg /\ Accesses
  <2>1. CASE ModifyStep(t) BY <2>1 DEF ModifyStep, Step
  <2>2. CASE TransmitStep(t) BY <2>2 DEF TransmitStep, SendByte, TransmitDone, Step
  <2>3. CASE ReceiveStep(t)
    BY <2>3 DEF ReceiveStep, TakeByte, Step, Running
  <2>4. CASE TxFill(t) \/ TxState(t) \/ RxFill(t) BY <2>4 DEF TxFill, TxState, RxFill
  <2> QED BY <1>8, <2>1, <2>2, <2>3, <2>4 DEF CallStep
<1>9. CASE UART_Init \/ EnablePorts BY <1>0, <1>9 DEF UART_Init, EnablePorts
<1>10. CASE MainCalls BY <1>0, <1>5, <1>10 DEF MainCalls
<1> QED BY <1>0, <1>2, <1>3, <1>4, <1>6, <1>7, <1>8, <1>9, <1>10 DEF CpuMoves, HandlerStep

\* The registers of the UART keep their types.
LEMMA DeviceTypes ==
  ASSUME BusInv, DeviceInv, NEW ends \in BOOLEAN, DeviceStep(ends)
  PROVE  DeviceInv'
<1> USE DEF BusInv, DeviceInv, DeviceStep, UartStep
<1>1. cr' \subseteq CrBit BY DEF Control, CrBit, Reset
<1>2. /\ rx_stage' \in {"idle", "bits", "pre_wr", "wr"}
      /\ in' \in Nat /\ rx_bits' \in 0 .. in' /\ rx_data' \in 0 .. in'
  BY DEF Receiver, ByteBegins, ByteEnds
<1>3. rx_empty_d' \in Bit /\ rx_empty' \in Bit /\ (rx_empty' = 1 => rx_empty_d' = 1)
  BY DEF RxFlags, Bit
<1>4. tx_empty_n' \in Bit /\ tx_busy' \in Bit BY DEF TxRegister, Transmitter, Bit
<1> QED BY <1>1, <1>2, <1>3, <1>4

\* The fields of an access.
LEMMA Fields ==
  /\ DOMAIN Idle = {"adr", "we", "dat", "clock"} /\ Idle.adr = "none" /\ Idle.clock = 0 /\ ~Idle.we
  /\ \A a : /\ DOMAIN ReadOf(a) = {"adr", "we", "dat", "clock"}
            /\ ReadOf(a).adr = a /\ ReadOf(a).clock = 1 /\ ~ReadOf(a).we
  /\ \A a, d : /\ DOMAIN WriteOf(a, d) = {"adr", "we", "dat", "clock"}
               /\ WriteOf(a, d).adr = a /\ WriteOf(a, d).clock = 1 /\ WriteOf(a, d).we
               /\ WriteOf(a, d).dat = d
BY DEF Idle, ReadOf, WriteOf

\* What the bus and the registers read hold.
LEMMA BusStep ==
  ASSUME FlowInv, BusInv, DeviceInv, NEW ends \in BOOLEAN, Clock(ends)
  PROVE  BusInv'
<1> USE DEF BusInv, Reading
<1>1. UartStep(bus.adr, bus.clock = 1, bus.we /\ bus.clock = 1, bus.dat, ends) BY DEF Clock, DeviceStep
<1>2. r_wb_addr' = bus.adr /\ r_wb_ack' = IF bus.clock = 1 THEN 1 ELSE 0 BY <1>1 DEF UartStep
<1>3. CASE CpuMoves
  <2>1. bus = Idle /\ reg' = reg /\ Accesses BY <1>3, CpuBus
  <2>2. \A t \in Thread : Modified(t) \subseteq CrBit BY DEF Modified, FlowInv, Value
  <2>3. /\ DOMAIN bus' = {"adr", "we", "dat", "clock"} /\ bus'.adr \in Register
        /\ bus'.clock \in 0 .. 1 /\ (bus'.clock = 0 => bus' = Idle)
    BY <2>1, Fields DEF Accesses, Register
  <2>4. bus'.adr = "RX_DATA" => bus'.clock = 1 /\ ~bus'.we /\ pc'[Running'] \in {"rxCheck", "rxGot"}
    BY <2>1, Fields DEF Accesses
  <2>5. bus'.we /\ bus'.adr = "CONTROL" => bus'.dat \subseteq CrBit BY <2>1, <2>2, Fields DEF Accesses
  <2> QED BY <2>1, <2>3, <2>4, <2>5
<1>4. CASE CpuWaits
  <2>1. pc' = pc /\ Running' = Running BY <1>4 DEF CpuWaits, Running
  <2>2. CASE bus.clock \in {1, 2}
    <3>1. /\ bus' = [bus EXCEPT !.clock = @ + 1] /\ bus'.clock = bus.clock + 1
          /\ bus'.adr = bus.adr /\ bus'.we = bus.we /\ bus'.dat = bus.dat
      BY <1>4, <2>2 DEF CpuWaits
    <3>2. ReadData(bus.adr) \in Value BY DEF ReadData, Value, DeviceInv, Bit
    <3>3. reg' \in [Thread -> Value] BY <1>4, <3>2 DEF CpuWaits
    <3> QED BY <1>2, <2>1, <2>2, <3>1, <3>3
  <2>3. CASE bus.clock \notin {1, 2}
    <3>1. bus' = Idle /\ reg' = reg BY <1>4, <2>3 DEF CpuWaits
    <3> QED BY <3>1, Fields DEF Register
  <2> QED BY <2>2, <2>3
<1> QED BY <1>3, <1>4 DEF Clock

\* The program and the bus as the invariants have them, for every program.
BaseInv == FlowInv /\ BusInv /\ DeviceInv

\* It holds at the start.
LEMMA InitBase == Init => BaseInv
<1> SUFFICES ASSUME Init PROVE BaseInv OBVIOUS
<1>1. FlowInv BY DEF Init, FlowInv, Thread, MainLabel, IsrLabel, CallLabel, CrBit
<1>2. DeviceInv BY DEF Init, UartInit, DeviceInv, Bit, CrBit, Reset
<1>3. BusInv
  <2>1. ReadData("none") \in Value BY DEF ReadData, Value, Bit
  <2>2. bus = Idle /\ DOMAIN bus = {"adr", "we", "dat", "clock"} /\ bus.adr = "none" /\ bus.clock = 0
    BY DEF Init, Idle
  <2> QED BY <2>1, <2>2 DEF Init, BusInv, Register, Reading, Idle
<1> QED BY <1>1, <1>2, <1>3 DEF BaseInv

\* The base is kept by every step, whatever the program calls.
LEMMA BaseStep ==
  ASSUME BaseInv, [Next]_vars
  PROVE  BaseInv'
<1>1. CASE Next
  <2>1. PICK ends \in BOOLEAN : Clock(ends) BY <1>1 DEF Next
  <2> QED BY <2>1, CpuFlow, BusStep, DeviceTypes DEF BaseInv, Clock
<1>2. CASE UNCHANGED vars
  BY <1>2 DEF vars, swVars, uartVars, BaseInv, FlowInv, BusInv, DeviceInv, Running, Reading
<1> QED BY <1>1, <1>2

\* A thread gets to where it looks at RX_DATA only with a read of it, and bytes are
\* handed over in two places.
ReadsKept ==
  /\ \A t \in Thread : pc'[t] \in {"rxCheck", "rxGot"} =>
       pc'[t] = pc[t] \/ (bus' = ReadOf("RX_DATA") /\ t = Running')
  /\ bus' \in {Idle, ReadOf("RX_DATA")} \/ pc'[Running'] \notin {"rxCheck", "rxGot"}
  /\ rcv' = rcv \/ (\E t \in Thread : TakeByte(t)) \/ RxGot

\* Every instruction reads as above.
LEMMA ReadStarts ==
  ASSUME FlowInv, CpuMoves
  PROVE  ReadsKept
<1> USE DEF FlowInv, At, To, Thread, swVars
<1>2. CASE TakeInterrupt BY <1>2 DEF TakeInterrupt, ReadsKept
<1>3. CASE RX_Not_Empty_IRQHandler
  BY <1>3 DEF RX_Not_Empty_IRQHandler, RxGot, RxDone, Step, Running, ReadsKept
<1>4. CASE TX_Not_Full_IRQHandler
  BY <1>4 DEF TX_Not_Full_IRQHandler, TxSend, TxEnd, TxReady, TxDone, Step, Running, ReadsKept
<1>5. ASSUME NEW t \in Thread, NEW c \in AllCalls, StartCall(t, c),
             t = "main" \/ pc["isr"] \in {"rxCallback", "txCallback"}
      PROVE  ReadsKept
  BY <1>5, EntryLabels, CallsAre DEF StartCall, Back, ReadsKept
<1>6. CASE Callback("rxCallback", RxCallback) BY <1>5, <1>6 DEF Callback, Step, AllCalls, ReadsKept
<1>7. CASE Callback("txCallback", TxCallback) BY <1>5, <1>7 DEF Callback, Step, AllCalls, ReadsKept
<1>8. ASSUME NEW t \in Thread, CallStep(t) PROVE ReadsKept
  <2>1. CASE Step(t, "modify", "write", ReadOf("CONTROL")) BY <2>1 DEF Step, Running, ReadsKept
  <2>2. CASE Step(t, "write", rmw[t].to, WriteOf("CONTROL", Modified(t)))
    <3>1. rmw[t].to \notin {"rxCheck", "rxGot", "none"} BY <2>2 DEF Step, CallLabel
    <3> QED BY <2>2, <3>1 DEF Step, Running, ReadsKept
  <2>3. CASE TransmitStep(t)
    BY <2>3 DEF TransmitStep, SendByte, TransmitDone, Step, Back, CallLabel, Running, ReadsKept
  <2>4. CASE TakeByte(t) BY <2>4 DEF TakeByte, Back, CallLabel, ReadsKept
  <2>5. CASE ReceiveStep(t) /\ ~TakeByte(t)
    BY <2>5 DEF ReceiveStep, Step, Running, Back, CallLabel, ReadsKept
  <2>6. CASE TxFill(t) \/ TxState(t) \/ RxFill(t) BY <2>6 DEF TxFill, TxState, RxFill, ReadsKept
  <2> QED BY <1>8, <2>1, <2>2, <2>3, <2>4, <2>5, <2>6 DEF CallStep, ModifyStep
<1>9. CASE UART_Init \/ EnablePorts BY <1>9 DEF UART_Init, EnablePorts, Running, ReadsKept
<1>10. CASE MainCalls BY <1>5, <1>10 DEF MainCalls, AllCalls
<1> QED BY <1>2, <1>3, <1>4, <1>6, <1>7, <1>8, <1>9, <1>10 DEF CpuMoves, HandlerStep

------------------------------------------------------------------------------
(***************************************************************************)
(* A program that only polls, as late as it likes.  A byte read is held in *)
(* reg until it is in rcv.  The clock after the sample clears the flags;   *)
(* when a byte arrives in that clock, the next one does, and the byte that *)
(* was sampled is that one.                                                *)
(***************************************************************************)
PollsOnly ==
  /\ \A c \in AllCalls : c.fn # "Receive_IT"
  /\ \A c \in TxCallback \cup RxCallback : c.fn # "Receive"

\* Nothing but main reads RX_DATA.
MainReads ==
  /\ RxState # "BUSY_RX" /\ pc["main"] # "rxFill" /\ ret # "rxDone"
  /\ pc["isr"] \notin {"rxGot", "rxCallback", "rxDone", "rxPoll", "rxCheck", "rxFill"}

Held == pc["main"] = "rxCheck" /\ reg["main"].RX_EMPTY = 1 /\ ~Reading(1) /\ ~Reading(2)
Byte == reg["main"].RX_BYTE

\* The clocks in which the flags of a byte that was sampled are cleared.
AfterRead == r_wb_addr = "RX_DATA" /\ r_wb_ack = 0 /\ bus.clock = 0
Clearing == rx_empty = 1 /\ (Reading(3) \/ AfterRead)

\* The program has nothing that is not older than byte x.
Newer(x) == x = 0 \/ ((\A i \in DOMAIN rcv : rcv[i] < x) /\ (Held => Byte < x))

LateInv ==
  /\ rcv \in Seq(Nat) /\ ReceivedOnce
  /\ rx_empty = 1 => Reading(2) \/ Reading(3) \/ (AfterRead /\ rx_stage = "idle")
  /\ Reading(3) => reg["main"].RX_EMPTY = rx_empty
  /\ \A i \in DOMAIN rcv : rcv[i] <= in
  /\ Held => Byte <= in /\ (Byte = 0 \/ \A i \in DOMAIN rcv : rcv[i] < Byte)
  /\ rx_stage = "bits" => Newer(in) /\ rx_data < in /\ rx_bits \in {0, in}
  /\ rx_stage = "pre_wr" => Newer(rx_data)
  /\ (rx_stage = "wr" \/ rx_empty_d = 1) /\ ~Clearing => Newer(rx_data)

\* The handler never reads.
LEMMA PollsStep ==
  ASSUME PollsOnly, FlowInv, MainReads, CpuMoves \/ CpuWaits
  PROVE  MainReads'
<1> USE DEF FlowInv, MainReads, At, To, Thread, swVars, CallLabel
<1>1. CASE CpuWaits BY <1>1 DEF CpuWaits
<1>2. CASE TakeInterrupt BY <1>2 DEF TakeInterrupt
<1>3. CASE RX_Not_Empty_IRQHandler
  BY <1>3 DEF RX_Not_Empty_IRQHandler, RxGot, RxDone, Step
<1>4. CASE TX_Not_Full_IRQHandler
  BY <1>4 DEF TX_Not_Full_IRQHandler, TxSend, TxEnd, TxReady, TxDone, Step
<1>5. ASSUME NEW t \in Thread, NEW c \in AllCalls, StartCall(t, c), c.fn # "Receive_IT",
             t = "main" \/ (c.fn # "Receive" /\ pc["isr"] \in {"rxCallback", "txCallback"})
      PROVE  MainReads'
  BY <1>5, EntryLabels, CallsAre DEF StartCall, Back
<1>6. CASE Callback("rxCallback", RxCallback) BY <1>6 DEF Callback, Step
<1>7. CASE Callback("txCallback", TxCallback) BY <1>5, <1>7 DEF Callback, Step, AllCalls, PollsOnly
<1>8. ASSUME NEW t \in Thread, CallStep(t) PROVE MainReads'
  <2>1. CASE ModifyStep(t) BY <2>1 DEF ModifyStep, Step
  <2>2. CASE TransmitStep(t) BY <2>2 DEF TransmitStep, SendByte, TransmitDone, Step, Back
  <2>3. CASE ReceiveStep(t) BY <2>3 DEF ReceiveStep, TakeByte, Step, Back
  <2>4. CASE TxFill(t) \/ TxState(t) \/ RxFill(t) BY <2>4 DEF TxFill, TxState, RxFill
  <2> QED BY <1>8, <2>1, <2>2, <2>3, <2>4 DEF CallStep
<1>9. CASE UART_Init \/ EnablePorts BY <1>9 DEF UART_Init, EnablePorts
<1>10. CASE MainCalls BY <1>5, <1>10 DEF MainCalls, AllCalls, PollsOnly
<1> QED BY <1>1, <1>2, <1>3, <1>4, <1>6, <1>7, <1>8, <1>9, <1>10 DEF CpuMoves, HandlerStep

\* How the byte that main holds moves: not at all, into rcv, or from the UART.
Stays == rcv' = rcv /\ (Held' => Held /\ Byte' = Byte)
Hands == Held /\ ~Held' /\ rcv' = Append(rcv, Byte)
Samples == /\ rcv' = rcv /\ Reading(2) /\ ~Held
           /\ Held' => rx_empty = 1 /\ Byte' = rx_data

\* An instruction of main hands the held byte over, or nothing moves.
LEMMA HeldMoves ==
  ASSUME BaseInv, MainReads, CpuMoves
  PROVE  (Stays \/ Hands) /\ ~Reading(2)' /\ ~Reading(3)' /\ ~Reading(1) /\ ~Reading(2) /\ ~Reading(3)
<1> USE DEF BaseInv
<1>1. bus = Idle /\ reg' = reg /\ Accesses BY CpuBus
<1>2. bus.clock = 0 /\ bus.adr = "none" BY <1>1, Fields
<1>3. bus'.clock \in {0, 1} BY <1>1, Fields DEF Accesses
<1>4. Held' => Held /\ Byte' = Byte
  <2> SUFFICES ASSUME Held' PROVE Held /\ Byte' = Byte OBVIOUS
  <2>1. pc'["main"] = "rxCheck" /\ ~Reading(1)' BY DEF Held
  <2>2. pc["main"] = "rxCheck" BY <2>1, ReadStarts, Fields DEF Thread, Reading, ReadsKept
  <2> QED BY <1>1, <1>2, <2>2 DEF Held, Reading, Byte
<1>5. ASSUME TakeByte("main") PROVE Hands
  <2>1. pc["main"] = "rxCheck" /\ reg["main"].RX_EMPTY = 1 /\ rcv' = Append(rcv, Byte)
    BY <1>5 DEF TakeByte, At, Byte
  <2>2. pc'["main"] # "rxCheck" BY <1>5 DEF TakeByte, To, Back, FlowInv, Thread
  <2> QED BY <1>2, <2>1, <2>2 DEF Hands, Held, Reading
<1>6. ~TakeByte("isr") /\ ~RxGot BY DEF TakeByte, RxGot, At, MainReads
<1> QED BY <1>2, <1>3, <1>4, <1>5, <1>6, ReadStarts DEF Stays, Thread, Reading, ReadsKept

\* A clock of waiting brings a byte when it is the one that samples RX_DATA.
LEMMA HeldWaits ==
  ASSUME BaseInv, MainReads, CpuWaits
  PROVE  /\ Stays \/ Samples
         /\ Reading(2)' <=> Reading(1)
         /\ Reading(3)' <=> Reading(2)
         /\ ~Reading(1)'
         /\ Reading(3)' => reg'["main"].RX_EMPTY = rx_empty
<1> USE DEF BaseInv
<1>1. pc' = pc /\ rcv' = rcv BY DEF CpuWaits
<1>2. CASE Reading(2)
  <2>1. Running = "main" BY <1>2 DEF BusInv, MainReads, Running, Reading
  <2>2. reg'["main"] = ReadData("RX_DATA") BY <1>2, <2>1 DEF CpuWaits, BusInv, Reading, Thread
  <2>3. bus'.clock = 3 /\ bus'.adr = "RX_DATA" BY <1>2 DEF CpuWaits, BusInv, Reading
  <2>4. Samples BY <1>1, <1>2, <2>2 DEF Samples, Held, Byte, ReadData
  <2> QED BY <1>2, <2>2, <2>3, <2>4 DEF Reading, ReadData
<1>3. CASE ~Reading(2)
  <2>1. CASE bus.clock \in {1, 2}
    <3>1. bus'.adr = bus.adr /\ bus'.clock = bus.clock + 1 BY <2>1 DEF CpuWaits, BusInv
    <3>2. Held' => Held /\ Byte' = Byte
      <4>1. CASE reg' = reg BY <1>1, <3>1, <4>1, <1>3 DEF Held, Byte, Reading, BusInv
      <4>2. CASE reg' # reg
        <5>1. reg' = [reg EXCEPT ![Running] = ReadData(bus.adr)] /\ bus.clock = 2 BY <4>2 DEF CpuWaits
        <5>2. ReadData(bus.adr).RX_EMPTY = 0 BY <5>1, <1>3 DEF Reading, ReadData
        <5>3. CASE Running = "main"
          <6>1. reg'["main"].RX_EMPTY = 0 BY <5>1, <5>2, <5>3 DEF BusInv, Thread
          <6> QED BY <6>1 DEF Held
        <5>4. CASE Running # "main"
          <6>1. reg'["main"] = reg["main"] BY <5>1, <5>4 DEF BusInv, Thread
          <6> QED BY <1>1, <3>1, <5>1, <6>1, <1>3 DEF Held, Byte, Reading
        <5> QED BY <5>3, <5>4
      <4> QED BY <4>1, <4>2
    <3> QED BY <1>1, <1>3, <2>1, <3>1, <3>2 DEF Stays, Reading
  <2>2. CASE bus.clock \notin {1, 2}
    <3>1. bus' = Idle /\ reg' = reg BY <2>2 DEF CpuWaits
    <3>2. bus'.clock = 0 BY <3>1, Fields
    <3> QED BY <1>1, <1>3, <2>2, <3>1, <3>2 DEF Stays, Reading, Held, Byte
  <2> QED BY <2>1, <2>2
<1> QED BY <1>2, <1>3

\* A read goes through its clocks, and the UART has its address one clock longer.
LEMMA ReadClocks ==
  ASSUME BaseInv, MainReads, NEW ends \in BOOLEAN, Clock(ends)
  PROVE  /\ Stays \/ Hands \/ Samples
         /\ Reading(2)' <=> Reading(1)
         /\ Reading(3)' <=> Reading(2)
         /\ AfterRead' <=> Reading(3)
         /\ Reading(3)' => reg'["main"].RX_EMPTY = rx_empty
<1>1. r_wb_addr' = bus.adr /\ r_wb_ack' = IF bus.clock = 1 THEN 1 ELSE 0 BY DEF Clock, DeviceStep, UartStep
<1>2. CASE CpuMoves
  <2>1. bus.adr = "none" BY <1>2, CpuBus, Fields DEF BaseInv
  <2> QED BY <1>1, <1>2, <2>1, HeldMoves DEF AfterRead, Reading
<1>3. CASE CpuWaits
  <2>1. CASE Reading(3)
    <3>1. bus'.clock = 0 BY <1>3, <2>1, Fields DEF CpuWaits, Reading
    <3> QED BY <1>1, <1>3, <2>1, <3>1, HeldWaits DEF AfterRead, Reading
  <2>2. CASE ~Reading(3)
    <3>1. ~AfterRead'
      <4> SUFFICES ASSUME AfterRead' PROVE FALSE OBVIOUS
      <4>1. bus.adr = "RX_DATA" /\ bus.clock # 1 /\ bus'.clock = 0 BY <1>1 DEF AfterRead
      <4>2. Reading(2) BY <2>2, <4>1 DEF Reading, BaseInv, BusInv
      <4> QED BY <1>3, <4>1, <4>2, HeldWaits DEF Reading
    <3> QED BY <1>3, <2>2, <3>1, HeldWaits
  <2> QED BY <2>1, <2>2
<1> QED BY <1>2, <1>3 DEF Clock

\* Newer(x), after the step, of the x of before.
NewerNext(x) == x = 0 \/ ((\A i \in DOMAIN rcv' : rcv'[i] < x) /\ (Held' => Byte' < x))

\* What is newer than all that main has stays so, whoever moves what main has.
LEMMA NewerStays ==
  ASSUME BaseInv, rcv \in Seq(Nat), NEW x \in Nat, Newer(x),
         Stays \/ Hands \/ (Samples /\ (Held' => rx_data < x))
  PROVE  NewerNext(x)
<1>1. CASE Stays BY <1>1 DEF Stays, Newer, NewerNext
<1>2. CASE Hands
  <2>1. Byte \in Nat BY DEF BaseInv, BusInv, Byte, Value, Thread
  <2>2. CASE x = 0 BY <2>2 DEF NewerNext
  <2>3. CASE x # 0
    <3>1. rcv' = Append(rcv, Byte) /\ Byte < x /\ ~Held' /\ \A i \in DOMAIN rcv : rcv[i] < x
      BY <1>2, <2>3 DEF Hands, Newer
    <3>2. \A i \in DOMAIN rcv' : rcv'[i] < x BY <2>1, <3>1
    <3> QED BY <3>1, <3>2 DEF NewerNext
  <2> QED BY <2>2, <2>3
<1>3. CASE Samples /\ (Held' => rx_data < x) BY <1>3 DEF Samples, Newer, NewerNext
<1> QED BY <1>1, <1>2, <1>3

\* The flags: one that a read has latched is cleared, a clock late if a byte arrives.
LEMMA LateFlags ==
  ASSUME BaseInv, MainReads, LateInv, NEW ends \in BOOLEAN, Clock(ends)
  PROVE  /\ rx_empty' = 1 => Reading(2)' \/ Reading(3)' \/ (AfterRead' /\ rx_stage' = "idle")
         /\ Reading(3)' => reg'["main"].RX_EMPTY = rx_empty' /\ rx_empty' = rx_empty
         /\ rx_empty_d' = 1 /\ ~Clearing' => rx_stage = "wr" \/ rx_empty_d = 1
         /\ Clearing => (rx_stage = "wr" /\ Clearing') \/ (rx_stage # "wr" /\ rx_empty_d' = 0)
<1> USE DEF BaseInv
<1>1. RxFlags(bus.adr, bus.clock = 1) /\ Receiver BY DEF Clock, DeviceStep, UartStep
<1>2. /\ Reading(2)' <=> Reading(1)
      /\ Reading(3)' <=> Reading(2)
      /\ AfterRead' <=> Reading(3)
      /\ Reading(3)' => reg'["main"].RX_EMPTY = rx_empty
  BY ReadClocks
<1>3. rx_empty \in Bit /\ rx_empty_d \in Bit BY DEF DeviceInv
<1>4. rx_stage = "wr" => rx_stage' = "idle" BY <1>1 DEF Receiver, ByteBegins, ByteEnds
<1>5. /\ rx_empty = 1 => Reading(2) \/ Reading(3) \/ (AfterRead /\ rx_stage = "idle")
      /\ Reading(2) => r_wb_ack = 1 /\ bus.clock = 2
      /\ Reading(3) => r_wb_ack = 0 /\ r_wb_addr = "RX_DATA" /\ bus.clock = 3
      /\ AfterRead => r_wb_ack = 0 /\ r_wb_addr = "RX_DATA" /\ bus.clock = 0
  BY DEF LateInv, BusInv, Reading, AfterRead
<1>6. CASE rx_stage = "wr"
  <2>1. rx_empty' = rx_empty /\ rx_empty_d' = 1 BY <1>1, <1>6 DEF RxFlags
  <2>2. AfterRead /\ rx_empty = 1 => Reading(3)
    BY <1>5, <1>6
  <2> QED BY <1>2, <1>4, <1>5, <1>6, <2>1, <2>2 DEF Clearing
<1>7. CASE rx_stage # "wr" /\ rx_empty = 1 /\ r_wb_ack = 0 /\ r_wb_addr = "RX_DATA"
  <2>1. rx_empty' = 0 /\ rx_empty_d' = 0 BY <1>1, <1>7 DEF RxFlags
  <2> QED BY <1>2, <1>5, <1>7, <2>1 DEF Clearing
<1>8. CASE rx_stage # "wr" /\ ~(rx_empty = 1 /\ r_wb_ack = 0 /\ r_wb_addr = "RX_DATA")
  <2>1. /\ rx_empty' = IF rx_empty = 0 /\ bus.clock = 1 /\ bus.adr = "RX_DATA" THEN rx_empty_d ELSE rx_empty
        /\ rx_empty_d' = rx_empty_d
    BY <1>1, <1>8 DEF RxFlags
  <2>2. ~Clearing BY <1>5, <1>8 DEF Clearing
  <2>3. rx_empty = 1 => Reading(2) BY <1>5, <1>8
  <2>4. rx_empty = 0 /\ rx_empty' = 1 => Reading(1) BY <2>1 DEF Reading
  <2>5. Reading(2) => rx_empty' = rx_empty BY <1>5, <2>1
  <2> QED BY <1>2, <1>3, <1>8, <2>1, <2>2, <2>3, <2>4, <2>5 DEF Bit
<1> QED BY <1>6, <1>7, <1>8

\* The bytes handed over, and the one held.
LEMMA LateBytes ==
  ASSUME BaseInv, MainReads, LateInv, NEW ends \in BOOLEAN, Clock(ends)
  PROVE  /\ rcv' \in Seq(Nat) /\ ReceivedOnce'
         /\ \A i \in DOMAIN rcv' : rcv'[i] <= in
         /\ Held' => Byte' <= in /\ (Byte' = 0 \/ \A i \in DOMAIN rcv' : rcv'[i] < Byte')
<1> USE DEF BaseInv
<1>1. /\ rcv \in Seq(Nat) /\ ReceivedOnce /\ \A i \in DOMAIN rcv : rcv[i] <= in
      /\ Held => Byte <= in /\ (Byte = 0 \/ \A i \in DOMAIN rcv : rcv[i] < Byte)
  BY DEF LateInv
<1>2. Byte \in Nat /\ in \in Nat BY DEF BusInv, DeviceInv, Byte, Value, Thread
<1>3. CASE Stays BY <1>1, <1>3 DEF Stays, ReceivedOnce
<1>4. CASE Hands
  <2>1. rcv' = Append(rcv, Byte) /\ Held /\ ~Held' BY <1>4 DEF Hands
  <2>2. /\ rcv' \in Seq(Nat) /\ Len(rcv') = Len(rcv) + 1 /\ Len(rcv) \in Nat
        /\ DOMAIN rcv' = 1 .. Len(rcv') /\ DOMAIN rcv = 1 .. Len(rcv)
        /\ rcv'[Len(rcv) + 1] = Byte
        /\ \A i \in DOMAIN rcv : rcv'[i] = rcv[i]
    BY <1>1, <1>2, <2>1
  <2>3. \A i \in DOMAIN rcv' : i \in DOMAIN rcv \/ i = Len(rcv) + 1 BY <2>2
  <2>4. \A i \in DOMAIN rcv' : rcv'[i] <= in BY <1>1, <2>1, <2>2, <2>3
  <2>5. ReceivedOnce'
    <3> SUFFICES ASSUME NEW i \in DOMAIN rcv', NEW j \in DOMAIN rcv', i < j, rcv'[i] # 0, rcv'[j] # 0
                 PROVE  rcv'[i] < rcv'[j]
      BY DEF ReceivedOnce
    <3>1. i \in DOMAIN rcv BY <2>2, <2>3
    <3>2. CASE j \in DOMAIN rcv BY <1>1, <2>2, <3>1, <3>2 DEF ReceivedOnce
    <3>3. CASE j = Len(rcv) + 1 BY <1>1, <2>1, <2>2, <3>1, <3>3
    <3> QED BY <2>3, <3>2, <3>3
  <2> QED BY <2>1, <2>2, <2>4, <2>5
<1>5. CASE Samples
  <2>1. rcv' = rcv /\ (Held' => rx_empty = 1 /\ Byte' = rx_data) /\ Reading(2) BY <1>5 DEF Samples
  <2>2. rx_data \in 0 .. in /\ (rx_empty = 1 => rx_empty_d = 1) BY DEF DeviceInv
  <2>3. ~Clearing BY <2>1 DEF Clearing, Reading, AfterRead
  <2>4. rx_empty = 1 => Newer(rx_data) BY <2>2, <2>3 DEF LateInv
  <2>5. ReceivedOnce' BY <1>1, <2>1 DEF ReceivedOnce
  <2> QED BY <1>1, <2>1, <2>2, <2>4, <2>5 DEF Newer
<1> QED BY <1>3, <1>4, <1>5, ReadClocks

\* What is on the wire, and what is flagged, is newer than what main has.
LEMMA LateStep ==
  ASSUME BaseInv, MainReads, LateInv, NEW ends \in BOOLEAN, Clock(ends)
  PROVE  LateInv'
<1> USE DEF BaseInv
<1>1. Receiver BY DEF Clock, DeviceStep, UartStep
<1>2. /\ rcv \in Seq(Nat) /\ rx_data \in 0 .. in /\ rx_bits \in 0 .. in /\ in \in Nat
      /\ rx_stage \in {"idle", "bits", "pre_wr", "wr"}
  BY DEF LateInv, DeviceInv
<1>3. Samples /\ Held' => /\ Clearing' /\ ~Hands /\ ~Stays /\ Byte' = rx_data
                          /\ rcv' = rcv /\ ~Clearing
  BY ReadClocks, LateFlags DEF Samples, Clearing, Hands, Stays, AfterRead, Reading
<1>4. ASSUME NEW x \in Nat, Newer(x), ~Clearing' \/ rx_data < x PROVE NewerNext(x)
  BY <1>2, <1>3, <1>4, NewerStays, ReadClocks
<1>5. rx_stage = "bits" => Newer(in) /\ rx_data < in /\ rx_bits \in {0, in} BY DEF LateInv
<1>6. rx_stage' = "bits" => Newer(in)' /\ rx_data' < in' /\ rx_bits' \in {0, in'}
  <2> SUFFICES ASSUME rx_stage' = "bits" PROVE Newer(in)' /\ rx_data' < in' /\ rx_bits' \in {0, in'} OBVIOUS
  <2>1. CASE ByteBegins
    <3>1. in' = in + 1 /\ rx_bits' = in + 1 /\ rx_data' = rx_data BY <2>1 DEF ByteBegins
    <3>2. (\A i \in DOMAIN rcv' : rcv'[i] <= in) /\ (Held' => Byte' <= in) /\ rcv' \in Seq(Nat) BY LateBytes
    <3>3. Byte' \in Nat BY BaseStep DEF BusInv, Byte, Value, Thread, Next
    <3>4. (\A i \in DOMAIN rcv' : rcv'[i] < in + 1) /\ (Held' => Byte' < in + 1) BY <1>2, <3>2, <3>3
    <3> QED BY <1>2, <3>1, <3>4 DEF Newer
  <2>2. CASE rx_stage = "bits" /\ rx_data' = rx_data /\ in' = in /\ rx_bits' \in {rx_bits, 0}
    <3>1. NewerNext(in) BY <1>2, <1>4, <1>5, <2>2
    <3> QED BY <1>5, <2>2, <3>1 DEF NewerNext, Newer
  <2> QED BY <1>1, <2>1, <2>2 DEF Receiver, ByteEnds
<1>7. rx_stage' = "pre_wr" => Newer(rx_data)'
  <2> SUFFICES ASSUME rx_stage' = "pre_wr" PROVE Newer(rx_data)' OBVIOUS
  <2>1. rx_stage = "bits" /\ rx_data' = rx_bits BY <1>1 DEF Receiver, ByteBegins, ByteEnds
  <2>2. NewerNext(in) BY <1>2, <1>4, <1>5, <2>1
  <2> QED BY <1>5, <2>1, <2>2 DEF NewerNext, Newer
<1>8. (rx_stage' = "wr" \/ rx_empty_d' = 1) /\ ~Clearing' => Newer(rx_data)'
  <2> SUFFICES ASSUME rx_stage' = "wr" \/ rx_empty_d' = 1, ~Clearing' PROVE Newer(rx_data)' OBVIOUS
  <2>1. CASE rx_data' = 0 BY <2>1 DEF Newer
  <2>2. CASE rx_stage' = "wr"
    <3>1. rx_stage = "pre_wr" /\ rx_data' = rx_data BY <1>1, <2>2 DEF Receiver, ByteBegins, ByteEnds
    <3>2. NewerNext(rx_data) BY <1>2, <1>4, <3>1 DEF LateInv
    <3> QED BY <3>1, <3>2 DEF NewerNext, Newer
  <2>3. CASE rx_stage' # "wr" /\ rx_stage' # "pre_wr" /\ rx_data' # 0
    <3>1. (rx_stage = "wr" \/ rx_empty_d = 1) /\ ~Clearing BY <2>3, LateFlags
    <3>2. rx_data' = rx_data BY <1>1, <2>3 DEF Receiver, ByteBegins, ByteEnds
    <3>3. NewerNext(rx_data) BY <1>2, <1>4, <3>1 DEF LateInv
    <3> QED BY <3>2, <3>3 DEF NewerNext, Newer
  <2> QED BY <1>7, <2>1, <2>2, <2>3
<1>9. in <= in' /\ in' \in Nat BY <1>1, <1>2 DEF Receiver, ByteBegins, ByteEnds
<1>10. Byte' \in Nat BY BaseStep DEF BusInv, Byte, Value, Thread, Next
<1>11. /\ \A i \in DOMAIN rcv' : rcv'[i] <= in'
       /\ Held' => Byte' <= in'
  BY <1>2, <1>9, <1>10, LateBytes
<1> QED BY <1>6, <1>7, <1>8, <1>11, LateBytes, LateFlags DEF LateInv

(***************************************************************************)
(* A program that receives by polling only is given no byte twice and none *)
(* behind a later one, however late it polls and whatever it disables and  *)
(* resets: the flag that UART_Receive trusts never outlives the byte that  *)
(* it stands for, even when a read meets an arriving byte.                 *)
(***************************************************************************)
THEOREM PollsOnce ==
  ASSUME PollsOnly
  PROVE  Spec => []ReceivedOnce
<1>1. Init => BaseInv /\ MainReads /\ LateInv
  <2> SUFFICES ASSUME Init PROVE MainReads /\ LateInv BY InitBase
  <2>1. MainReads BY DEF Init, MainReads, Thread
  <2>2. ~Held /\ bus.clock = 0 BY Fields DEF Init, Held, Thread
  <2>3. rcv = <<>> /\ DOMAIN rcv = {} BY DEF Init
  <2> QED BY <2>1, <2>2, <2>3 DEF Init, UartInit, LateInv, Reading, ReceivedOnce
<1>2. BaseInv /\ MainReads /\ LateInv /\ [Next]_vars => (BaseInv /\ MainReads /\ LateInv)'
  <2> SUFFICES ASSUME BaseInv, MainReads, LateInv, [Next]_vars PROVE MainReads' /\ LateInv' BY BaseStep
  <2>1. CASE Next
    <3>1. PICK ends \in BOOLEAN : Clock(ends) BY <2>1 DEF Next
    <3> QED BY <3>1, PollsStep, LateStep DEF BaseInv, Clock
  <2>2. CASE UNCHANGED vars
    BY <2>2 DEF vars, swVars, uartVars, MainReads, LateInv, Held, Byte, AfterRead, Clearing, Newer, Reading, ReceivedOnce
  <2> QED BY <2>1, <2>2
<1>3. LateInv => ReceivedOnce BY DEF LateInv
<1> QED BY <1>1, <1>2, <1>3, PTL DEF Spec

------------------------------------------------------------------------------
(***************************************************************************)
(* A program whose bytes are read in time, by polling or by the handler.   *)
(***************************************************************************)
ReadsInTime ==
  /\ PROMPT
  /\ \A c \in AllCalls : c.fn \notin {"RX_Disable", "RX_Reset"}
  /\ \A c \in TxCallback : c.fn \notin {"Receive", "Receive_IT"}

\* The receiver is enabled once, before anything else, and stays so.
On == "RX_EN" \in cr
Interrupts == {"RX_INT_EN", "TX_INT_EN"}

\* t has read CONTROL and is to write it back.
Loaded(t) ==
  pc[t] = "write" /\ ~(t = Running /\ bus.adr = "CONTROL" /\ bus.clock \in {1, 2})

\* Main before and while it enables the receiver.
Starting ==
  \/ pc["main"] \in {"init", "enable", "enableRx"}
  \/ pc["main"] \in {"modify", "write"} /\ rmw["main"].to = "enableRx"

\* Before UART_Init, and while it writes SETUP, which resets the receiver.
Fresh == pc["main"] = "init" \/ bus.adr = "SETUP"
Writing == bus.adr = "CONTROL" /\ bus.we /\ bus.clock = 1

Enabling ==
  \/ Starting
  \/ pc["main"] \in {"modify", "write"} /\ "RX_EN" \in rmw["main"].set
  \/ pc["main"] = "ready" /\ Writing /\ "RX_EN" \in bus.dat

\* No write of CONTROL, whoever read it and whenever, takes RX_EN back.
OnInv ==
  /\ \A t \in Thread : /\ rmw[t].set \subseteq CrBit \ {"RX_RST"}
                       /\ rmw[t].clear \subseteq CrBit \ {"RX_EN"}
                       /\ Loaded(t) => /\ "RX_RST" \notin reg[t].CONTROL
                                       /\ On => "RX_EN" \in reg[t].CONTROL
  /\ Writing => "RX_RST" \notin bus.dat /\ (On => "RX_EN" \in bus.dat)
  /\ pc[Running] = "write" => bus = Idle \/ (bus.adr = "CONTROL" /\ ~bus.we)
  /\ pc["main"] = "init" => bus = Idle
  /\ "RX_RST" \in cr => Fresh
  /\ Fresh => ~On

\* Until RX_EN is on nothing interrupts and nothing arrives.
OffCpu ==
  /\ pc["isr"] = "none" /\ Enabling
  /\ Loaded("main") => reg["main"].CONTROL \cap Interrupts = {}
  /\ pc["main"] \in {"modify", "write"} => rmw["main"].set \cap Interrupts = {}
  /\ Writing => bus.dat \cap Interrupts = {}

OffInv ==
  ~On => /\ in = 0 /\ rx_stage = "idle" /\ rx_empty_d = 0 /\ cr \cap Interrupts = {}
         /\ OffCpu

\* Main or the handler reads, never both.
ReaderInv ==
  /\ pc["main"] \in {"rxPoll", "rxCheck"} => RxState # "BUSY_RX"
  /\ pc["isr"] \in {"rxGot", "rxCallback", "rxDone"} \/ (pc["isr"] \in CallLabel /\ ret = "rxDone")
       => RxState = "BUSY_RX"
  /\ pc["isr"] \in {"rxPoll", "rxCheck"} => ret = "rxDone"
  /\ pc["isr"] # "rxFill"
  /\ bus.clock # 0 /\ pc[Running] \in {"rxCheck", "rxGot"} => bus.adr = "RX_DATA"

\* The byte that a thread has sampled and not yet handed over.
Has(t) ==
  /\ ~(t = Running /\ (Reading(1) \/ Reading(2)))
  /\ (pc[t] = "rxCheck" /\ reg[t].RX_EMPTY = 1) \/ pc[t] = "rxGot"

One(P) == IF P THEN 1 ELSE 0

\* A byte in RX_DATA that no read has sampled.
Flagged == rx_empty_d = 1 /\ ~(Reading(3) /\ rx_empty = 1)

\* The bytes that began are in rcv, held, flagged or on the wire, at most one in each
\* of the last three, and each is the next number.
InTimeInv ==
  /\ rcv \in Seq(Nat) /\ ReceivedInOrder
  /\ in = Len(rcv) + One(\E t \in Thread : Has(t)) + One(Flagged) + One(rx_stage # "idle")
  /\ \A t \in Thread : Has(t) => reg[t].RX_BYTE = Len(rcv) + 1
  /\ rx_stage = "bits" => rx_bits = in
  /\ rx_stage \in {"pre_wr", "wr"} => rx_data = in /\ rx_empty_d = 0
  /\ rx_empty_d = 1 => rx_data = in - One(rx_stage # "idle")
  /\ rx_empty = 1 => Reading(2) \/ Reading(3)
  /\ Reading(3) => reg[Running].RX_EMPTY = rx_empty
  /\ pc["isr"] = "rxIrq" => rx_empty_d = 1
  /\ pc["isr"] = "rxGot" => /\ Reading(1) => rx_empty_d = 1
                            /\ Reading(2) \/ Reading(3) => rx_empty = 1

\* What may be set and cleared in CONTROL.
MayChange(t) == rmw[t].set \subseteq CrBit \ {"RX_RST"} /\ rmw[t].clear \subseteq CrBit \ {"RX_EN"}

\* CONTROL is written from what was read of it, SETUP by UART_Init.
ControlKept ==
  /\ \A t \in Thread : pc'[t] = "write" =>
       pc[t] = "write" \/ (bus' = ReadOf("CONTROL") /\ t = Running')
  /\ bus'.adr = "CONTROL" /\ bus'.we =>
       pc[Running] = "write" /\ bus'.dat = Modified(Running) /\ pc'[Running] = rmw[Running].to
  /\ pc'[Running'] = "write" => bus' \in {Idle, ReadOf("CONTROL")}
  /\ bus'.adr = "SETUP" \/ pc'["main"] = "init" => pc["main"] = "init"

\* An instruction leaves CONTROL as above.
LEMMA ControlStarts ==
  ASSUME FlowInv, CpuMoves
  PROVE  ControlKept
<1> USE DEF FlowInv, At, To, Thread, swVars
<1>1. /\ Idle.adr = "none"
      /\ \A a : ReadOf(a).adr = a /\ ~ReadOf(a).we
      /\ \A a, d : WriteOf(a, d).adr = a /\ WriteOf(a, d).dat = d
  BY Fields
<1>2. CASE TakeInterrupt BY <1>1, <1>2 DEF TakeInterrupt, ControlKept, Running
<1>3. CASE RX_Not_Empty_IRQHandler
  BY <1>1, <1>3 DEF RX_Not_Empty_IRQHandler, RxGot, RxDone, Step, ControlKept, Running
<1>4. CASE TX_Not_Full_IRQHandler
  BY <1>1, <1>4 DEF TX_Not_Full_IRQHandler, TxSend, TxEnd, TxReady, TxDone, Step, ControlKept, Running
<1>5. ASSUME NEW t \in Thread, NEW c \in AllCalls, StartCall(t, c),
             t = "main" \/ pc["isr"] \in {"rxCallback", "txCallback"}
      PROVE  ControlKept
  <2>1. Entry(c) \in {"modify", "txPoll", "txFill", "rxPoll", "rxFill"} BY EntryLabels, CallsAre
  <2>2. bus' = Idle /\ \E label \in {Back(t), Entry(c)} : pc' = [pc EXCEPT ![t] = label]
    BY <1>5 DEF StartCall
  <2> QED BY <1>1, <1>5, <2>1, <2>2 DEF ControlKept, Back
<1>6. CASE Callback("rxCallback", RxCallback) BY <1>1, <1>5, <1>6 DEF Callback, Step, AllCalls, ControlKept, Running
<1>7. CASE Callback("txCallback", TxCallback) BY <1>1, <1>5, <1>7 DEF Callback, Step, AllCalls, ControlKept, Running
<1>8. ASSUME NEW t \in Thread, CallStep(t) PROVE ControlKept
  <2>1. CASE ModifyStep(t)
    <3>1. CASE Step(t, "modify", "write", ReadOf("CONTROL")) BY <1>1, <3>1 DEF Step, ControlKept, Running
    <3>2. CASE Step(t, "write", rmw[t].to, WriteOf("CONTROL", Modified(t)))
      <4>1. rmw[t].to \notin {"write", "init", "none"} BY <3>2 DEF Step, CallLabel
      <4> QED BY <1>1, <3>2, <4>1 DEF Step, ControlKept, Running
    <3> QED BY <2>1, <3>1, <3>2 DEF ModifyStep
  <2>2. CASE TransmitStep(t)
    BY <1>1, <2>2 DEF TransmitStep, SendByte, TransmitDone, Step, Back, CallLabel, ControlKept, Running
  <2>3. CASE ReceiveStep(t) BY <1>1, <2>3 DEF ReceiveStep, TakeByte, Step, Back, CallLabel, ControlKept, Running
  <2>4. CASE TxFill(t) \/ TxState(t) \/ RxFill(t) BY <1>1, <2>4 DEF TxFill, TxState, RxFill, ControlKept, Running
  <2> QED BY <1>8, <2>1, <2>2, <2>3, <2>4 DEF CallStep
<1>9. CASE UART_Init \/ EnablePorts BY <1>1, <1>9 DEF UART_Init, EnablePorts, ControlKept, Running
<1>10. CASE MainCalls BY <1>5, <1>10 DEF MainCalls, AllCalls
<1> QED BY <1>2, <1>3, <1>4, <1>6, <1>7, <1>8, <1>9, <1>10 DEF CpuMoves, HandlerStep

\* What a change of CONTROL that begins sets and clears.
Begins(t, set, clear) == rmw'[t].set = set /\ rmw'[t].clear = clear
ChangesBegin ==
  \A t \in Thread :
    \/ rmw'[t] = rmw[t]
    \/ \E bit \in CrBit \ Reset : Begins(t, {bit}, {})
    \/ \E bit \in Interrupts : Begins(t, {}, {bit})
    \/ \E c \in AllCalls : Entry(c) = "modify" /\ Begins(t, Bits(c).set, Bits(c).clear)

\* Every instruction changes it so.
LEMMA ChangesAre ==
  ASSUME FlowInv, CpuMoves
  PROVE  ChangesBegin
<1> USE DEF FlowInv, Thread, Begins, ChangesBegin
<1>1. CASE rmw' = rmw BY <1>1
<1>2. ASSUME NEW t \in Thread, NEW bit \in CrBit \ Reset, NEW to, Change(t, {bit}, {}, to) PROVE ChangesBegin
  BY <1>2 DEF Change
<1>3. ASSUME NEW t \in Thread, NEW bit \in Interrupts, NEW to, Change(t, {}, {bit}, to) PROVE ChangesBegin
  BY <1>3 DEF Change
<1>4. ASSUME NEW t \in Thread, NEW c \in AllCalls, StartCall(t, c) PROVE ChangesBegin
  <2>1. CASE Entry(c) = "modify" /\ Change(t, Bits(c).set, Bits(c).clear, Back(t)) BY <2>1 DEF Change
  <2> QED BY <1>1, <1>4, <2>1 DEF StartCall
<1>5. {"TX_EN", "RX_EN", "TX_INT_EN", "RX_INT_EN"} \subseteq CrBit \ Reset
      /\ {"TX_INT_EN", "RX_INT_EN"} \subseteq Interrupts
  BY DEF CrBit, Reset, Interrupts
<1>6. CASE TakeInterrupt BY <1>1, <1>6 DEF TakeInterrupt, swVars
<1>7. CASE RX_Not_Empty_IRQHandler
  BY <1>1, <1>3, <1>5, <1>7 DEF RX_Not_Empty_IRQHandler, RxGot, RxDone, Step, swVars
<1>8. CASE TX_Not_Full_IRQHandler
  BY <1>1, <1>3, <1>5, <1>8 DEF TX_Not_Full_IRQHandler, TxSend, TxEnd, TxReady, TxDone, Step, swVars
<1>9. CASE Callback("rxCallback", RxCallback) \/ Callback("txCallback", TxCallback)
  BY <1>1, <1>4, <1>9 DEF Callback, Step, AllCalls, swVars
<1>10. ASSUME NEW t \in Thread, CallStep(t) PROVE ChangesBegin
  <2>1. CASE ModifyStep(t) \/ TransmitStep(t) \/ ReceiveStep(t) \/ TxFill(t)
    BY <1>1, <2>1 DEF ModifyStep, TransmitStep, SendByte, TransmitDone, ReceiveStep, TakeByte, TxFill, Step, swVars
  <2>2. CASE TxState(t) BY <1>2, <1>5, <2>2 DEF TxState
  <2>3. CASE RxFill(t) BY <1>2, <1>5, <2>3 DEF RxFill
  <2> QED BY <1>10, <2>1, <2>2, <2>3 DEF CallStep
<1>11. CASE UART_Init BY <1>1, <1>11 DEF UART_Init
<1>12. CASE EnablePorts BY <1>2, <1>5, <1>12 DEF EnablePorts
<1>13. CASE MainCalls BY <1>4, <1>13 DEF MainCalls, AllCalls
<1> QED BY <1>6, <1>7, <1>8, <1>9, <1>10, <1>11, <1>12, <1>13 DEF CpuMoves, HandlerStep

\* What the program of this section changes.
LEMMA ChangesAllowed ==
  ASSUME ReadsInTime, FlowInv, CpuMoves, \A t \in Thread : MayChange(t)
  PROVE  \A t \in Thread : MayChange(t)'
<1> SUFFICES ASSUME NEW t \in Thread PROVE MayChange(t)' OBVIOUS
<1>1. ASSUME NEW c \in AllCalls, Entry(c) = "modify"
      PROVE  Bits(c).set \subseteq CrBit \ {"RX_RST"} /\ Bits(c).clear \subseteq CrBit \ {"RX_EN"}
  BY <1>1, CallsAre DEF Entry, Bits, ReadsInTime, CrBit, Reset, Function
<1>2. /\ \A bit \in CrBit \ Reset : {bit} \subseteq CrBit \ {"RX_RST"}
      /\ \A bit \in Interrupts : {bit} \subseteq CrBit \ {"RX_EN"}
  BY DEF CrBit, Reset, Interrupts
<1>3. ChangesBegin BY ChangesAre
<1>4. \/ rmw'[t] = rmw[t]
      \/ \E bit \in CrBit \ Reset : Begins(t, {bit}, {})
      \/ \E bit \in Interrupts : Begins(t, {}, {bit})
      \/ \E c \in AllCalls : Entry(c) = "modify" /\ Begins(t, Bits(c).set, Bits(c).clear)
  BY <1>3 DEF ChangesBegin
<1> QED BY <1>1, <1>2, <1>4 DEF MayChange, Begins

\* Until the receiver is enabled, main goes straight to enabling it.
LEMMA OffMoves ==
  ASSUME ReadsInTime, BaseInv, OnInv, OffInv, ~On, CpuMoves
  PROVE  OffCpu' /\ pc'["main"] # "init"
<1> USE DEF Thread, At, To
<1>1. bus = Idle /\ bus.clock = 0 BY CpuBus, Fields DEF BaseInv
<1>2. pc["isr"] = "none" /\ ~Interrupted /\ ~Writing /\ Running = "main"
  BY <1>1 DEF OffInv, OffCpu, Interrupted, o_uart_rx_int, Running, Writing, o_uart_tx_int, Interrupts
<1>3. /\ DOMAIN pc = Thread /\ DOMAIN rmw = Thread
      /\ pc["main"] \in {"modify", "write"} => rmw["main"].to \in {"enableRx", "ready"}
  BY DEF BaseInv, FlowInv
<1>4. Starting \/ (pc["main"] \in {"modify", "write"} /\ "RX_EN" \in rmw["main"].set)
  BY <1>2 DEF OffInv, OffCpu, Enabling
<1>5. pc["main"] \in {"init", "enable", "enableRx", "modify", "write"} BY <1>4 DEF Starting
<1>6. CASE UART_Init
  <2>1. pc'["main"] = "enable" /\ pc'["isr"] = "none" /\ bus' = WriteOf("SETUP", Nothing)
    BY <1>2, <1>3, <1>6 DEF UART_Init
  <2> QED BY <2>1, Fields DEF OffCpu, Enabling, Starting, Loaded, Writing
<1>7. CASE EnablePorts
  <2>1. pc'["main"] = "modify" /\ pc'["isr"] = "none" /\ bus' = Idle
    BY <1>2, <1>3, <1>7 DEF EnablePorts
  <2>2. \/ rmw'["main"].set = {"TX_EN"} /\ rmw'["main"].to = "enableRx"
        \/ rmw'["main"].set = {"RX_EN"}
    BY <1>3, <1>7 DEF EnablePorts, Change
  <2> QED BY <2>1, <2>2, Fields DEF OffCpu, Enabling, Starting, Loaded, Writing, Interrupts
<1>8. CASE Step("main", "modify", "write", ReadOf("CONTROL"))
  <2>1. /\ pc["main"] = "modify" /\ pc'["main"] = "write" /\ pc'["isr"] = "none"
        /\ bus' = ReadOf("CONTROL") /\ rmw' = rmw
    BY <1>2, <1>3, <1>8 DEF Step, swVars
  <2>2. rmw["main"].set \cap Interrupts = {} BY <2>1 DEF OffInv, OffCpu
  <2> QED BY <1>4, <2>1, <2>2, Fields DEF OffCpu, Enabling, Starting, Loaded, Writing, Running
<1>9. CASE Step("main", "write", rmw["main"].to, WriteOf("CONTROL", Modified("main")))
  <2>1. /\ pc["main"] = "write" /\ pc'["main"] = rmw["main"].to /\ pc'["isr"] = "none"
        /\ bus' = WriteOf("CONTROL", Modified("main")) /\ rmw' = rmw
    BY <1>2, <1>3, <1>9 DEF Step, swVars
  <2>2. rmw["main"].set \cap Interrupts = {} BY <2>1 DEF OffInv, OffCpu
  <2>3. reg["main"].CONTROL \cap Interrupts = {} BY <1>1, <2>1 DEF OffInv, OffCpu, Loaded
  <2>4. Modified("main") \cap Interrupts = {} BY <2>2, <2>3 DEF Modified
  <2>5. "RX_EN" \in rmw["main"].set => "RX_EN" \in Modified("main") BY DEF OnInv, Modified
  <2>6. Enabling' BY <1>3, <1>4, <2>1, <2>5, Fields DEF Enabling, Starting, Writing
  <2>7. pc'["main"] \in {"enableRx", "ready"} BY <1>3, <2>1
  <2> QED BY <2>1, <2>4, <2>6, <2>7, Fields DEF OffCpu, Loaded, Writing
<1>10. ~MainCalls BY <1>5 DEF MainCalls
<1>11. CallStep("main") => ModifyStep("main")
  BY <1>5 DEF CallStep, TransmitStep, SendByte, TransmitDone, ReceiveStep, TakeByte, TxFill, TxState, RxFill, Step
<1>12. ~HandlerStep BY <1>2 DEF HandlerStep, RX_Not_Empty_IRQHandler, RxGot, RxDone, TX_Not_Full_IRQHandler,
  TxSend, TxEnd, TxReady, TxDone, Callback, CallStep, ModifyStep, TransmitStep, SendByte, TransmitDone,
  ReceiveStep, TakeByte, TxFill, TxState, RxFill, Step
<1>13. ~TakeInterrupt BY <1>2 DEF TakeInterrupt
<1> QED BY <1>6, <1>7, <1>8, <1>9, <1>10, <1>11, <1>12, <1>13 DEF CpuMoves, ModifyStep

\* What a clock does to CONTROL.
LEMMA ControlClock ==
  ASSUME BaseInv, OnInv, NEW ends \in BOOLEAN, Clock(ends)
  PROVE  /\ Writing => cr' = bus.dat
         /\ ~Writing => cr' \ Reset = cr \ Reset
         /\ "RX_RST" \in cr' => bus.adr = "SETUP" /\ bus.clock = 1
         /\ On => On'
         /\ ~On /\ On' => Writing
         /\ ~On /\ Writing => (On' <=> "RX_EN" \in bus.dat)
<1>1. Control(bus.adr, bus.we /\ bus.clock = 1, bus.dat) BY DEF Clock, DeviceStep, UartStep
<1>2. Writing => cr' = bus.dat BY <1>1 DEF Control, Writing
<1>3. ~Writing => cr' = IF bus.we /\ bus.clock = 1 /\ bus.adr = "SETUP" THEN cr \cup Reset ELSE cr \ Reset
  BY <1>1 DEF Control, Writing
<1> QED BY <1>2, <1>3 DEF OnInv, On, Reset

\* Once enabled the receiver stays so, and it is not reset again.
LEMMA OnStep ==
  ASSUME ReadsInTime, BaseInv, OnInv, OffInv, NEW ends \in BOOLEAN, Clock(ends)
  PROVE  OnInv'
<1> USE DEF BaseInv
<1>0. /\ "RX_RST" \in cr' => bus.adr = "SETUP" /\ bus.clock = 1
      /\ On => On'
      /\ ~On /\ On' => Writing
  BY ControlClock
<1>1. CASE CpuMoves
  <2>1. bus = Idle /\ reg' = reg /\ bus.clock = 0 /\ bus.adr = "none" BY <1>1, CpuBus, Fields
  <2>2. \A t \in Thread : MayChange(t) BY DEF OnInv, MayChange
  <2>3. ControlKept BY <1>1, ControlStarts
  <2>4. On' <=> On BY <1>0, <2>1 DEF Writing
  <2>5. ASSUME NEW t \in Thread, pc[t] = "write"
        PROVE  "RX_RST" \notin reg[t].CONTROL /\ (On => "RX_EN" \in reg[t].CONTROL)
    BY <2>1, <2>5 DEF OnInv, Loaded
  <2>6. ASSUME NEW t \in Thread, Loaded(t)' PROVE pc[t] = "write"
    BY <2>3, <2>6, Fields DEF Loaded, ControlKept
  <2>7. Writing' => "RX_RST" \notin bus'.dat /\ (On' => "RX_EN" \in bus'.dat)
    <3> SUFFICES ASSUME Writing' PROVE "RX_RST" \notin bus'.dat /\ (On' => "RX_EN" \in bus'.dat) OBVIOUS
    <3>1. pc[Running] = "write" /\ bus'.dat = Modified(Running) BY <2>3 DEF Writing, ControlKept
    <3>2. Running \in Thread BY DEF Running, Thread
    <3>3. MayChange(Running) BY <2>2, <3>2
    <3> QED BY <2>4, <2>5, <3>1, <3>2, <3>3 DEF Modified, MayChange
  <2>8. pc'[Running'] = "write" => bus' = Idle \/ (bus'.adr = "CONTROL" /\ ~bus'.we)
    BY <2>3, Fields DEF ControlKept
  <2>9. pc'["main"] # "init"
    <3>1. pc["main"] = "init" => ~On BY DEF OnInv, Fresh
    <3> QED BY <1>1, <2>3, <3>1, OffMoves DEF ControlKept
  <2>10. Fresh' => ~On' BY <2>3, <2>4 DEF Fresh, ControlKept, OnInv
  <2>11. "RX_RST" \notin cr' BY <1>0, <2>1
  <2>12. \A t \in Thread : MayChange(t)' BY <1>1, <2>2, ChangesAllowed
  <2>13. \A t \in Thread : Loaded(t)' => "RX_RST" \notin reg'[t].CONTROL /\ (On' => "RX_EN" \in reg'[t].CONTROL)
    BY <2>1, <2>4, <2>5, <2>6
  <2> QED BY <2>7, <2>8, <2>9, <2>10, <2>11, <2>12, <2>13 DEF OnInv, MayChange
<1>2. CASE CpuWaits
  <2>1. pc' = pc /\ rmw' = rmw /\ Running' = Running BY <1>2 DEF CpuWaits, Running
  <2>2. /\ bus' = Idle \/ (bus'.adr = bus.adr /\ bus'.we = bus.we)
        /\ bus = Idle => bus' = Idle
        /\ bus'.clock # 1
        /\ bus.clock \in {1, 2} => bus'.clock = bus.clock + 1 /\ bus'.adr = bus.adr /\ bus'.we = bus.we
    BY <1>2, Fields DEF CpuWaits, BusInv
  <2>3. ASSUME NEW t \in Thread, Loaded(t)'
        PROVE  "RX_RST" \notin reg'[t].CONTROL /\ (On' => "RX_EN" \in reg'[t].CONTROL)
    <3>1. pc[t] = "write" BY <2>1, <2>3 DEF Loaded
    <3>2. CASE t = Running /\ bus.adr = "CONTROL" /\ bus.clock \in {1, 2}
      <4>1. ~bus.we BY <3>1, <3>2, Fields DEF OnInv
      <4>2. bus.clock = 2 BY <2>1, <2>2, <2>3, <3>2 DEF Loaded
      <4>3. reg'[t].CONTROL = cr BY <1>2, <3>2, <4>1, <4>2 DEF CpuWaits, ReadData, BusInv
      <4>4. "RX_RST" \notin cr BY <3>2, Fields DEF OnInv, Fresh
      <4>5. On' => On BY <1>0, <4>1 DEF Writing
      <4> QED BY <4>3, <4>4, <4>5 DEF On
    <3>3. CASE ~(t = Running /\ bus.adr = "CONTROL" /\ bus.clock \in {1, 2})
      <4>1. Loaded(t) BY <3>1, <3>3 DEF Loaded
      <4>2. reg'[t] = reg[t]
        <5>1. CASE t = Running
          <6>1. bus.clock # 2 BY <3>1, <3>3, <5>1, Fields DEF OnInv
          <6> QED BY <1>2, <6>1 DEF CpuWaits
        <5>2. CASE t # Running BY <1>2, <5>2 DEF CpuWaits, BusInv
        <5> QED BY <5>1, <5>2
      <4>3. On' => On
        <5> SUFFICES ASSUME On', ~On PROVE FALSE OBVIOUS
        <5>1. Writing BY <1>0
        <5>2. pc["isr"] = "none" /\ Running = "main" BY DEF OffInv, OffCpu, Running
        <5>3. pc[Running] = "write" BY <3>1, <5>2 DEF Thread
        <5> QED BY <5>1, <5>3, Fields DEF Writing, OnInv
      <4> QED BY <4>1, <4>2, <4>3 DEF OnInv
    <3> QED BY <3>2, <3>3
  <2>4. ~Writing' BY <2>2 DEF Writing
  <2>5. pc'[Running'] = "write" => bus' = Idle \/ (bus'.adr = "CONTROL" /\ ~bus'.we)
    BY <2>1, <2>2 DEF OnInv
  <2>6. pc'["main"] = "init" => bus' = Idle BY <2>1, <2>2 DEF OnInv
  <2>7. "RX_RST" \in cr' => Fresh' BY <1>0, <2>2 DEF Fresh
  <2>8. Fresh' => ~On'
    <3>1. Fresh' => Fresh BY <2>1, <2>2, Fields DEF Fresh
    <3>2. Fresh => ~Writing BY Fields DEF Fresh, OnInv, Writing
    <3> QED BY <1>0, <3>1, <3>2 DEF OnInv
  <2> QED BY <2>1, <2>3, <2>4, <2>5, <2>6, <2>7, <2>8 DEF OnInv
<1> QED BY <1>1, <1>2 DEF Clock

\* Until the receiver is enabled nothing arrives and nothing interrupts.
LEMMA OffStep ==
  ASSUME ReadsInTime, BaseInv, OnInv, OffInv, NEW ends \in BOOLEAN, Clock(ends)
  PROVE  OffInv'
<1> SUFFICES ASSUME ~On'
             PROVE  /\ in' = 0 /\ rx_stage' = "idle" /\ rx_empty_d' = 0 /\ cr' \cap Interrupts = {}
                    /\ OffCpu'
  BY DEF OffInv
<1>1. ~On BY ControlClock
<1>2. in = 0 /\ rx_stage = "idle" /\ rx_empty_d = 0 /\ cr \cap Interrupts = {} /\ OffCpu
  BY <1>1 DEF OffInv
<1>3. in' = 0 /\ rx_stage' = "idle" BY <1>1, <1>2 DEF Clock, DeviceStep, UartStep, Receiver, ByteBegins, ByteEnds, On
<1>4. rx_empty_d' = 0 BY <1>2 DEF Clock, DeviceStep, UartStep, RxFlags
<1>5. cr' \cap Interrupts = {} BY <1>2, ControlClock DEF OffCpu, Reset, Interrupts
<1>6. ASSUME CpuMoves PROVE OffCpu' BY <1>1, <1>6, OffMoves
<1>7. ASSUME CpuWaits PROVE OffCpu'
  <2>1. pc' = pc /\ rmw' = rmw /\ pc'["isr"] = "none" /\ Running = "main" /\ Running' = "main"
    BY <1>2, <1>7 DEF CpuWaits, Running, OffCpu
  <2>2. /\ bus'.clock # 1
        /\ bus.clock \in {1, 2} => bus'.clock = bus.clock + 1 /\ bus'.adr = bus.adr
    BY <1>7, Fields DEF CpuWaits, BaseInv, BusInv
  <2>3. ~(Writing /\ "RX_EN" \in bus.dat) BY <1>1, ControlClock
  <2>4. Enabling' BY <1>2, <2>1, <2>3 DEF OffCpu, Enabling, Starting
  <2>5. Loaded("main")' => reg'["main"].CONTROL \cap Interrupts = {}
    <3> SUFFICES ASSUME Loaded("main")' PROVE reg'["main"].CONTROL \cap Interrupts = {} OBVIOUS
    <3>1. CASE reg' = reg
      <4>1. CASE bus.adr = "CONTROL" /\ bus.clock \in {1, 2}
        <5>1. bus.clock = 2 BY <2>1, <2>2, <4>1 DEF Loaded
        <5>2. ~bus.we BY <2>1, <4>1, <5>1, Fields DEF OnInv, Loaded
        <5>3. reg'["main"].CONTROL = cr
          BY <1>7, <2>1, <4>1, <5>1, <5>2 DEF CpuWaits, ReadData, BaseInv, BusInv, Thread
        <5> QED BY <1>2, <5>3
      <4>2. CASE ~(bus.adr = "CONTROL" /\ bus.clock \in {1, 2})
        <5>1. Loaded("main") BY <2>1, <4>2 DEF Loaded
        <5> QED BY <1>2, <3>1, <5>1 DEF OffCpu
      <4> QED BY <4>1, <4>2
    <3>2. CASE reg' # reg
      <4>1. reg'["main"].CONTROL \in {cr, {}}
        BY <1>7, <2>1, <3>2 DEF CpuWaits, ReadData, BaseInv, BusInv, Thread
      <4> QED BY <1>2, <4>1
    <3> QED BY <3>1, <3>2
  <2>6. ~Writing' BY <2>2 DEF Writing
  <2> QED BY <1>2, <2>1, <2>4, <2>5, <2>6 DEF OffCpu
<1> QED BY <1>3, <1>4, <1>5, <1>6, <1>7 DEF Clock

\* Main receives, or the handler does.
LEMMA ReaderStep ==
  ASSUME ReadsInTime, BaseInv, ReaderInv, CpuMoves \/ CpuWaits
  PROVE  ReaderInv'
<1> USE DEF BaseInv, FlowInv, At, To, Thread, swVars, CallLabel, ReaderInv
<1>1. CASE CpuWaits
  <2>1. pc' = pc /\ RxState' = RxState /\ ret' = ret /\ Running' = Running BY <1>1 DEF CpuWaits, Running
  <2>2. bus'.clock # 0 => bus'.adr = bus.adr /\ bus.clock # 0
    BY <1>1, Fields DEF CpuWaits, BusInv
  <2> QED BY <2>1, <2>2
<1>2. CASE CpuMoves
  <2> DEFINE Readers ==
    /\ pc'["main"] \in {"rxPoll", "rxCheck"} => RxState' # "BUSY_RX"
    /\ pc'["isr"] \in {"rxGot", "rxCallback", "rxDone"} \/ (pc'["isr"] \in CallLabel /\ ret' = "rxDone")
         => RxState' = "BUSY_RX"
    /\ pc'["isr"] \in {"rxPoll", "rxCheck"} => ret' = "rxDone"
    /\ pc'["isr"] # "rxFill"
  <2> HIDE DEF Readers
  <2>2. TakeInterrupt => Readers BY DEF TakeInterrupt, Interrupted, Readers
  <2>3. RX_Not_Empty_IRQHandler => Readers
    BY DEF RX_Not_Empty_IRQHandler, RxGot, RxDone, Step, Readers
  <2>4. TX_Not_Full_IRQHandler => Readers
    BY DEF TX_Not_Full_IRQHandler, TxSend, TxEnd, TxReady, TxDone, Step, Readers
  <2>5. ASSUME NEW c \in RxCallback, At("isr", "rxCallback"), StartCall("isr", c) PROVE Readers
    <3>1. Entry(c) = "rxFill" => ~Accepts(c) BY <2>5, EntryLabels, CallsAre DEF Accepts, AllCalls
    <3>2. Entry(c) \in {"modify", "txPoll", "txFill", "rxPoll", "rxFill"} BY EntryLabels, CallsAre DEF AllCalls
    <3> QED BY <2>5, <3>1, <3>2 DEF StartCall, Back, Readers
  <2>6. ASSUME NEW c \in TxCallback, At("isr", "txCallback"), StartCall("isr", c) PROVE Readers
    <3>1. Entry(c) \in {"modify", "txPoll", "txFill"} BY EntryLabels, CallsAre DEF AllCalls, ReadsInTime
    <3> QED BY <2>6, <3>1 DEF StartCall, Back, Readers
  <2>7. Callback("rxCallback", RxCallback) => Readers BY <2>5 DEF Callback, Step, Readers
  <2>8. Callback("txCallback", TxCallback) => Readers BY <2>6 DEF Callback, Step, Readers
  <2>9. ASSUME NEW t \in Thread, CallStep(t) PROVE Readers
    <3>0. t = "main" => pc["isr"] = "none"
      BY <2>9 DEF CallStep, ModifyStep, TransmitStep, SendByte, TransmitDone, ReceiveStep, TakeByte,
                  TxFill, TxState, RxFill, Step, Running
    <3>1. CASE ModifyStep(t) BY <3>0, <3>1 DEF ModifyStep, Step, Readers
    <3>2. CASE TransmitStep(t) BY <3>0, <3>2 DEF TransmitStep, SendByte, TransmitDone, Step, Back, Readers
    <3>3. CASE ReceiveStep(t) BY <3>0, <3>3 DEF ReceiveStep, TakeByte, Step, Back, Readers
    <3>4. CASE TxFill(t) BY <3>4 DEF TxFill, Readers
    <3>5. CASE TxState(t) BY <3>5 DEF TxState, Readers
    <3>6. CASE RxFill(t) BY <3>0, <3>6 DEF RxFill, Readers
    <3> QED BY <2>9, <3>1, <3>2, <3>3, <3>4, <3>5, <3>6 DEF CallStep
  <2>10. UART_Init \/ EnablePorts => Readers BY DEF UART_Init, EnablePorts, Running, Readers
  <2>11. ASSUME NEW c \in MainCall, At("main", "ready"), c.fn = "Receive" => RxState = "READY",
                StartCall("main", c)
         PROVE  Readers
    <3>1. Entry(c) = "rxPoll" => RxState = "READY" BY <2>11, EntryLabels, CallsAre DEF AllCalls
    <3>2. Entry(c) \in {"modify", "txPoll", "txFill", "rxPoll", "rxFill"} BY EntryLabels, CallsAre DEF AllCalls
    <3> QED BY <2>11, <3>1, <3>2 DEF StartCall, Back, Readers, Running
  <2>12. MainCalls => Readers BY <2>11 DEF MainCalls
  <2>13. Readers
    BY <1>2, <2>2, <2>3, <2>4, <2>7, <2>8, <2>9, <2>10, <2>12 DEF CpuMoves, HandlerStep
  <2>14. bus'.clock # 0 /\ pc'[Running'] \in {"rxCheck", "rxGot"} => bus'.adr = "RX_DATA"
    BY <1>2, ReadStarts, Fields DEF ReadsKept
  <2> QED BY <2>13, <2>14 DEF Readers
<1> QED BY <1>1, <1>2

\* Where reads begin and end.
ReadsMove ==
  /\ bus'.adr = "RX_DATA" => pc[Running'] = IF pc'[Running'] = "rxGot" THEN "rxIrq" ELSE "rxPoll"
  /\ pc'["isr"] = "rxIrq" => pc["isr"] = "rxIrq" \/ o_uart_rx_int
  /\ pc["isr"] = "rxGot" => pc'["isr"] = "rxGot" \/ RxGot
  /\ \A t \in Thread : pc[t] = "rxCheck" /\ reg[t].RX_EMPTY = 1 => pc'[t] = "rxCheck" \/ TakeByte(t)

\* Every instruction moves as above.
LEMMA ReadMoves ==
  ASSUME FlowInv, CpuMoves
  PROVE  ReadsMove
<1> USE DEF FlowInv, At, To, Thread, swVars, Running, ReadsMove
<1>1. Idle.adr = "none" /\ (\A a : ReadOf(a).adr = a) /\ (\A a, d : WriteOf(a, d).adr = a) BY Fields
<1>2. CASE TakeInterrupt BY <1>1, <1>2 DEF TakeInterrupt, Interrupted
<1>3. CASE RX_Not_Empty_IRQHandler
  BY <1>1, <1>3 DEF RX_Not_Empty_IRQHandler, RxDone, RxGot, Step
<1>4. CASE TX_Not_Full_IRQHandler
  BY <1>1, <1>4 DEF TX_Not_Full_IRQHandler, TxSend, TxEnd, TxReady, TxDone, Step
<1>5. ASSUME NEW t \in Thread, NEW c \in AllCalls, StartCall(t, c), t = Running,
             pc[t] \in {"ready", "rxCallback", "txCallback"}
      PROVE  ReadsMove
  <2>1. Entry(c) # "rxIrq" /\ Back(t) # "rxIrq" BY <1>5, EntryLabels, CallsAre DEF Back, IsrLabel, RxLabel, TxLabel, CallLabel
  <2>2. bus' = Idle /\ \E label \in {Back(t), Entry(c)} : pc' = [pc EXCEPT ![t] = label]
    BY <1>5 DEF StartCall
  <2> QED BY <1>1, <1>5, <2>1, <2>2
<1>6. CASE Callback("rxCallback", RxCallback) BY <1>1, <1>5, <1>6 DEF Callback, Step, AllCalls
<1>7. CASE Callback("txCallback", TxCallback) BY <1>1, <1>5, <1>7 DEF Callback, Step, AllCalls
<1>8. ASSUME NEW t \in Thread, CallStep(t) PROVE ReadsMove
  <2>1. CASE ModifyStep(t)
    <3>1. rmw[t].to # "rxIrq" \/ pc[t] # "write" BY DEF CallLabel
    <3> QED BY <1>1, <2>1, <3>1 DEF ModifyStep, Step
  <2>2. CASE TransmitStep(t)
    BY <1>1, <2>2 DEF TransmitStep, SendByte, TransmitDone, Step, Back, CallLabel
  <2>3. CASE TakeByte(t)
    <3>1. pc[t] = "rxCheck" /\ bus' = Idle /\ \E label \in {Back(t), "rxPoll"} : pc' = [pc EXCEPT ![t] = label]
      BY <2>3 DEF TakeByte
    <3>2. Back(t) \notin {"rxIrq", "rxGot"}
      <4>1. t = "isr" => ret \in {"rxDone", "txDone"} BY <3>1 DEF CallLabel
      <4> QED BY <4>1 DEF Back
    <3>3. \A s \in Thread : pc'[s] \in {"rxIrq", "rxGot"} => pc'[s] = pc[s] BY <3>1, <3>2
    <3>4. \A s \in Thread : s # t => pc'[s] = pc[s] BY <3>1
    <3>5. pc["isr"] = "rxGot" => pc'["isr"] = "rxGot" BY <3>1, <3>4
    <3> QED BY <1>1, <2>3, <3>1, <3>3, <3>4, <3>5
  <2>4. CASE ReceiveStep(t) /\ ~TakeByte(t)
    BY <1>1, <2>4 DEF ReceiveStep, Step, Back, CallLabel
  <2>5. CASE TxFill(t) \/ TxState(t) \/ RxFill(t) BY <1>1, <2>5 DEF TxFill, TxState, RxFill
  <2> QED BY <1>8, <2>1, <2>2, <2>3, <2>4, <2>5 DEF CallStep
<1>9. CASE UART_Init \/ EnablePorts BY <1>1, <1>9 DEF UART_Init, EnablePorts
<1>10. CASE MainCalls BY <1>5, <1>10 DEF MainCalls, AllCalls
<1> QED BY <1>2, <1>3, <1>4, <1>6, <1>7, <1>8, <1>9, <1>10 DEF CpuMoves, HandlerStep

\* One thread reads at a time.
LEMMA OneReader ==
  ASSUME BaseInv, ReaderInv
  PROVE  /\ \A t, u \in Thread : Has(t) /\ Has(u) => t = u
         /\ Reading(1) \/ Reading(2) => \A t \in Thread : ~Has(t)
         /\ pc["main"] # "rxGot"
<1>1. pc["main"] # "rxGot" BY DEF BaseInv, FlowInv, MainLabel, CallLabel
<1>2. Has("main") => RxState # "BUSY_RX" BY <1>1 DEF Has, ReaderInv
<1>3. pc["isr"] \in {"rxCheck", "rxGot"} => RxState = "BUSY_RX" BY DEF ReaderInv, CallLabel
<1>4. Has("isr") => pc["isr"] \in {"rxCheck", "rxGot"} BY DEF Has
<1>5. ASSUME Reading(1) \/ Reading(2) PROVE \A t \in Thread : ~Has(t)
  <2>1. ~Has(Running) BY <1>5 DEF Has
  <2>2. pc[Running] \in {"rxCheck", "rxGot"} BY <1>5 DEF BaseInv, BusInv, Reading
  <2>3. CASE Running = "main" BY <1>4, <2>1, <2>3 DEF Running, Thread
  <2>4. CASE Running = "isr" BY <1>2, <1>3, <2>1, <2>2, <2>4 DEF Thread
  <2> QED BY <2>3, <2>4 DEF Running
<1> QED BY <1>1, <1>2, <1>3, <1>4, <1>5 DEF Thread

\* How the byte that was read moves: not at all, into rcv, or from the UART.
Rests == rcv' = rcv /\ \A t \in Thread : (Has(t)' <=> Has(t)) /\ (Has(t) => reg'[t] = reg[t])
Gives(t) == Has(t) /\ rcv' = Append(rcv, reg[t].RX_BYTE) /\ \A u \in Thread : ~Has(u)'
Gets == /\ rcv' = rcv /\ Reading(2)
        /\ \A t \in Thread : /\ ~Has(t)
                             /\ Has(t)' <=> t = Running /\ rx_empty = 1
                             /\ Has(t)' => reg'[t].RX_BYTE = rx_data

\* An instruction hands the byte over, or nothing moves.
LEMMA ByteMoves ==
  ASSUME BaseInv, ReaderInv, CpuMoves
  PROVE  Rests \/ \E t \in Thread : Gives(t)
<1>1. bus = Idle /\ reg' = reg /\ bus.clock = 0 /\ bus.adr = "none" BY CpuBus, Fields DEF BaseInv
<1>2. ReadsKept /\ ReadsMove BY ReadStarts, ReadMoves DEF BaseInv
<1>3. \A t \in Thread : Has(t) <=> (pc[t] = "rxCheck" /\ reg[t].RX_EMPTY = 1) \/ pc[t] = "rxGot"
  BY <1>1 DEF Has, Reading
<1>4. ASSUME NEW t \in Thread, Has(t)' PROVE Has(t)
  <2>1. pc'[t] \in {"rxCheck", "rxGot"} /\ ~(t = Running' /\ Reading(1)') BY <1>4 DEF Has
  <2>2. pc'[t] = pc[t] BY <1>2, <2>1, Fields DEF ReadsKept, Reading
  <2> QED BY <1>1, <1>3, <1>4, <2>2 DEF Has
<1>5. ASSUME NEW t \in Thread, TakeByte(t) PROVE Gives(t)
  <2>1. Has(t) /\ rcv' = Append(rcv, reg[t].RX_BYTE) BY <1>3, <1>5 DEF TakeByte, At
  <2>2. pc'[t] \notin {"rxCheck", "rxGot"}
    BY <1>5 DEF TakeByte, At, To, Back, BaseInv, FlowInv, Thread, CallLabel
  <2>3. ~Has(t)' BY <2>2 DEF Has
  <2> QED BY <1>4, <2>1, <2>3, OneReader DEF Gives
<1>6. ASSUME RxGot PROVE Gives("isr")
  <2>1. Has("isr") /\ rcv' = Append(rcv, reg["isr"].RX_BYTE) BY <1>3, <1>6 DEF RxGot, At, Thread
  <2>2. pc'["isr"] \notin {"rxCheck", "rxGot"} BY <1>6 DEF RxGot, To, BaseInv, FlowInv, Thread
  <2>3. ~Has("isr")' BY <2>2 DEF Has
  <2> QED BY <1>4, <2>1, <2>3, OneReader DEF Gives, Thread
<1>7. ASSUME ~RxGot, \A t \in Thread : ~TakeByte(t) PROVE Rests
  <2>1. rcv' = rcv BY <1>2, <1>7 DEF ReadsKept
  <2>2. ASSUME NEW t \in Thread, Has(t) PROVE Has(t)'
    <3>1. pc'[t] = pc[t]
      BY <1>2, <1>3, <1>7, <2>2, OneReader DEF ReadsMove, Thread
    <3>2. ~(t = Running' /\ (Reading(1)' \/ Reading(2)'))
      BY <1>2, <1>3, <2>2 DEF ReadsMove, Reading
    <3> QED BY <1>1, <1>3, <2>2, <3>1, <3>2 DEF Has
  <2> QED BY <1>1, <1>4, <2>1, <2>2 DEF Rests
<1> QED BY <1>5, <1>6, <1>7 DEF Thread

\* A clock of waiting brings a byte when it is the one that samples RX_DATA.
LEMMA ByteWaits ==
  ASSUME BaseInv, ReaderInv, CpuWaits,
         pc["isr"] = "rxGot" /\ Reading(2) => rx_empty = 1
  PROVE  Rests \/ Gets
<1> USE DEF BaseInv
<1>1. pc' = pc /\ rcv' = rcv /\ Running' = Running BY DEF CpuWaits, Running
<1>2. Running \in Thread BY DEF Running, Thread
<1>3. CASE Reading(2)
  <2>1. /\ reg' = [reg EXCEPT ![Running] = ReadData("RX_DATA")]
        /\ bus'.clock = 3 /\ pc[Running] \in {"rxCheck", "rxGot"}
    BY <1>3 DEF CpuWaits, BusInv, Reading
  <2>2. /\ reg'[Running].RX_EMPTY = rx_empty /\ reg'[Running].RX_BYTE = rx_data
        /\ \A t \in Thread : t # Running => reg'[t] = reg[t]
    BY <1>2, <2>1 DEF ReadData, BusInv
  <2>3. \A t \in Thread : ~Has(t) BY <1>3, OneReader
  <2>4. ASSUME NEW t \in Thread, t # Running PROVE ~Has(t)'
    BY <1>1, <2>2, <2>3, <2>4 DEF Has
  <2>5. pc[Running] = "rxGot" => rx_empty = 1 BY <1>3, OneReader DEF Running
  <2>6. ASSUME NEW t \in Thread, t = Running PROVE Has(t)' <=> rx_empty = 1
    BY <1>1, <2>1, <2>2, <2>5, <2>6 DEF Has, Reading
  <2> QED BY <1>1, <1>3, <2>2, <2>3, <2>4, <2>6 DEF Gets
<1>4. CASE ~Reading(2)
  <2>1. ASSUME NEW t \in Thread PROVE (Has(t)' <=> Has(t)) /\ (Has(t) => reg'[t] = reg[t])
    <3>1. CASE Reading(1)
      <4>1. reg' = reg /\ Reading(2)' BY <3>1 DEF CpuWaits, Reading, BusInv
      <4> QED BY <1>1, <3>1, <4>1 DEF Has
    <3>2. CASE ~Reading(1)
      <4>1. ~Reading(1)' /\ ~Reading(2)' BY <1>4, <3>2, Fields DEF CpuWaits, Reading, BusInv
      <4>2. CASE reg'[t] = reg[t] BY <1>1, <1>4, <3>2, <4>1, <4>2 DEF Has
      <4>3. CASE reg'[t] # reg[t]
        <5>1. t = Running /\ bus.clock = 2 BY <1>2, <4>3 DEF CpuWaits, BusInv
        <5>2. pc[t] \notin {"rxCheck", "rxGot"} BY <1>4, <5>1 DEF ReaderInv, Reading
        <5> QED BY <1>1, <5>2 DEF Has
      <4> QED BY <4>2, <4>3
    <3> QED BY <3>1, <3>2
  <2> QED BY <1>1, <2>1 DEF Rests
<1> QED BY <1>3, <1>4

\* What the receiver does in a clock: resets come before the first byte only.
LEMMA ReceiverInTime ==
  ASSUME ReadsInTime, BaseInv, OnInv, OffInv, NEW ends \in BOOLEAN, Clock(ends)
  PROVE  \/ ByteBegins
         \/ ByteEnds /\ rx_empty_d = 0
         \/ rx_stage = "pre_wr" /\ rx_stage' = "wr" /\ UNCHANGED <<rx_bits, rx_data, in>>
         \/ rx_stage = "wr" /\ rx_stage' = "idle" /\ UNCHANGED <<rx_bits, rx_data, in>>
         \/ /\ rx_stage \in {"idle", "bits"} /\ UNCHANGED <<rx_stage, rx_data, in>>
            /\ rx_stage = "bits" => rx_bits' = rx_bits
         \/ rx_stage = "idle" /\ UNCHANGED <<rx_stage, in>> /\ rx_empty_d = 0
<1>1. Receiver /\ (rx_stage = "bits" /\ rx_stage' = "pre_wr" => rx_empty_d = 0)
  BY DEF Clock, DeviceStep, UartStep, PeerMay, ReadsInTime
<1>2. "RX_RST" \in cr' => rx_stage = "idle" /\ rx_empty_d = 0
  <2>1. "RX_RST" \in cr' => Fresh BY ControlClock DEF Fresh
  <2> QED BY <2>1 DEF OnInv, OffInv
<1>3. rx_stage = "bits" => "RX_EN" \in cr BY DEF OffInv, On
<1> QED BY <1>1, <1>2, <1>3 DEF Receiver, ByteEnds

\* What happens to the flags: the arriving byte raises one, the read that has
\* latched it clears it.
LEMMA FlagsInTime ==
  ASSUME BaseInv, ReaderInv, InTimeInv, NEW ends \in BOOLEAN, Clock(ends)
  PROVE  /\ Reading(2)' <=> Reading(1)
         /\ Reading(3)' <=> Reading(2)
         /\ rx_empty' = 1 => Reading(2)' \/ Reading(3)'
         /\ Reading(2) => rx_empty' = rx_empty
         /\ Reading(1) /\ rx_empty_d = 1 => rx_empty' = 1
         /\ rx_empty_d' = 1 /\ rx_stage # "wr" => rx_empty_d = 1
         /\ rx_empty_d = 1 /\ ~(Reading(3) /\ rx_empty = 1) => rx_empty_d' = 1
         /\ Flagged' <=> rx_stage = "wr" \/ (Flagged /\ ~(Reading(2) /\ rx_empty = 1))
         /\ rx_stage = "wr" => ~Flagged /\ rx_empty = 0
<1> USE DEF BaseInv
<1>1. RxFlags(bus.adr, bus.clock = 1) BY DEF Clock, DeviceStep, UartStep
<1>2. /\ Reading(2)' <=> Reading(1)
      /\ Reading(3)' <=> Reading(2)
  <2>1. CASE CpuMoves
    <3>1. bus = Idle /\ Accesses BY <2>1, CpuBus
    <3>2. bus'.clock \in {0, 1} /\ bus.clock = 0 BY <3>1, Fields DEF Accesses
    <3> QED BY <3>2 DEF Reading
  <2>2. CASE CpuWaits BY <2>2, Fields DEF CpuWaits, BusInv, Reading
  <2> QED BY <2>1, <2>2 DEF Clock
<1>3. /\ rx_empty \in Bit /\ rx_empty_d \in Bit /\ (rx_empty = 1 => rx_empty_d = 1)
      /\ rx_empty = 1 => Reading(2) \/ Reading(3)
      /\ rx_stage = "wr" => rx_empty_d = 0
      /\ Reading(2) => r_wb_ack = 1 /\ bus.clock = 2
      /\ Reading(3) => r_wb_ack = 0 /\ r_wb_addr = "RX_DATA" /\ bus.clock = 3
  BY DEF DeviceInv, InTimeInv, BusInv, Reading
<1>4. CASE rx_stage = "wr"
  <2>1. rx_empty' = rx_empty /\ rx_empty_d' = 1 /\ rx_empty = 0 BY <1>1, <1>3, <1>4 DEF RxFlags, Bit
  <2> QED BY <1>2, <1>3, <1>4, <2>1 DEF Flagged, Bit
<1>5. CASE rx_stage # "wr" /\ Reading(3) /\ rx_empty = 1
  <2>1. rx_empty' = 0 /\ rx_empty_d' = 0 BY <1>1, <1>3, <1>5 DEF RxFlags
  <2>2. ~Reading(1) /\ ~Reading(2) BY <1>5 DEF Reading
  <2> QED BY <1>2, <1>3, <1>5, <2>1, <2>2 DEF Flagged
<1>6. CASE rx_stage # "wr" /\ ~(Reading(3) /\ rx_empty = 1)
  <2>1. rx_empty = 1 => Reading(2) BY <1>3, <1>6
  <2>2. /\ rx_empty' = IF rx_empty = 0 /\ Reading(1) THEN rx_empty_d ELSE rx_empty
        /\ rx_empty_d' = rx_empty_d
    BY <1>1, <1>3, <1>6, <2>1 DEF RxFlags, Reading
  <2>3. ~(Reading(1) /\ Reading(2)) /\ ~(Reading(2) /\ Reading(3)) BY DEF Reading
  <2> QED BY <1>2, <1>3, <1>6, <2>1, <2>2, <2>3 DEF Flagged, Bit
<1> QED BY <1>4, <1>5, <1>6

\* Bytes handed over and held: one more when a read finds a byte, no other change.
HeldCount == Len(rcv) + One(\E t \in Thread : Has(t))

\* The bytes handed over are in order, and the one held is the next.
LEMMA BytesInTime ==
  ASSUME ReadsInTime, BaseInv, ReaderInv, InTimeInv, NEW ends \in BOOLEAN, Clock(ends)
  PROVE  /\ rcv' \in Seq(Nat) /\ ReceivedInOrder'
         /\ HeldCount' = HeldCount + One(Reading(2) /\ rx_empty = 1)
         /\ \A t \in Thread : Has(t)' => reg'[t].RX_BYTE = Len(rcv') + 1
<1> DEFINE Any == \E t \in Thread : Has(t)
<1>1. /\ rcv \in Seq(Nat) /\ ReceivedInOrder
      /\ in = Len(rcv) + One(Any) + One(Flagged) + One(rx_stage # "idle")
      /\ \A t \in Thread : Has(t) => reg[t].RX_BYTE = Len(rcv) + 1
      /\ rx_empty_d = 1 => rx_data = in - One(rx_stage # "idle")
      /\ pc["isr"] = "rxGot" /\ Reading(2) => rx_empty = 1
  BY DEF InTimeInv
<1>2. Len(rcv) \in Nat BY <1>1
<1>3. Reading(2) => \A t \in Thread : ~Has(t) BY OneReader
<1>4. CASE Rests
  <2>1. rcv' = rcv /\ (\A t \in Thread : Has(t)' <=> Has(t)) /\ (\A t \in Thread : Has(t) => reg'[t] = reg[t])
    BY <1>4 DEF Rests
  <2>2. ~(Reading(2) /\ rx_empty = 1)
    <3> SUFFICES ASSUME Reading(2), rx_empty = 1 PROVE FALSE OBVIOUS
    <3>1. ~CpuMoves BY CpuBus, Fields DEF Reading, BaseInv
    <3>2. CpuWaits BY <3>1 DEF Clock
    <3>3. PICK r \in Thread : r = Running BY DEF Running, Thread
    <3>4. reg'[r].RX_EMPTY = 1 /\ bus'.clock = 3 /\ pc' = pc
      BY <3>2, <3>3 DEF CpuWaits, Reading, BaseInv, BusInv, ReadData
    <3>5. pc[r] \in {"rxCheck", "rxGot"} BY <3>3 DEF BaseInv, BusInv, Reading
    <3>6. Has(r)' BY <3>4, <3>5 DEF Has, Reading
    <3> QED BY <1>3, <2>1, <3>6
  <2>3. (\E t \in Thread : Has(t))' <=> Any BY <2>1
  <2>4. HeldCount' = HeldCount /\ HeldCount \in Nat BY <1>2, <2>1, <2>3 DEF HeldCount, One
  <2>5. ReceivedInOrder' BY <1>1, <2>1 DEF ReceivedInOrder
  <2>6. One(Reading(2) /\ rx_empty = 1) = 0 BY <2>2 DEF One
  <2>7. \A t \in Thread : Has(t)' => reg'[t].RX_BYTE = Len(rcv') + 1 BY <1>1, <2>1
  <2> QED BY <1>1, <2>1, <2>4, <2>5, <2>6, <2>7
<1>5. ASSUME NEW t \in Thread, Gives(t)
      PROVE  /\ rcv' \in Seq(Nat) /\ ReceivedInOrder'
             /\ HeldCount' = HeldCount + One(Reading(2) /\ rx_empty = 1)
             /\ \A u \in Thread : ~Has(u)'
  <2>1. Has(t) /\ rcv' = Append(rcv, Len(rcv) + 1) /\ \A u \in Thread : ~Has(u)' BY <1>1, <1>5 DEF Gives
  <2>2. ~Reading(2) BY <1>3, <2>1
  <2>3. rcv' \in Seq(Nat) /\ Len(rcv') = Len(rcv) + 1 BY <1>1, <1>2, <2>1
  <2>4. ReceivedInOrder' BY <1>1, <1>2, <2>1 DEF ReceivedInOrder
  <2>5. Any /\ ~(\E u \in Thread : Has(u))' BY <2>1
  <2> QED BY <1>2, <2>1, <2>2, <2>3, <2>4, <2>5 DEF HeldCount, One
<1>6. CASE Gets
  <2>1. /\ rcv' = rcv /\ Reading(2) /\ (\A t \in Thread : ~Has(t))
        /\ \A t \in Thread : Has(t)' <=> t = Running /\ rx_empty = 1
        /\ \A t \in Thread : Has(t)' => reg'[t].RX_BYTE = rx_data
    BY <1>6 DEF Gets
  <2>2. (\E t \in Thread : Has(t))' <=> rx_empty = 1 BY <2>1 DEF Running, Thread
  <2>3. rx_empty = 1 => rx_data = Len(rcv) + 1
    <3> SUFFICES ASSUME rx_empty = 1 PROVE rx_data = Len(rcv) + 1 OBVIOUS
    <3>1. rx_empty_d = 1 BY DEF BaseInv, DeviceInv
    <3>2. Flagged BY <2>1, <3>1 DEF Flagged, Reading
    <3> QED BY <1>1, <1>2, <2>1, <3>1, <3>2 DEF One
  <2>4. ReceivedInOrder' BY <1>1, <2>1 DEF ReceivedInOrder
  <2>5. HeldCount = Len(rcv) BY <1>2, <2>1 DEF HeldCount, One
  <2>6. HeldCount' = Len(rcv) + One(Reading(2) /\ rx_empty = 1) BY <2>1, <2>2 DEF HeldCount, One
  <2>7. \A t \in Thread : Has(t)' => reg'[t].RX_BYTE = Len(rcv') + 1 BY <2>1, <2>3
  <2> QED BY <1>1, <2>1, <2>4, <2>5, <2>6, <2>7
<1>7. Rests \/ (\E t \in Thread : Gives(t)) \/ Gets BY <1>1, ByteMoves, ByteWaits DEF Clock
<1> QED BY <1>4, <1>5, <1>6, <1>7

\* The bytes that began are those handed over, held, flagged and on the wire.
LEMMA InTimeStep ==
  ASSUME ReadsInTime, BaseInv, OnInv, OffInv, ReaderInv, InTimeInv, NEW ends \in BOOLEAN, Clock(ends)
  PROVE  InTimeInv'
<1> DEFINE Busy == rx_stage # "idle"
<1>0. HeldCount \in Nat BY DEF HeldCount, One, InTimeInv
<1>1. /\ in = HeldCount + One(Flagged) + One(Busy) /\ HeldCount \in Nat /\ in \in Nat
      /\ rx_stage = "bits" => rx_bits = in
      /\ rx_stage \in {"pre_wr", "wr"} => rx_data = in /\ rx_empty_d = 0
      /\ rx_empty_d = 1 => rx_data = in - One(Busy)
      /\ rx_stage \in {"idle", "bits", "pre_wr", "wr"}
  BY <1>0 DEF InTimeInv, HeldCount, BaseInv, DeviceInv
<1>2. /\ Reading(3)' <=> Reading(2)
      /\ rx_empty' = 1 => Reading(2)' \/ Reading(3)'
      /\ Reading(2) => rx_empty' = rx_empty
      /\ rx_empty_d' = 1 /\ rx_stage # "wr" => rx_empty_d = 1
      /\ Flagged' <=> rx_stage = "wr" \/ (Flagged /\ ~(Reading(2) /\ rx_empty = 1))
      /\ rx_stage = "wr" => ~Flagged /\ rx_empty = 0
  BY FlagsInTime
<1>3. Reading(2) /\ rx_empty = 1 => Flagged /\ rx_stage # "wr"
  BY <1>1 DEF BaseInv, DeviceInv, Flagged, Reading
<1>4. HeldCount' = HeldCount + One(Reading(2) /\ rx_empty = 1) BY BytesInTime
<1>5. HeldCount' + One(Flagged)' = HeldCount + One(Flagged) + One(rx_stage = "wr")
  BY <1>1, <1>2, <1>3, <1>4 DEF One
<1>6. /\ in' = in + One(Busy)' - One(Busy) + One(rx_stage = "wr")
      /\ rx_stage' = "bits" => rx_bits' = in'
      /\ rx_stage' \in {"pre_wr", "wr"} => rx_data' = in' /\ rx_empty_d' = 0
      /\ rx_empty_d' = 1 => rx_data' = in' - One(Busy)'
      /\ in' \in Nat
  <2>1. CASE ByteBegins BY <1>1, <1>2, <2>1 DEF ByteBegins, One
  <2>2. CASE ByteEnds /\ rx_empty_d = 0
    <3>1. rx_empty_d' # 1 BY <1>2, <2>2 DEF ByteEnds
    <3>2. rx_empty_d' = 0 BY <3>1, BaseStep DEF BaseInv, DeviceInv, Bit, Next
    <3> QED BY <1>1, <2>2, <3>2 DEF ByteEnds, One
  <2>3. CASE rx_stage = "pre_wr" /\ rx_stage' = "wr" /\ UNCHANGED <<rx_bits, rx_data, in>>
    <3>1. rx_empty_d' # 1 BY <1>1, <1>2, <2>3
    <3>2. rx_empty_d' = 0 BY <3>1, BaseStep DEF BaseInv, DeviceInv, Bit, Next
    <3> QED BY <1>1, <2>3, <3>2 DEF One
  <2>4. CASE rx_stage = "wr" /\ rx_stage' = "idle" /\ UNCHANGED <<rx_bits, rx_data, in>>
    BY <1>1, <2>4 DEF One
  <2>5. CASE /\ rx_stage \in {"idle", "bits"} /\ UNCHANGED <<rx_stage, rx_data, in>>
             /\ rx_stage = "bits" => rx_bits' = rx_bits
    BY <1>1, <1>2, <2>5 DEF One
  <2>6. CASE rx_stage = "idle" /\ UNCHANGED <<rx_stage, in>> /\ rx_empty_d = 0 BY <1>1, <1>2, <2>6 DEF One
  <2> QED BY <2>1, <2>2, <2>3, <2>4, <2>5, <2>6, ReceiverInTime
<1>7. in' = HeldCount' + One(Flagged)' + One(Busy)'
  BY <1>1, <1>5, <1>6 DEF One
<1>8. Reading(3)' => reg'[Running'].RX_EMPTY = rx_empty'
  <2> SUFFICES ASSUME Reading(2) PROVE reg'[Running'].RX_EMPTY = rx_empty BY <1>2
  <2>1. CpuWaits BY CpuBus, Fields DEF Clock, Reading, BaseInv
  <2>2. Running' = Running /\ Running \in Thread BY <2>1 DEF CpuWaits, Running, Thread
  <2> QED BY <2>1, <2>2 DEF CpuWaits, Reading, BaseInv, BusInv, ReadData
<1>9. pc'["isr"] = "rxIrq" => rx_empty_d' = 1
  <2> SUFFICES ASSUME pc'["isr"] = "rxIrq" PROVE rx_empty_d' = 1 OBVIOUS
  <2>1. CASE CpuMoves
    <3>1. pc["isr"] = "rxIrq" \/ o_uart_rx_int BY <2>1, ReadMoves DEF ReadsMove, BaseInv
    <3>2. rx_empty_d = 1 BY <3>1 DEF o_uart_rx_int, InTimeInv
    <3>3. ~Reading(3) BY <2>1, CpuBus, Fields DEF Reading, BaseInv
    <3> QED BY <3>2, <3>3, FlagsInTime
  <2>2. CASE CpuWaits
    <3>1. pc["isr"] = "rxIrq" /\ rx_empty_d = 1 BY <2>2 DEF CpuWaits, InTimeInv
    <3>2. ~Reading(3) BY <3>1 DEF BaseInv, BusInv, Reading, Running
    <3> QED BY <3>1, <3>2, FlagsInTime
  <2> QED BY <2>1, <2>2 DEF Clock
<1>10. pc'["isr"] = "rxGot" => /\ Reading(1)' => rx_empty_d' = 1
                               /\ Reading(2)' \/ Reading(3)' => rx_empty' = 1
  <2> SUFFICES ASSUME pc'["isr"] = "rxGot"
               PROVE  /\ Reading(1)' => rx_empty_d' = 1
                      /\ Reading(2)' \/ Reading(3)' => rx_empty' = 1
    OBVIOUS
  <2>1. CASE CpuMoves
    <3>1. ~Reading(3) /\ ~Reading(2) /\ ~Reading(1) BY <2>1, CpuBus, Fields DEF Reading, BaseInv
    <3>2. Reading(1)' => pc["isr"] = "rxIrq"
      BY <2>1, ReadMoves DEF ReadsMove, BaseInv, Reading, Running
    <3>3. pc["isr"] = "rxIrq" => rx_empty_d = 1 BY DEF InTimeInv
    <3> QED BY <3>1, <3>2, <3>3, FlagsInTime
  <2>2. CASE CpuWaits
    <3>1. pc["isr"] = "rxGot" BY <2>2 DEF CpuWaits
    <3>2. /\ Reading(1) => rx_empty_d = 1
          /\ Reading(2) => rx_empty = 1
      BY <3>1 DEF InTimeInv
    <3>3. ~Reading(1)' BY <2>2, Fields DEF CpuWaits, Reading, BaseInv, BusInv
    <3> QED BY <3>2, <3>3, FlagsInTime
  <2> QED BY <2>1, <2>2 DEF Clock
<1> QED BY <1>2, <1>6, <1>7, <1>8, <1>9, <1>10, BytesInTime DEF InTimeInv, HeldCount

(***************************************************************************)
(* A program that reads each byte before the next one has arrived gets the *)
(* bytes that were sent, all of them, once and in order, whether main      *)
(* polls or the handler reads.  It enables the receiver once, at the start *)
(* as every application does, and never resets it, and it starts no        *)
(* reception from the callback of the transmitter, which may run in the    *)
(* middle of one of main's.                                                *)
(***************************************************************************)
THEOREM AllInOrder ==
  ASSUME ReadsInTime
  PROVE  Spec => []ReceivedInOrder
<1> DEFINE IInv == BaseInv /\ OnInv /\ OffInv /\ ReaderInv /\ InTimeInv
<1>1. Init => IInv
  <2> SUFFICES ASSUME Init PROVE OnInv /\ OffInv /\ ReaderInv /\ InTimeInv BY InitBase
  <2>1. /\ pc["main"] = "init" /\ pc["isr"] = "none" /\ Running = "main" /\ bus = Idle
        /\ bus.clock = 0 /\ bus.adr = "none" /\ ~On
        /\ rcv = <<>> /\ DOMAIN rcv = {} /\ Len(rcv) = 0
    BY Fields DEF Init, UartInit, Thread, Running, On, Reset
  <2>2. OnInv BY <2>1 DEF Init, OnInv, Thread, Loaded, Writing, Fresh
  <2>3. OffInv BY <2>1 DEF Init, UartInit, OffInv, OffCpu, Enabling, Starting, Loaded, Writing, Interrupts, Reset
  <2>4. ReaderInv BY <2>1 DEF ReaderInv, CallLabel
  <2>5. \A t \in Thread : ~Has(t) BY <2>1 DEF Has, Thread
  <2>6. InTimeInv BY <2>1, <2>5 DEF Init, UartInit, InTimeInv, One, Flagged, Reading, ReceivedInOrder
  <2> QED BY <2>2, <2>3, <2>4, <2>6
<1>2. IInv /\ [Next]_vars => IInv'
  <2> SUFFICES ASSUME BaseInv, OnInv, OffInv, ReaderInv, InTimeInv, [Next]_vars
               PROVE  OnInv' /\ OffInv' /\ ReaderInv' /\ InTimeInv'
    BY BaseStep
  <2>1. CASE Next
    <3>1. PICK ends \in BOOLEAN : Clock(ends) BY <2>1 DEF Next
    <3> QED BY <3>1, OnStep, OffStep, ReaderStep, InTimeStep DEF Clock
  <2>2. CASE UNCHANGED vars
    <3> USE <2>2 DEF vars, swVars, uartVars
    <3>1. UNCHANGED <<Running, On, Fresh, Writing, Enabling, Starting>>
      BY DEF Running, On, Fresh, Writing, Enabling, Starting
    <3>2. OnInv' BY <3>1 DEF OnInv, Loaded
    <3>3. OffInv' BY <3>1 DEF OffInv, OffCpu, Loaded
    <3>4. ReaderInv' BY <3>1 DEF ReaderInv
    <3>5. \A t \in Thread : Has(t)' <=> Has(t) BY <3>1 DEF Has, Reading
    <3>6. (\E t \in Thread : Has(t))' <=> \E t \in Thread : Has(t) BY <3>5
    <3>7. InTimeInv' BY <3>1, <3>5, <3>6 DEF InTimeInv, One, Flagged, Reading, ReceivedInOrder
    <3> QED BY <3>2, <3>3, <3>4, <3>7
  <2> QED BY <2>1, <2>2
<1>3. IInv => ReceivedInOrder BY DEF InTimeInv
<1> QED BY <1>1, <1>2, <1>3, PTL DEF Spec

------------------------------------------------------------------------------
(***************************************************************************)
(* A program that sends one transmission at a time: none from the callback *)
(* of the receiver, which may run in the middle of one of main's, and no   *)
(* Transmit_IT from the transmitter's own, whose pointer still moves after *)
(* it.  Sizes are 16 bits wide, and the transmitter stays enabled.         *)
(***************************************************************************)
SendsInTurn ==
  /\ \A c \in AllCalls : c.fn # "TX_Disable" /\ (c.fn = "Transmit_IT" => c.size < W16)
  /\ \A c \in RxCallback : c.fn \notin {"Transmit", "Transmit_IT"}
  /\ \A c \in TxCallback : c.fn # "Transmit_IT"

TxOn == "TX_EN" \in cr

\* Main before it has written TX_EN.
Early ==
  \/ pc["main"] \in {"init", "enable"}
  \/ pc["main"] \in {"modify", "write"} /\ rmw["main"].to = "enableRx"

\* No write of CONTROL takes TX_EN back; until it is written nothing interrupts.
TxOnInv ==
  /\ TxOn \/ Early \/ (pc["main"] = "enableRx" /\ Writing)
  /\ Writing => "TX_EN" \in bus.dat
  /\ \A t \in Thread : /\ "TX_EN" \notin rmw[t].clear
                       /\ Loaded(t) => "TX_EN" \in reg[t].CONTROL \/ (t = "main" /\ Early)
  /\ pc[Running] = "write" => bus = Idle \/ (bus.adr = "CONTROL" /\ ~bus.we)
  /\ Early \/ ~TxOn => pc["isr"] = "none" /\ cr \cap Interrupts = {}
  /\ Early /\ pc["main"] \in {"modify", "write"} => rmw["main"].set = {"TX_EN"}
  /\ Early /\ Loaded("main") => reg["main"].CONTROL \cap Interrupts = {}
  /\ (Early \/ ~TxOn) /\ Writing => bus.dat \cap Interrupts = {}

------------------------------------------------------------------------------
(***************************************************************************)
(* The transmitter: at most one byte is between the program and the wire,  *)
(* and while it is written the access and the transmitter go in step.      *)
(***************************************************************************)
Posts == bus.adr = "TX_DATA" /\ bus.we
Empty == tx_busy = 0 /\ tx_empty_n = 0 /\ ~Posts
Flight == IF Posts THEN bus.dat ELSE tx_sr
Sent == IF Flight = Nothing THEN out ELSE Append(out, Flight)

Pair == (Nat \ {0}) \X (Nat \ {0})

WireInv ==
  /\ tx_busy_d \in Bit /\ out \in Seq(Pair) /\ tx_sr \in Pair \cup {Nothing}
  /\ Posts => /\ bus.dat \in Pair
              /\ bus.clock = 1 => tx_busy = 0 /\ tx_empty_n = 0
              /\ bus.clock = 2 => tx_busy = 0 /\ tx_empty_n = 1 /\ r_tx_data = bus.dat
              /\ bus.clock = 3 => tx_busy = 1 /\ tx_busy_d = 0 /\ tx_empty_n = 1 /\ tx_sr = bus.dat
  /\ ~Posts => tx_empty_n = 0
  /\ tx_busy = 0 => tx_sr = Nothing
  /\ Posts \/ tx_sr # Nothing => TxOn

------------------------------------------------------------------------------
(***************************************************************************)
(* Who sends, and how far it is: the bytes sent end with the one before    *)
(* byte j of transmission k.                                               *)
(***************************************************************************)
Reached(k, j) ==
  IF j > 1 THEN Sent # <<>> /\ Sent[Len(Sent)] = <<k, j - 1>>
  ELSE IF k = 1 THEN Sent = <<>>
  ELSE Sent # <<>> /\ Sent[Len(Sent)] = <<k - 1, txs[k - 1]>>

Last == Len(txs)
Complete == Reached(Last + 1, 1)

PollLabel == {"txPoll", "txCheck"}
WaitLabel == {"txWait", "txWaited"}
FillLabel == {"txFill", "txState"}
SendLabel == PollLabel \cup WaitLabel \cup FillLabel

\* t has found the transmitter empty.
Polled(t) ==
  /\ pc[t] \in {"txCheck", "txWaited"} /\ ~(t = Running /\ bus.clock \in {1, 2})
  /\ reg[t].TX_BUSY = 0

\* A transmission that t has begun, up to where the handler takes it over.
Transmits(t) ==
  /\ Last > 0 /\ arg[t].tx = Last
  /\ pc[t] \in PollLabel =>
       arg[t].left > 0 /\ arg[t].next > 0 /\ arg[t].next + arg[t].left = txs[Last] + 1 /\ Reached(Last, arg[t].next)
  /\ pc[t] \in WaitLabel => Complete
  /\ pc[t] \in FillLabel => arg[t].left = txs[Last] /\ txs[Last] < W16 /\ Reached(Last, 1)
  /\ pc[t] = "txState" => Tx = [tx |-> Last, next |-> 1, count |-> txs[Last]]
  /\ Polled(t) => Empty

\* The handler sends.
HandlerSends ==
  /\ Last > 0 /\ Tx.tx = Last /\ Tx.next > 0 /\ Tx.count < W16
  /\ Tx.next + Tx.count = txs[Last] + 1 /\ Reached(Last, Tx.next)

\* The handler ends a transmission; it has ended one.
Ending == pc["isr"] = "txReady" \/ (pc["isr"] \in {"modify", "write"} /\ rmw["isr"].to = "txReady")
Ended == pc["isr"] \in {"txCallback", "txDone"} \/ (pc["isr"] \in CallLabel /\ ret = "txDone" /\ ~Ending)

SenderInv ==
  /\ gState \in {"RESET", "READY", "BUSY_TX"}
  /\ \A t \in Thread : pc[t] \in SendLabel => gState = "READY" /\ Transmits(t)
  /\ pc["isr"] \in SendLabel => ret = "txDone" /\ pc["isr"] \notin FillLabel
  /\ gState = "BUSY_TX" => HandlerSends
  /\ gState # "BUSY_TX" /\ (\A t \in Thread : pc[t] \notin SendLabel) => Complete
  /\ Ending => gState = "BUSY_TX" /\ Tx.count = 0 /\ Empty
  /\ Ended => gState = "READY" /\ pc["main"] \notin SendLabel
  /\ pc["isr"] = "txIrq" => Empty
  /\ pc["main"] = "init" => gState = "RESET"
  /\ Posts => pc[Running] \in {"txPoll", "txWait", "return"}
  /\ pc[Running] \in {"txCheck", "txWaited"} /\ bus.clock # 0 => bus.adr = "TX_DATA"

TxValues == [tx : Nat, next : Nat, count : Nat]
Args == [Thread -> [tx : Nat, next : Nat, left : Int]]

SentInv ==
  /\ txs \in Seq(Nat \ {0}) /\ Tx \in TxValues /\ arg \in Args
  /\ Sent # <<>> => Sent[1] = <<1, 1>>
  /\ \A i \in DOMAIN Sent : Sent[i][1] \in DOMAIN txs
  /\ \A i \in 2 .. Len(Sent) : Follows(Sent[i - 1], Sent[i])
  /\ \A k \in done : k \in DOMAIN txs /\ \E i \in DOMAIN out : out[i] = <<k, txs[k]>>

------------------------------------------------------------------------------
\* What a clock does to CONTROL, for every program.
LEMMA ControlLands ==
  ASSUME NEW ends \in BOOLEAN, Clock(ends)
  PROVE  /\ Writing => cr' = bus.dat
         /\ ~Writing => cr' \ Reset = cr \ Reset
BY DEF Clock, DeviceStep, UartStep, Control, Writing, Reset

\* Main enables the transmitter once.
LEMMA EarlyOnce ==
  ASSUME FlowInv, ~Early, CpuMoves
  PROVE  ~Early'
<1> USE DEF FlowInv, At, To, Thread, swVars, Early
<1>1. CASE TakeInterrupt BY <1>1 DEF TakeInterrupt
<1>2. CASE RX_Not_Empty_IRQHandler
  BY <1>2 DEF RX_Not_Empty_IRQHandler, RxGot, RxDone, Step, Change
<1>3. CASE TX_Not_Full_IRQHandler
  BY <1>3 DEF TX_Not_Full_IRQHandler, TxSend, TxEnd, TxReady, TxDone, Step, Change
<1>4. ASSUME NEW t \in Thread, NEW c \in AllCalls, StartCall(t, c) PROVE ~Early'
  <2>1. Entry(c) \in {"modify", "txPoll", "txFill", "rxPoll", "rxFill"} BY EntryLabels, CallsAre
  <2>2. Back("main") = "ready" BY DEF Back
  <2>3. CASE ~Accepts(c) /\ To(t, Back(t), Idle) /\ UNCHANGED <<arg, rmw, txs>> BY <1>4, <2>2, <2>3
  <2>4. CASE Accepts(c)
    <3>1. CASE Entry(c) = "modify"
      <4>1. pc' = [pc EXCEPT ![t] = "modify"] /\ Change(t, Bits(c).set, Bits(c).clear, Back(t))
        BY <1>4, <2>4, <3>1 DEF StartCall
      <4> QED BY <1>4, <2>2, <4>1 DEF Change
    <3>2. CASE Entry(c) # "modify"
      <4>1. pc' = [pc EXCEPT ![t] = Entry(c)] /\ rmw' = rmw BY <1>4, <2>3, <2>4, <3>2 DEF StartCall
      <4> QED BY <2>1, <3>2, <4>1
    <3> QED BY <3>1, <3>2
  <2> QED BY <1>4, <2>3, <2>4 DEF StartCall
<1>5. CASE Callback("rxCallback", RxCallback) BY <1>4, <1>5 DEF Callback, Step, AllCalls
<1>6. CASE Callback("txCallback", TxCallback) BY <1>4, <1>6 DEF Callback, Step, AllCalls
<1>7. ASSUME NEW t \in Thread, CallStep(t) PROVE ~Early'
  <2>1. CASE ModifyStep(t) BY <2>1 DEF ModifyStep, Step
  <2>2. CASE TransmitStep(t) BY <2>2 DEF TransmitStep, SendByte, TransmitDone, Step, Back
  <2>3. CASE ReceiveStep(t) BY <2>3 DEF ReceiveStep, TakeByte, Step, Back
  <2>4. CASE TxFill(t) \/ TxState(t) \/ RxFill(t) BY <2>4 DEF TxFill, TxState, RxFill, Change, Back
  <2> QED BY <1>7, <2>1, <2>2, <2>3, <2>4 DEF CallStep
<1>8. CASE UART_Init \/ EnablePorts BY <1>8 DEF UART_Init, EnablePorts, Change
<1>9. CASE MainCalls BY <1>4, <1>9 DEF MainCalls, AllCalls
<1> QED BY <1>1, <1>2, <1>3, <1>5, <1>6, <1>7, <1>8, <1>9 DEF CpuMoves, HandlerStep

\* Until it has, nothing interrupts it, and what it writes of CONTROL has TX_EN.
LEMMA EarlyMoves ==
  ASSUME BaseInv, TxOnInv, Early, CpuMoves
  PROVE  /\ pc'["isr"] = "none"
         /\ Early' \/ (pc'["main"] = "enableRx" /\ Writing')
         /\ Writing' => "TX_EN" \in bus'.dat /\ bus'.dat \cap Interrupts = {}
         /\ Early' /\ pc'["main"] \in {"modify", "write"} => rmw'["main"].set = {"TX_EN"}
<1> USE DEF Thread, At, To
<1>1. bus = Idle /\ bus.clock = 0 BY CpuBus, Fields DEF BaseInv
<1>2. /\ pc["isr"] = "none" /\ cr \cap Interrupts = {}
      /\ pc["main"] \in {"modify", "write"} => rmw["main"].set = {"TX_EN"}
      /\ Loaded("main") => reg["main"].CONTROL \cap Interrupts = {}
      /\ "TX_EN" \notin rmw["main"].clear
  BY DEF TxOnInv
<1>3. ~Interrupted /\ Running = "main"
  BY <1>2 DEF Interrupted, o_uart_rx_int, o_uart_tx_int, Running, Interrupts
<1>4. DOMAIN pc = Thread /\ DOMAIN rmw = Thread BY DEF BaseInv, FlowInv
<1>5. pc["main"] \in {"init", "enable", "modify", "write"} BY DEF Early
<1>6. CASE UART_Init
  <2>1. pc'["main"] = "enable" /\ pc'["isr"] = "none" /\ bus' = WriteOf("SETUP", Nothing)
    BY <1>2, <1>4, <1>6 DEF UART_Init
  <2> QED BY <2>1, Fields DEF Early, Writing
<1>7. CASE EnablePorts
  <2>1. pc'["main"] = "modify" /\ pc'["isr"] = "none" /\ bus' = Idle
    BY <1>2, <1>4, <1>7 DEF EnablePorts
  <2>2. rmw'["main"].set = {"TX_EN"} /\ rmw'["main"].to = "enableRx"
    BY <1>4, <1>5, <1>7 DEF EnablePorts, Change
  <2> QED BY <2>1, <2>2, Fields DEF Early, Writing
<1>8. CASE Step("main", "modify", "write", ReadOf("CONTROL"))
  <2>1. /\ pc["main"] = "modify" /\ pc'["main"] = "write" /\ pc'["isr"] = "none"
        /\ bus' = ReadOf("CONTROL") /\ rmw' = rmw
    BY <1>2, <1>4, <1>8 DEF Step, swVars
  <2> QED BY <1>2, <2>1, Fields DEF Early, Writing
<1>9. CASE Step("main", "write", rmw["main"].to, WriteOf("CONTROL", Modified("main")))
  <2>1. /\ pc["main"] = "write" /\ pc'["main"] = rmw["main"].to /\ pc'["isr"] = "none"
        /\ bus' = WriteOf("CONTROL", Modified("main"))
    BY <1>2, <1>4, <1>9 DEF Step, swVars
  <2>2. rmw["main"].to = "enableRx" BY <2>1 DEF Early
  <2>3. rmw["main"].set = {"TX_EN"} /\ reg["main"].CONTROL \cap Interrupts = {}
    BY <1>1, <1>2, <2>1 DEF Loaded
  <2>4. "TX_EN" \in Modified("main") /\ Modified("main") \cap Interrupts = {}
    BY <1>2, <2>3 DEF Modified, Interrupts
  <2> QED BY <2>1, <2>2, <2>4, Fields DEF Early, Writing
<1>10. ~MainCalls BY <1>5 DEF MainCalls
<1>11. CallStep("main") => ModifyStep("main")
  BY <1>5 DEF CallStep, TransmitStep, SendByte, TransmitDone, ReceiveStep, TakeByte, TxFill, TxState, RxFill, Step
<1>12. ~HandlerStep BY <1>2 DEF HandlerStep, RX_Not_Empty_IRQHandler, RxGot, RxDone, TX_Not_Full_IRQHandler,
  TxSend, TxEnd, TxReady, TxDone, Callback, CallStep, ModifyStep, TransmitStep, SendByte, TransmitDone,
  ReceiveStep, TakeByte, TxFill, TxState, RxFill, Step
<1>13. ~TakeInterrupt BY <1>3 DEF TakeInterrupt
<1> QED BY <1>3, <1>6, <1>7, <1>8, <1>9, <1>10, <1>11, <1>12, <1>13 DEF CpuMoves, ModifyStep

\* No change of CONTROL clears TX_EN.
LEMMA TxOnChanges ==
  ASSUME SendsInTurn, FlowInv, CpuMoves, \A t \in Thread : "TX_EN" \notin rmw[t].clear
  PROVE  \A t \in Thread : "TX_EN" \notin rmw'[t].clear
<1> SUFFICES ASSUME NEW t \in Thread PROVE "TX_EN" \notin rmw'[t].clear OBVIOUS
<1>1. ASSUME NEW c \in AllCalls, Entry(c) = "modify" PROVE "TX_EN" \notin Bits(c).clear
  BY <1>1, CallsAre DEF Entry, Bits, SendsInTurn, Function
<1>2. ChangesBegin BY ChangesAre
<1> QED BY <1>1, <1>2 DEF ChangesBegin, Begins, Interrupts

\* The transmitter stays enabled.
LEMMA TxOnStep ==
  ASSUME SendsInTurn, BaseInv, TxOnInv, NEW ends \in BOOLEAN, Clock(ends)
  PROVE  TxOnInv'
<1> USE DEF BaseInv
<1>0. /\ Writing => cr' = bus.dat
      /\ ~Writing => cr' \ Reset = cr \ Reset
      /\ "TX_EN" \notin Reset /\ Interrupts \cap Reset = {}
  BY ControlLands DEF Reset, Interrupts
<1>1. TxOn => TxOn' BY <1>0 DEF TxOnInv, TxOn
<1>2. CASE CpuMoves
  <2>1. bus = Idle /\ reg' = reg /\ bus.clock = 0 /\ bus.adr = "none" BY <1>2, CpuBus, Fields
  <2>2. cr' \ Reset = cr \ Reset /\ ~Writing BY <1>0, <2>1 DEF Writing
  <2>3. TxOn' <=> TxOn BY <1>0, <2>2 DEF TxOn
  <2>4. ControlKept BY <1>2, ControlStarts
  <2>5. \A t \in Thread : "TX_EN" \notin rmw'[t].clear BY <1>2, TxOnChanges DEF TxOnInv
  <2>6. ASSUME NEW t \in Thread, Loaded(t)' PROVE Loaded(t)
    BY <2>1, <2>4, <2>6, Fields DEF Loaded, ControlKept
  <2>7. pc'[Running'] = "write" => bus' = Idle \/ (bus'.adr = "CONTROL" /\ ~bus'.we)
    BY <2>4, Fields DEF ControlKept
  <2>8. CASE Early
    <3>1. /\ pc'["isr"] = "none"
          /\ Early' \/ (pc'["main"] = "enableRx" /\ Writing')
          /\ Writing' => "TX_EN" \in bus'.dat /\ bus'.dat \cap Interrupts = {}
          /\ Early' /\ pc'["main"] \in {"modify", "write"} => rmw'["main"].set = {"TX_EN"}
      BY <1>2, <2>8, EarlyMoves
    <3>2. cr' \cap Interrupts = {}
      <4>1. cr \cap Interrupts = {} BY <2>8 DEF TxOnInv
      <4> QED BY <1>0, <2>2, <4>1
    <3>3. \A t \in Thread : Loaded(t)' => Early' /\ (t = "main" \/ "TX_EN" \in reg'[t].CONTROL)
      <4> SUFFICES ASSUME NEW t \in Thread, Loaded(t)'
                   PROVE  Early' /\ (t = "main" \/ "TX_EN" \in reg'[t].CONTROL)
        OBVIOUS
      <4>1. t = "main" BY <3>1 DEF Loaded, Thread
      <4>2. pc'["main"] = "write" BY <4>1 DEF Loaded
      <4> QED BY <3>1, <4>1, <4>2
    <3>4. Loaded("main")' => reg'["main"].CONTROL \cap Interrupts = {}
      BY <2>1, <2>6, <2>8 DEF TxOnInv, Thread
    <3> QED BY <2>5, <2>7, <3>1, <3>2, <3>3, <3>4 DEF TxOnInv
  <2>9. CASE ~Early
    <3>1. TxOn' /\ ~Early' BY <1>2, <2>2, <2>3, <2>9, EarlyOnce DEF TxOnInv
    <3>2. \A t \in Thread : Loaded(t) => "TX_EN" \in reg[t].CONTROL /\ "TX_EN" \notin rmw[t].clear
      BY <2>9 DEF TxOnInv
    <3>3. Writing' => "TX_EN" \in bus'.dat
      <4> SUFFICES ASSUME Writing' PROVE "TX_EN" \in bus'.dat OBVIOUS
      <4>1. pc[Running] = "write" /\ bus'.dat = Modified(Running) BY <2>4 DEF Writing, ControlKept
      <4>2. Running \in Thread BY DEF Running, Thread
      <4>3. Loaded(Running) BY <2>1, <4>1 DEF Loaded
      <4> QED BY <3>2, <4>1, <4>2, <4>3 DEF Modified
    <3>4. \A t \in Thread : Loaded(t)' => "TX_EN" \in reg'[t].CONTROL BY <2>1, <2>6, <3>2
    <3> QED BY <2>5, <2>7, <3>1, <3>3, <3>4 DEF TxOnInv
  <2> QED BY <2>8, <2>9
<1>3. CASE CpuWaits
  <2>1. pc' = pc /\ rmw' = rmw /\ Running' = Running /\ (Early' <=> Early)
    BY <1>3 DEF CpuWaits, Running, Early
  <2>2. /\ bus' = Idle \/ (bus'.adr = bus.adr /\ bus'.we = bus.we)
        /\ bus = Idle => bus' = Idle
        /\ bus'.clock # 1
        /\ bus.clock \in {1, 2} => bus'.clock = bus.clock + 1 /\ bus'.adr = bus.adr /\ bus'.we = bus.we
    BY <1>3, Fields DEF CpuWaits, BusInv
  <2>3. ~Writing' BY <2>2 DEF Writing
  <2>4. TxOn' \/ Early' BY <1>0, <1>1, <2>1 DEF TxOnInv, TxOn
  <2>5. Early \/ ~TxOn' => pc'["isr"] = "none" /\ cr' \cap Interrupts = {}
    <3> SUFFICES ASSUME Early \/ ~TxOn' PROVE pc'["isr"] = "none" /\ cr' \cap Interrupts = {} OBVIOUS
    <3>1. Early \/ ~TxOn BY <1>1
    <3>2. /\ pc["isr"] = "none" /\ cr \cap Interrupts = {}
          /\ Writing => bus.dat \cap Interrupts = {}
      BY <3>1 DEF TxOnInv
    <3>3. ~Writing => cr' \cap Interrupts = {} BY <1>0, <3>2
    <3> QED BY <1>0, <2>1, <3>2, <3>3
  <2>6. ASSUME NEW t \in Thread, Loaded(t)'
        PROVE  \/ reg'[t].CONTROL = cr /\ t = Running /\ ~Writing
               \/ reg'[t] = reg[t] /\ Loaded(t)
    <3>1. pc[t] = "write" BY <2>1, <2>6 DEF Loaded
    <3>2. CASE t = Running /\ bus.adr = "CONTROL" /\ bus.clock \in {1, 2}
      <4>1. ~bus.we BY <3>1, <3>2, Fields DEF TxOnInv
      <4>2. bus.clock = 2 BY <2>1, <2>2, <2>6, <3>2 DEF Loaded
      <4>3. reg'[t].CONTROL = cr BY <1>3, <3>2, <4>1, <4>2 DEF CpuWaits, ReadData, BusInv
      <4> QED BY <3>2, <4>1, <4>3 DEF Writing
    <3>3. CASE ~(t = Running /\ bus.adr = "CONTROL" /\ bus.clock \in {1, 2})
      <4>1. Loaded(t) BY <3>1, <3>3 DEF Loaded
      <4>2. CASE t = Running
        <5>1. bus.clock # 2 BY <3>1, <3>3, <4>2, Fields DEF TxOnInv
        <5> QED BY <1>3, <4>1, <5>1 DEF CpuWaits
      <4>3. CASE t # Running BY <1>3, <4>1, <4>3 DEF CpuWaits, BusInv
      <4> QED BY <4>2, <4>3
    <3> QED BY <3>2, <3>3
  <2>7. \A t \in Thread : Loaded(t)' => "TX_EN" \in reg'[t].CONTROL \/ (t = "main" /\ Early')
    <3> SUFFICES ASSUME NEW t \in Thread, Loaded(t)', "TX_EN" \notin reg'[t].CONTROL
                 PROVE  t = "main" /\ Early
      BY <2>1
    <3>1. CASE reg'[t].CONTROL = cr /\ t = Running /\ ~Writing
      <4>1. ~TxOn BY <3>1 DEF TxOn
      <4>2. Early /\ pc["isr"] = "none" BY <3>1, <4>1 DEF TxOnInv
      <4> QED BY <3>1, <4>2 DEF Running
    <3>2. CASE reg'[t] = reg[t] /\ Loaded(t) BY <3>2 DEF TxOnInv
    <3> QED BY <2>6, <3>1, <3>2
  <2>8. Early' /\ Loaded("main")' => reg'["main"].CONTROL \cap Interrupts = {}
    BY <2>1, <2>6 DEF TxOnInv, Thread
  <2>9. pc'[Running'] = "write" => bus' = Idle \/ (bus'.adr = "CONTROL" /\ ~bus'.we)
    BY <2>1, <2>2 DEF TxOnInv
  <2>10. /\ \A t \in Thread : "TX_EN" \notin rmw'[t].clear
         /\ Early' /\ pc'["main"] \in {"modify", "write"} => rmw'["main"].set = {"TX_EN"}
    BY <2>1 DEF TxOnInv
  <2> QED BY <2>1, <2>3, <2>4, <2>5, <2>7, <2>8, <2>9, <2>10 DEF TxOnInv
<1> QED BY <1>2, <1>3 DEF Clock

------------------------------------------------------------------------------
\* Nothing is no byte.
LEMMA NothingIs == Nothing \notin Pair
BY DEF Nothing, Pair

\* The transmitter takes what is written once, and sends it whole.
LEMMA WireRests ==
  ASSUME BaseInv, WireInv, TxOn => TxOn', NEW ends \in BOOLEAN, Clock(ends), CpuWaits \/ ~Posts'
  PROVE  /\ WireInv' /\ Sent' = Sent /\ (Empty => Empty')
         /\ \A i \in DOMAIN out : i \in DOMAIN out' /\ out'[i] = out[i]
<1> USE DEF BaseInv
<1>1. /\ TxRegister(bus.adr, bus.we /\ bus.clock = 1, bus.dat) /\ Transmitter(ends)
  BY DEF Clock, DeviceStep, UartStep
<1>2. /\ tx_empty_n \in Bit /\ tx_busy \in Bit /\ tx_busy_d \in Bit /\ tx_busy_d' = tx_busy
      /\ out \in Seq(Pair) /\ tx_sr \in Pair \cup {Nothing}
      /\ (tx_busy = 0 => tx_sr = Nothing) /\ (~Posts => tx_empty_n = 0)
      /\ Posts \/ tx_sr # Nothing => TxOn
  BY <1>1 DEF WireInv, DeviceInv, Transmitter
<1>3. bus' = Idle \/ (CpuWaits /\ bus.clock \in {1, 2} /\ bus' = [bus EXCEPT !.clock = @ + 1]) \/ (CpuMoves /\ ~Posts')
  BY DEF Clock, CpuWaits
<1>4. Sending = tx_sr BY <1>2 DEF Sending, TxOn
<1>5. CASE ~Posts
  <2>1. ~Posts' BY <1>3, <1>5, Fields DEF Posts, BusInv, CpuWaits
  <2>2. tx_empty_n' = 0 BY <1>1, <1>2, <1>5 DEF TxRegister, Posts
  <2>3. CASE tx_busy = 0
    <3>1. tx_busy' = 0 /\ tx_sr' = Nothing /\ out' = out BY <1>1, <1>2, <1>5, <2>3 DEF Transmitter
    <3>2. Sent' = Sent BY <1>2, <1>5, <2>1, <2>3, <3>1 DEF Sent, Flight
    <3> QED BY <1>2, <2>1, <2>2, <3>1, <3>2 DEF WireInv, Empty
  <2>4. CASE tx_busy # 0 /\ ends
    <3>1. tx_busy' = 0 /\ tx_sr' = Nothing /\ out' = IF tx_sr = Nothing THEN out ELSE Append(out, tx_sr)
      BY <1>1, <1>4, <2>4 DEF Transmitter
    <3>2. Sent' = Sent BY <1>2, <1>5, <2>1, <3>1 DEF Sent, Flight
    <3>3. out' \in Seq(Pair) /\ \A i \in DOMAIN out : i \in DOMAIN out' /\ out'[i] = out[i]
      BY <1>2, <3>1
    <3> QED BY <1>2, <2>1, <2>2, <2>4, <3>1, <3>2, <3>3 DEF WireInv, Empty
  <2>5. CASE tx_busy # 0 /\ ~ends
    <3>1. tx_busy' = tx_busy /\ tx_sr' = tx_sr /\ out' = out BY <1>1, <1>4, <2>5 DEF Transmitter
    <3>2. Sent' = Sent BY <1>5, <2>1, <3>1 DEF Sent, Flight
    <3> QED BY <1>2, <2>1, <2>2, <2>5, <3>1, <3>2 DEF WireInv, Empty
  <2> QED BY <2>3, <2>4, <2>5
<1>6. CASE Posts
  <2>1. /\ bus.adr = "TX_DATA" /\ bus.we /\ bus.clock \in 1 .. 3 /\ bus.dat \in Pair /\ TxOn
        /\ bus.clock = 1 => tx_busy = 0 /\ tx_empty_n = 0
        /\ bus.clock = 2 => tx_busy = 0 /\ tx_empty_n = 1 /\ r_tx_data = bus.dat
        /\ bus.clock = 3 => tx_busy = 1 /\ tx_busy_d = 0 /\ tx_empty_n = 1 /\ tx_sr = bus.dat
    BY <1>2, <1>6, Fields DEF Posts, BusInv, WireInv
  <2>2. CpuWaits /\ ~Empty
    <3>1. ~CpuMoves BY <2>1, CpuBus, Fields
    <3> QED BY <1>6, <3>1 DEF Clock, Empty
  <2>3. bus.dat # Nothing BY <2>1, NothingIs
  <2>4. CASE bus.clock = 1
    <3>1. /\ bus'.adr = "TX_DATA" /\ bus'.we /\ bus'.dat = bus.dat /\ bus'.clock = 2
      BY <2>1, <2>2, <2>4 DEF CpuWaits, BusInv
    <3>2. r_tx_data' = bus.dat /\ tx_empty_n' = 1 BY <1>1, <2>1, <2>4 DEF TxRegister
    <3>3. tx_busy' = 0 /\ tx_sr' = Nothing /\ out' = out BY <1>1, <2>1, <2>4 DEF Transmitter
    <3>4. Posts' /\ Sent' = Sent BY <1>6, <3>1, <3>3 DEF Posts, Sent, Flight
    <3> QED BY <1>2, <2>1, <2>2, <3>1, <3>2, <3>3, <3>4 DEF WireInv
  <2>5. CASE bus.clock = 2
    <3>1. /\ bus'.adr = "TX_DATA" /\ bus'.we /\ bus'.dat = bus.dat /\ bus'.clock = 3
      BY <2>1, <2>2, <2>5 DEF CpuWaits, BusInv
    <3>2. tx_empty_n' = 1 BY <1>1, <2>1, <2>5 DEF TxRegister
    <3>3. tx_busy' = 1 /\ tx_sr' = bus.dat /\ out' = out BY <1>1, <2>1, <2>5 DEF Transmitter
    <3>4. Posts' /\ Sent' = Sent BY <1>6, <3>1, <3>3 DEF Posts, Sent, Flight
    <3> QED BY <1>2, <2>1, <2>2, <2>5, <3>1, <3>2, <3>3, <3>4 DEF WireInv
  <2>6. CASE bus.clock = 3
    <3>1. bus' = Idle /\ ~Posts' BY <2>2, <2>6, Fields DEF CpuWaits, Posts
    <3>2. tx_empty_n' = 0 BY <1>1, <2>1, <2>6 DEF TxRegister
    <3>3. tx_busy' = 1 /\ tx_sr' = bus.dat /\ out' = out
      BY <1>1, <1>4, <2>1, <2>6 DEF Transmitter
    <3>4. Sent' = Sent BY <1>6, <2>3, <3>1, <3>3 DEF Sent, Flight
    <3> QED BY <1>2, <2>1, <2>2, <2>6, <3>1, <3>2, <3>3, <3>4 DEF WireInv
  <2> QED BY <2>1, <2>4, <2>5, <2>6
<1> QED BY <1>5, <1>6

\* A byte that is written to the empty transmitter is sent next.
LEMMA WirePosts ==
  ASSUME WireInv, Empty, TxOn', NEW ends \in BOOLEAN, DeviceStep(ends),
         NEW x \in Pair, bus' = WriteOf("TX_DATA", x)
  PROVE  WireInv' /\ Sent = out /\ out' = out /\ Sent' = Append(out, x)
<1>1. /\ TxRegister(bus.adr, bus.we /\ bus.clock = 1, bus.dat) /\ Transmitter(ends) BY DEF DeviceStep, UartStep
<1>2. tx_busy = 0 /\ tx_empty_n = 0 /\ ~Posts /\ tx_sr = Nothing /\ out \in Seq(Pair)
  BY DEF WireInv, Empty
<1>3. tx_busy' = 0 /\ tx_sr' = Nothing /\ out' = out /\ tx_busy_d' = 0 BY <1>1, <1>2 DEF Transmitter
<1>4. tx_empty_n' = 0 BY <1>1, <1>2 DEF TxRegister, Posts
<1>5. Posts' /\ bus'.dat = x /\ bus'.clock = 1 BY Fields DEF Posts
<1>6. x # Nothing BY NothingIs
<1>7. Sent = out /\ Sent' = Append(out, x) BY <1>2, <1>3, <1>5, <1>6 DEF Sent, Flight
<1> QED BY <1>2, <1>3, <1>4, <1>5, <1>7 DEF WireInv, Bit

------------------------------------------------------------------------------
\* An instruction that has no part in a transmission.
Quietly ==
  /\ UNCHANGED <<gState, Tx, txs, done>> /\ arg' \in Args
  /\ \A t \in Thread : pc[t] \in SendLabel \/ pc'[t] \in SendLabel => pc'[t] = pc[t] /\ arg'[t] = arg[t]
  /\ pc'["isr"] \in SendLabel => ret' = ret
  /\ (Ending' => Ending) /\ (Ended' => Ended)
  /\ pc'["isr"] = "txIrq" => pc["isr"] = "txIrq" \/ o_uart_tx_int
  /\ pc'["main"] = "init" => pc["main"] = "init"
  /\ bus'.adr # "TX_DATA" /\ (pc'[Running'] \in SendLabel => bus' = Idle)

\* A call that begins a transmission.
StartSend(t, c) ==
  /\ c \in AllCalls /\ c.fn \in {"Transmit", "Transmit_IT"} /\ Accepts(c) /\ StartCall(t, c)
  /\ \/ t = "main" /\ At("main", "ready")
     \/ t = "isr" /\ At("isr", "txCallback") /\ c.fn = "Transmit"

\* The instructions that have.
Sends ==
  \/ UART_Init \/ TxSend \/ TxEnd \/ TxReady \/ TxDone
  \/ \E t \in Thread : TransmitStep(t) \/ TxFill(t) \/ TxState(t) \/ \E c \in AllCalls : StartSend(t, c)

\* A call that is none of Transmit and Transmit_IT, or is refused, is quiet.
LEMMA StartQuiet ==
  ASSUME FlowInv, arg \in Args, txs \in Seq(Nat \ {0}), NEW t \in Thread, NEW c \in AllCalls, StartCall(t, c),
         c.fn \in {"Transmit", "Transmit_IT"} => ~Accepts(c),
         At(t, IF t = "main" THEN "ready" ELSE "rxCallback") \/ (t = "isr" /\ At(t, "txCallback"))
  PROVE  Quietly
<1> USE DEF FlowInv, At, To, Thread, SendLabel, PollLabel, WaitLabel, FillLabel, CallLabel
<1>1. /\ c \in [fn : Function, size : Nat]
      /\ Entry(c) \in {"modify", "txPoll", "txFill", "rxPoll", "rxFill"}
      /\ Accepts(c) => Entry(c) \in {"modify", "rxPoll", "rxFill"}
  BY EntryLabels, CallsAre
<1>2. bus' = Idle /\ bus'.adr = "none" /\ UNCHANGED <<gState, Tx, txs, done, ret>>
  BY <1>1, Fields DEF StartCall
<1>3. Back("main") = "ready" /\ Back("isr") = ret BY DEF Back
<1>4. CASE ~Accepts(c) /\ To(t, Back(t), Idle) /\ UNCHANGED <<arg, rmw, txs>>
  BY <1>2, <1>3, <1>4 DEF Quietly, Ending, Ended, RxLabel, TxLabel, IsrLabel, MainLabel
<1>5. CASE Accepts(c)
  <2>1. pc' = [pc EXCEPT ![t] = Entry(c)] /\ Entry(c) \in {"modify", "rxPoll", "rxFill"} BY <1>1, <1>5, <1>3 DEF StartCall
  <2>2. arg' = arg \/ arg' = [arg EXCEPT ![t] = [tx |-> Len(txs), next |-> 1, left |-> c.size]]
    BY <1>2 DEF StartCall
  <2>3. arg' \in Args /\ \A u \in Thread \ {t} : arg'[u] = arg[u]
    <3>1. Len(txs) \in Nat /\ c.size \in Nat BY <1>1
    <3>2. [tx |-> Len(txs), next |-> 1, left |-> c.size] \in [tx : Nat, next : Nat, left : Int] BY <3>1
    <3> QED BY <2>2, <3>2 DEF Args
  <2>4. IF Entry(c) = "modify"
        THEN rmw' = [rmw EXCEPT ![t] = [set |-> Bits(c).set, clear |-> Bits(c).clear, to |-> Back(t)]]
        ELSE rmw' = rmw
    BY <1>5, <2>1, <1>1, <1>3 DEF StartCall, Change
  <2>5. (Ending' => Ending) /\ (Ended' => Ended)
    BY <1>2, <1>3, <2>1, <2>4 DEF Ending, Ended
  <2> QED BY <1>2, <2>1, <2>3, <2>5 DEF Quietly
<1> QED BY <1>4, <1>5 DEF StartCall

\* A step of a call that is no transmission is quiet.
LEMMA CallQuiet ==
  ASSUME FlowInv, arg \in Args, NEW t \in Thread, ModifyStep(t) \/ ReceiveStep(t) \/ RxFill(t)
  PROVE  Quietly
<1> USE DEF FlowInv, At, To, Thread, SendLabel, PollLabel, WaitLabel, FillLabel, CallLabel, swVars
<1>1. /\ Idle.adr = "none"
      /\ \A a : ReadOf(a).adr = a
      /\ \A a, d : WriteOf(a, d).adr = a
  BY Fields
<1>2. Back("main") = "ready" /\ Back("isr") = ret BY DEF Back
<1>3. CASE Step(t, "modify", "write", ReadOf("CONTROL"))
  BY <1>1, <1>3 DEF Step, Quietly, Ending, Ended, Running
<1>4. CASE Step(t, "write", rmw[t].to, WriteOf("CONTROL", Modified(t)))
  <2>1. /\ pc[t] = "write" /\ pc' = [pc EXCEPT ![t] = rmw[t].to] /\ bus'.adr = "CONTROL"
        /\ UNCHANGED <<ret, arg, rmw, gState, Tx, txs, done>>
        /\ t = "main" => pc["isr"] = "none"
    BY <1>1, <1>4 DEF Step, Running
  <2>2. CASE t = "main"
    <3>1. rmw["main"].to \in {"enableRx", "ready"} BY <2>1, <2>2
    <3> QED BY <2>1, <2>2, <3>1 DEF Quietly, Ending, Ended, Running
  <2>3. CASE t = "isr"
    <3>1. rmw["isr"].to = ret \/ rmw["isr"].to = IF ret = "rxDone" THEN "rxCallback" ELSE "txReady" BY <2>1, <2>3
    <3>2. ret \in {"rxDone", "txDone"} BY <2>1, <2>3
    <3> QED BY <2>1, <2>3, <3>1, <3>2 DEF Quietly, Ending, Ended, Running
  <2> QED BY <2>2, <2>3
<1>5. CASE ReceiveStep(t)
  <2>1. /\ pc[t] \in {"rxPoll", "rxCheck"} /\ t = Running
        /\ \E label \in {"rxPoll", "rxCheck", Back(t)} : pc' = [pc EXCEPT ![t] = label]
        /\ bus' = Idle \/ (bus' = ReadOf("RX_DATA") /\ pc'[t] = "rxCheck")
        /\ arg' = arg \/ arg' = [arg EXCEPT ![t].left = @ - 1]
        /\ UNCHANGED <<ret, rmw, gState, Tx, txs, done>>
    BY <1>5 DEF ReceiveStep, TakeByte, Step
  <2>2. arg' \in Args /\ \A u \in Thread \ {t} : arg'[u] = arg[u] BY <2>1 DEF Args
  <2>3. (Ending' => Ending) /\ (Ended' => Ended) BY <1>2, <2>1 DEF Ending, Ended
  <2>4. bus'.adr # "TX_DATA" /\ (pc'[Running'] \in SendLabel => bus' = Idle)
    BY <1>1, <1>2, <2>1 DEF Running
  <2>5. \A u \in Thread : pc[u] \in SendLabel \/ pc'[u] \in SendLabel => u # t /\ pc'[u] = pc[u] BY <1>2, <2>1
  <2>6. pc'["isr"] \notin {"txIrq"} \/ pc["isr"] = "txIrq" BY <1>2, <2>1
  <2>7. pc'["main"] = "init" => pc["main"] = "init" BY <1>2, <2>1
  <2> QED BY <2>1, <2>2, <2>3, <2>4, <2>5, <2>6, <2>7 DEF Quietly
<1>6. CASE RxFill(t)
  BY <1>1, <1>2, <1>6 DEF RxFill, Change, Quietly, Ending, Ended, Running
<1> QED BY <1>3, <1>4, <1>5, <1>6 DEF ModifyStep

\* Every instruction is quiet or has a part in a transmission.
LEMMA QuietOrSends ==
  ASSUME SendsInTurn, FlowInv, arg \in Args, txs \in Seq(Nat \ {0}), CpuMoves
  PROVE  Quietly \/ Sends
<1> USE DEF FlowInv, At, To, Thread, swVars
<1>1. /\ Idle.adr = "none"
      /\ \A a : ReadOf(a).adr = a
      /\ \A a, d : WriteOf(a, d).adr = a
  BY Fields
<1>2. CASE TakeInterrupt
  BY <1>1, <1>2 DEF TakeInterrupt, Interrupted, Quietly, Ending, Ended, Running,
     SendLabel, PollLabel, WaitLabel, FillLabel, CallLabel
<1>3. CASE RX_Not_Empty_IRQHandler
  BY <1>1, <1>3 DEF RX_Not_Empty_IRQHandler, RxGot, RxDone, Step, Change, Quietly, Ending, Ended, Running,
                    SendLabel, PollLabel, WaitLabel, FillLabel, CallLabel
<1>4. CASE Step("isr", "txIrq", "none", Idle) \/ Step("isr", "return", "none", Idle)
  BY <1>1, <1>4 DEF Step, Quietly, Ending, Ended, Running,
     SendLabel, PollLabel, WaitLabel, FillLabel, CallLabel
<1>5. CASE TxSend \/ TxEnd \/ TxReady \/ TxDone \/ UART_Init BY <1>5 DEF Sends
<1>6. CASE Step("isr", "rxCallback", ret, Idle) \/ Step("isr", "txCallback", ret, Idle)
  BY <1>1, <1>6 DEF Step, Quietly, Ending, Ended, Running,
     SendLabel, PollLabel, WaitLabel, FillLabel, CallLabel
<1>7. ASSUME NEW c \in RxCallback, At("isr", "rxCallback"), StartCall("isr", c) PROVE Quietly
  BY <1>7, StartQuiet DEF SendsInTurn, AllCalls
<1>8. ASSUME NEW c \in TxCallback, At("isr", "txCallback"), StartCall("isr", c) PROVE Quietly \/ Sends
  <2>1. CASE c.fn \in {"Transmit", "Transmit_IT"} /\ Accepts(c)
    <3>1. StartSend("isr", c) BY <1>8, <2>1 DEF StartSend, SendsInTurn, AllCalls
    <3> QED BY <3>1 DEF Sends, AllCalls
  <2> QED BY <1>8, <2>1, StartQuiet DEF AllCalls
<1>9. ASSUME NEW c \in MainCall, At("main", "ready"), StartCall("main", c) PROVE Quietly \/ Sends
  <2>1. CASE c.fn \in {"Transmit", "Transmit_IT"} /\ Accepts(c)
    <3>1. StartSend("main", c) BY <1>9, <2>1 DEF StartSend, AllCalls
    <3> QED BY <3>1 DEF Sends, AllCalls
  <2> QED BY <1>9, <2>1, StartQuiet DEF AllCalls
<1>10. ASSUME NEW t \in Thread, CallStep(t) PROVE Quietly \/ Sends
  BY <1>10, CallQuiet DEF CallStep, Sends
<1>11. CASE EnablePorts
  BY <1>1, <1>11 DEF EnablePorts, Change, Quietly, Ending, Ended, Running,
     SendLabel, PollLabel, WaitLabel, FillLabel, CallLabel
<1> QED BY <1>2, <1>3, <1>4, <1>5, <1>6, <1>7, <1>8, <1>9, <1>10, <1>11
  DEF CpuMoves, HandlerStep, TX_Not_Full_IRQHandler, Callback, MainCalls

------------------------------------------------------------------------------
\* The bytes sent are bytes.
LEMMA SentIs ==
  ASSUME WireInv
  PROVE  Sent \in Seq(Pair) /\ (Empty => Sent = out)
BY DEF WireInv, Sent, Flight, Empty

\* Nothing more is sent.
LEMMA SentKept ==
  ASSUME SentInv, Sent \in Seq(Pair), Sent' = Sent, Tx' \in TxValues, arg' \in Args,
         txs' = txs \/ \E n \in Nat \ {0} : txs' = Append(txs, n),
         \A i \in DOMAIN out : i \in DOMAIN out' /\ out'[i] = out[i],
         \A k \in done' : k \in done \/ (k \in DOMAIN txs /\ \E i \in DOMAIN out : out[i] = <<k, txs[k]>>)
  PROVE  SentInv'
<1>1. txs' \in Seq(Nat \ {0}) /\ \A k \in DOMAIN txs : k \in DOMAIN txs' /\ txs'[k] = txs[k]
  <2>1. txs \in Seq(Nat \ {0}) BY DEF SentInv
  <2>2. CASE txs' = txs BY <2>1, <2>2
  <2>3. ASSUME NEW n \in Nat \ {0}, txs' = Append(txs, n)
        PROVE  txs' \in Seq(Nat \ {0}) /\ \A k \in DOMAIN txs : k \in DOMAIN txs' /\ txs'[k] = txs[k]
    <3> DEFINE T == Nat \ {0}
    <3>1. txs \in Seq(T) /\ n \in T BY <2>1
    <3> HIDE DEF T
    <3>2. Append(txs, n) \in Seq(T) /\ \A k \in DOMAIN txs : k \in DOMAIN Append(txs, n) /\ Append(txs, n)[k] = txs[k]
      BY <3>1
    <3> QED BY <2>3, <3>2 DEF T
  <2> QED BY <2>2, <2>3
<1>2. \A i \in DOMAIN Sent : Sent'[i][1] \in DOMAIN txs' BY <1>1 DEF SentInv
<1>3. \A i \in 2 .. Len(Sent) : Follows(Sent[i - 1], Sent[i])'
  <2> SUFFICES ASSUME NEW i \in 2 .. Len(Sent) PROVE Follows(Sent[i - 1], Sent[i])' OBVIOUS
  <2>1. i \in DOMAIN Sent /\ i - 1 \in DOMAIN Sent OBVIOUS
  <2>2. Sent[i][1] \in DOMAIN txs /\ Sent[i - 1][1] \in DOMAIN txs /\ Follows(Sent[i - 1], Sent[i])
    BY <2>1 DEF SentInv
  <2> QED BY <1>1, <2>2 DEF Follows
<1>4. \A k \in done' : k \in DOMAIN txs' /\ \E i \in DOMAIN out' : out'[i] = <<k, txs'[k]>>
  <2> SUFFICES ASSUME NEW k \in done'
               PROVE  k \in DOMAIN txs' /\ \E i \in DOMAIN out' : out'[i] = <<k, txs'[k]>>
    OBVIOUS
  <2>1. k \in DOMAIN txs /\ \E i \in DOMAIN out : out[i] = <<k, txs[k]>> BY DEF SentInv
  <2> QED BY <1>1, <2>1
<1> QED BY <1>1, <1>2, <1>3, <1>4 DEF SentInv

\* Byte j of the last transmission is sent.
LEMMA SendsNext ==
  ASSUME SentInv, Sent \in Seq(Pair), UNCHANGED <<txs, done, out>>, Tx' \in TxValues, arg' \in Args,
         Last > 0, NEW j \in 1 .. txs[Last], Reached(Last, j), Sent' = Append(Sent, <<Last, j>>)
  PROVE  SentInv' /\ Reached(Last, j + 1)' /\ (j = txs[Last] => Complete')
<1>1. /\ txs \in Seq(Nat \ {0}) /\ Last \in Nat /\ Last \in DOMAIN txs /\ txs[Last] \in Nat \ {0} /\ j \in Nat
      /\ Len(Sent) \in Nat
  BY DEF SentInv, Last
<1>2. /\ Len(Sent') = Len(Sent) + 1 /\ Sent'[Len(Sent) + 1] = <<Last, j>>
      /\ \A i \in 1 .. Len(Sent) : Sent'[i] = Sent[i]
      /\ DOMAIN Sent' = 1 .. Len(Sent) + 1 /\ DOMAIN Sent = 1 .. Len(Sent)
  BY <1>1
<1>3. Reached(Last, j + 1)' BY <1>1, <1>2 DEF Reached, Last
<1>4. \/ Sent = <<>> /\ j = 1 /\ Last = 1
      \/ Sent # <<>> /\ Follows(Sent[Len(Sent)], <<Last, j>>)
  <2>1. CASE j > 1 BY <1>1, <2>1 DEF Reached, Follows
  <2>2. CASE j = 1 /\ Last = 1 BY <1>1, <2>2 DEF Reached
  <2>3. CASE j = 1 /\ Last > 1 BY <1>1, <2>3 DEF Reached, Follows
  <2> QED BY <1>1, <2>1, <2>2, <2>3
<1>5. Sent' # <<>> => Sent'[1] = <<1, 1>>
  <2>1. CASE Sent = <<>> BY <1>2, <1>4, <2>1
  <2>2. CASE Sent # <<>> BY <1>1, <1>2, <2>2 DEF SentInv
  <2> QED BY <2>1, <2>2
<1>6. \A i \in DOMAIN Sent' : Sent'[i][1] \in DOMAIN txs'
  <2> SUFFICES ASSUME NEW i \in DOMAIN Sent' PROVE Sent'[i][1] \in DOMAIN txs OBVIOUS
  <2>1. CASE i \in DOMAIN Sent BY <1>2, <2>1 DEF SentInv
  <2>2. CASE i \notin DOMAIN Sent
    <3>1. i = Len(Sent) + 1 BY <1>1, <1>2, <2>2
    <3> QED BY <1>1, <1>2, <3>1
  <2> QED BY <2>1, <2>2
<1>7. \A i \in 2 .. Len(Sent') : Follows(Sent[i - 1], Sent[i])'
  <2> SUFFICES ASSUME NEW i \in 2 .. Len(Sent') PROVE Follows(Sent'[i - 1], Sent'[i]) BY DEF Follows
  <2>1. CASE i \in 2 .. Len(Sent)
    <3>1. Follows(Sent[i - 1], Sent[i]) BY <2>1 DEF SentInv
    <3>2. Sent'[i] = Sent[i] /\ Sent'[i - 1] = Sent[i - 1] BY <1>1, <1>2, <2>1
    <3> QED BY <3>1, <3>2
  <2>2. CASE i = Len(Sent) + 1
    <3>1. Sent # <<>> /\ Len(Sent) \in 1 .. Len(Sent) BY <1>1, <2>2
    <3>2. Follows(Sent[Len(Sent)], <<Last, j>>) BY <1>4, <3>1
    <3>3. Sent'[i] = <<Last, j>> /\ Sent'[i - 1] = Sent[Len(Sent)] BY <1>1, <1>2, <2>2, <3>1
    <3> QED BY <3>2, <3>3
  <2> QED BY <1>1, <1>2, <2>1, <2>2
<1>8. \A k \in done' : k \in DOMAIN txs' /\ \E i \in DOMAIN out' : out'[i] = <<k, txs'[k]>> BY DEF SentInv
<1>9. j = txs[Last] => Complete' BY <1>1, <1>2 DEF Complete, Reached, Last
<1> QED BY <1>3, <1>5, <1>6, <1>7, <1>8, <1>9 DEF SentInv

\* After the last byte of the last transmission it is complete.
LEMMA ReachesEnd ==
  ASSUME SentInv, Last > 0
  PROVE  /\ Reached(Last, txs[Last] + 1) => Complete
         /\ Complete => Sent # <<>> /\ Sent[Len(Sent)] = <<Last, txs[Last]>>
<1>1. Last \in Nat /\ txs[Last] \in Nat \ {0} BY DEF SentInv, Last
<1> QED BY <1>1 DEF Complete, Reached

------------------------------------------------------------------------------
\* While the transmitter is used it is on.
LEMMA SendsOn ==
  ASSUME BaseInv, TxOnInv, bus = Idle, pc["isr"] # "none" \/ pc["main"] \in SendLabel
  PROVE  TxOn
<1>1. ~Writing BY Fields DEF Writing
<1>2. ~Early BY DEF Early, TxOnInv, SendLabel, PollLabel, WaitLabel, FillLabel
<1> QED BY <1>1, <1>2 DEF TxOnInv

\* It is not switched off.
LEMMA TxOnKept ==
  ASSUME TxOnInv, NEW ends \in BOOLEAN, Clock(ends)
  PROVE  TxOn => TxOn'
BY ControlLands DEF TxOnInv, TxOn, Reset

\* An interrupt of the transmitter finds it empty.
LEMMA IrqEmpty ==
  ASSUME WireInv, bus = Idle, o_uart_tx_int
  PROVE  Empty
BY Fields DEF WireInv, Empty, o_uart_tx_int, Posts

\* Quiet instructions change nothing of what is known.
LEMMA QuietKept ==
  ASSUME BaseInv, WireInv, SenderInv, SentInv, bus = Idle, reg' = reg, Quietly,
         Sent' = Sent, Empty => Empty'
  PROVE  SenderInv'
<1> USE DEF Thread
<1>1. bus.clock = 0 /\ UNCHANGED <<gState, Tx, txs, done, Sent, Last>> BY Fields DEF Quietly, Last
<1>2. \A t \in Thread : /\ pc'[t] \in SendLabel <=> pc[t] \in SendLabel
                        /\ pc[t] \in SendLabel => pc'[t] = pc[t] /\ arg'[t] = arg[t]
  BY DEF Quietly
<1>3. Complete' <=> Complete BY <1>1 DEF Complete, Reached
<1>4. \A t \in Thread : Polled(t)' => Polled(t)
  BY <1>1, <1>2 DEF Polled, SendLabel, PollLabel, WaitLabel
<1>5. ASSUME NEW t \in Thread, pc'[t] \in SendLabel PROVE gState' = "READY" /\ Transmits(t)'
  <2>1. gState = "READY" /\ Transmits(t) /\ pc'[t] = pc[t] /\ arg'[t] = arg[t] BY <1>2, <1>5 DEF SenderInv
  <2>2. Polled(t)' => Empty' BY <1>4, <2>1 DEF Transmits
  <2>3. \A j : Reached(Last, j)' <=> Reached(Last, j) BY <1>1 DEF Reached
  <2> QED BY <1>1, <1>3, <2>1, <2>2, <2>3 DEF Transmits, Reached
<1>6. pc'["isr"] \in SendLabel => ret' = "txDone" /\ pc'["isr"] \notin FillLabel
  BY <1>2 DEF Quietly, SenderInv
<1>7. gState' = "BUSY_TX" => HandlerSends'
  BY <1>1 DEF SenderInv, HandlerSends, Reached
<1>8. gState' # "BUSY_TX" /\ (\A t \in Thread : pc'[t] \notin SendLabel) => Complete'
  BY <1>1, <1>2, <1>3 DEF SenderInv
<1>9. /\ Ending' => gState' = "BUSY_TX" /\ Tx'.count = 0 /\ Empty'
      /\ Ended' => gState' = "READY" /\ pc'["main"] \notin SendLabel
  BY <1>1, <1>2 DEF Quietly, SenderInv
<1>10. pc'["isr"] = "txIrq" => Empty' BY IrqEmpty DEF Quietly, SenderInv
<1>11. pc'["main"] = "init" => gState' = "RESET" BY <1>1 DEF Quietly, SenderInv
<1>12. /\ ~Posts'
       /\ pc'[Running'] \in {"txCheck", "txWaited"} /\ bus'.clock # 0 => bus'.adr = "TX_DATA"
  BY Fields DEF Quietly, Posts, SendLabel, PollLabel, WaitLabel
<1>13. gState' \in {"RESET", "READY", "BUSY_TX"} BY <1>1 DEF SenderInv
<1> QED BY <1>5, <1>6, <1>7, <1>8, <1>9, <1>10, <1>11, <1>12, <1>13 DEF SenderInv

\* A read of TX_DATA that finds the transmitter free finds it empty; a clock of
\* waiting changes nothing else.
LEMMA WaitKept ==
  ASSUME BaseInv, WireInv, SenderInv, SentInv, CpuWaits, Sent' = Sent, Empty => Empty'
  PROVE  SenderInv'
<1> USE DEF Thread, BaseInv
<1>1. /\ UNCHANGED <<pc, ret, arg, rmw, gState, Tx, txs, done, Sent, Last, Running>>
      /\ \A t \in Thread : pc'[t] = pc[t] /\ arg'[t] = arg[t]
  BY DEF CpuWaits, Running, Last
<1>2. /\ bus' = Idle \/ (bus'.adr = bus.adr /\ bus'.we = bus.we /\ bus'.dat = bus.dat)
      /\ bus = Idle => bus' = Idle
      /\ bus'.clock # 0 => bus.clock # 0 /\ bus'.adr = bus.adr
      /\ bus.clock \in {1, 2} => bus'.clock = bus.clock + 1
      /\ Posts' => Posts
  BY Fields DEF CpuWaits, BusInv, Posts
<1>3. (Complete' <=> Complete) /\ (Ending' <=> Ending) /\ (Ended' <=> Ended)
  BY <1>1 DEF Complete, Reached, Ending, Ended
<1>4. ASSUME NEW t \in Thread, Polled(t)' PROVE Polled(t) \/ Empty
  <2>1. pc[t] \in {"txCheck", "txWaited"} /\ reg'[t].TX_BUSY = 0 /\ ~(t = Running /\ bus'.clock \in {1, 2})
    BY <1>1, <1>4 DEF Polled
  <2>2. CASE t = Running /\ bus.clock \in {1, 2}
    <3>1. bus.clock = 2 /\ bus.adr = "TX_DATA" BY <1>2, <2>1, <2>2 DEF SenderInv
    <3>2. ~Posts BY <2>1, <2>2 DEF SenderInv
    <3>3. reg'[t].TX_BUSY = tx_busy BY <2>2, <3>1, <3>2 DEF CpuWaits, ReadData, BusInv, Posts
    <3> QED BY <2>1, <3>2, <3>3 DEF Empty, WireInv
  <2>3. CASE ~(t = Running /\ bus.clock \in {1, 2})
    <3>1. reg'[t] = reg[t]
      <4>1. CASE t = Running BY <2>3, <4>1 DEF CpuWaits
      <4>2. CASE t # Running BY <4>2 DEF CpuWaits, BusInv
      <4> QED BY <4>1, <4>2
    <3> QED BY <2>1, <2>3, <3>1 DEF Polled
  <2> QED BY <2>2, <2>3
<1>5. ASSUME NEW t \in Thread, pc'[t] \in SendLabel PROVE gState' = "READY" /\ Transmits(t)'
  <2>1. gState = "READY" /\ Transmits(t) /\ pc'[t] = pc[t] /\ arg'[t] = arg[t] BY <1>1, <1>5 DEF SenderInv
  <2>2. Polled(t)' => Empty' BY <1>4, <2>1 DEF Transmits
  <2> QED BY <1>1, <1>3, <2>1, <2>2 DEF Transmits, Reached
<1>6. gState' = "BUSY_TX" => HandlerSends' BY <1>1 DEF SenderInv, HandlerSends, Reached
<1>7. /\ Posts' => pc'[Running'] \in {"txPoll", "txWait", "return"}
      /\ pc'[Running'] \in {"txCheck", "txWaited"} /\ bus'.clock # 0 => bus'.adr = "TX_DATA"
  BY <1>1, <1>2 DEF SenderInv
<1> QED BY <1>1, <1>3, <1>5, <1>6, <1>7 DEF SenderInv

------------------------------------------------------------------------------
\* One thread sends, and the handler that it might disturb is at rest.
LEMMA OneSender ==
  ASSUME BaseInv, SenderInv, bus = Idle, NEW t \in Thread, t = Running, pc[t] \in SendLabel
  PROVE  /\ gState = "READY" /\ Transmits(t) /\ ~Ending /\ bus.clock = 0
         /\ \A u \in Thread \ {t} : pc[u] \notin SendLabel
         /\ t = "main" => pc["isr"] = "none"
         /\ t = "isr" => ret = "txDone" /\ Ended /\ pc["main"] # "init" /\ pc["isr"] \notin FillLabel
         /\ Back(t) = IF t = "main" THEN "ready" ELSE "txDone"
<1> USE DEF Thread
<1>1. t = "isr" => pc["main"] # "init" BY DEF SenderInv
<1>2. ~Ending /\ gState = "READY" /\ Transmits(t) BY DEF SenderInv
<1>3. t = "main" => pc["isr"] = "none" BY DEF Running
<1>4. t = "isr" => ret = "txDone" /\ Ended /\ pc["isr"] \notin FillLabel
  BY <1>2 DEF SenderInv, Ended, SendLabel, PollLabel, WaitLabel, FillLabel, CallLabel
<1>5. \A u \in Thread \ {t} : pc[u] \notin SendLabel
  BY <1>3, <1>4 DEF SenderInv, SendLabel, PollLabel, WaitLabel, FillLabel
<1>6. bus.clock = 0 BY Fields
<1> QED BY <1>1, <1>2, <1>3, <1>4, <1>5, <1>6 DEF Back

\* The thread that sends moves on, or is done.
LEMMA SenderMoves ==
  ASSUME BaseInv, SenderInv, bus = Idle, NEW t \in Thread, t = Running, pc[t] \in SendLabel,
         NEW label, pc' = [pc EXCEPT ![t] = label], UNCHANGED <<ret, rmw, gState>>,
         \/ label \in SendLabel /\ Transmits(t)' /\ (t = "isr" => label \notin FillLabel)
         \/ label = Back(t) /\ Complete',
         Posts' => label \in {"txPoll", "txWait"},
         label \in {"txCheck", "txWaited"} /\ bus'.clock # 0 => bus'.adr = "TX_DATA"
  PROVE  SenderInv'
<1> USE DEF Thread
<1>1. /\ gState = "READY" /\ ~Ending
      /\ \A u \in Thread \ {t} : pc[u] \notin SendLabel
      /\ t = "main" => pc["isr"] = "none"
      /\ t = "isr" => ret = "txDone" /\ Ended /\ pc["main"] # "init"
      /\ Back(t) = IF t = "main" THEN "ready" ELSE "txDone"
  BY OneSender
<1>2. pc'[t] = label /\ (\A u \in Thread \ {t} : pc'[u] = pc[u]) BY DEF BaseInv, FlowInv
<1>3. {"ready", "txDone", "init", "none", "txIrq", "txReady", "modify", "write"} \cap SendLabel = {}
  BY DEF SendLabel, PollLabel, WaitLabel, FillLabel
<1>4. label \notin {"none", "init", "txIrq", "txReady", "modify", "write"} BY <1>1, <1>3
<1>5. Running' = t BY <1>1, <1>2, <1>4 DEF Running
<1>6. \A u \in Thread : pc'[u] \in SendLabel => u = t /\ label \in SendLabel BY <1>1, <1>2
<1>7. ~Ending' BY <1>1, <1>2, <1>4 DEF Ending
<1>8. pc'["isr"] \in SendLabel => ret' = "txDone" /\ pc'["isr"] \notin FillLabel
  BY <1>1, <1>2, <1>3, <1>6
<1>9. Ended' => pc'["main"] \notin SendLabel
  BY <1>1, <1>2 DEF Ended, CallLabel
<1>10. (\A u \in Thread : pc'[u] \notin SendLabel) => Complete' BY <1>1, <1>2
<1>11. \A u \in Thread : pc'[u] \in SendLabel => Transmits(u)' BY <1>1, <1>3, <1>6
<1>12. pc'["isr"] # "txIrq" /\ pc'["main"] # "init" BY <1>1, <1>2, <1>4
<1>13. /\ Posts' => pc'[Running'] \in {"txPoll", "txWait", "return"}
       /\ pc'[Running'] \in {"txCheck", "txWaited"} /\ bus'.clock # 0 => bus'.adr = "TX_DATA"
  BY <1>2, <1>5
<1> QED BY <1>1, <1>7, <1>8, <1>9, <1>10, <1>11, <1>12, <1>13 DEF SenderInv

\* UART_Transmit.
LEMMA TransmitKept ==
  ASSUME BaseInv, TxOnInv, WireInv, SenderInv, SentInv, bus = Idle, reg' = reg, NEW t \in Thread, TransmitStep(t),
         NEW ends \in BOOLEAN, Clock(ends)
  PROVE  WireInv' /\ SenderInv' /\ SentInv'
<1> USE DEF Thread
<1>1. pc[t] \in PollLabel \cup WaitLabel /\ t = Running
  BY DEF TransmitStep, SendByte, TransmitDone, Step, At, PollLabel, WaitLabel
<1>2. /\ gState = "READY" /\ Transmits(t) /\ bus.clock = 0
      /\ t = "main" => pc["isr"] = "none"
      /\ Back(t) = IF t = "main" THEN "ready" ELSE "txDone"
  BY <1>1, OneSender DEF SendLabel
<1>3. TxOn => TxOn' BY TxOnKept
<1>4. Sent \in Seq(Pair) /\ (Empty => Sent = out) BY SentIs
<1>5. pc[t] \in SendLabel BY <1>1 DEF SendLabel
<1>6. pc[t] \in {"txCheck", "txWaited"} /\ reg[t].TX_BUSY = 0 => Empty BY <1>2 DEF Transmits, Polled
<1>7. ASSUME ~Posts'
      PROVE  /\ WireInv' /\ Sent' = Sent /\ (Empty => Empty')
             /\ \A i \in DOMAIN out : i \in DOMAIN out' /\ out'[i] = out[i]
  BY <1>3, <1>7, WireRests
<1>8. ASSUME UNCHANGED swVars, NEW label \in PollLabel \cup WaitLabel, pc' = [pc EXCEPT ![t] = label],
             label \in PollLabel <=> pc[t] \in PollLabel, ~Posts',
             label \in {"txCheck", "txWaited"} => bus' = ReadOf("TX_DATA")
      PROVE  WireInv' /\ SenderInv' /\ SentInv'
  <2>1. /\ WireInv' /\ Sent' = Sent /\ (Empty => Empty')
        /\ \A i \in DOMAIN out : i \in DOMAIN out' /\ out'[i] = out[i]
    BY <1>7, <1>8
  <2>2. SentInv' BY <1>4, <1>8, <2>1, SentKept DEF swVars, SentInv
  <2>3. pc'[t] = label /\ label # "none" BY <1>8 DEF BaseInv, FlowInv, PollLabel, WaitLabel
  <2>4. Running' = t BY <1>2, <1>8, <2>3 DEF Running, BaseInv, FlowInv
  <2>5. ~Polled(t)' BY <1>8, <2>3, <2>4, Fields DEF Polled
  <2>6. pc'[t] \notin FillLabel /\ label \in SendLabel BY <1>8, <2>3 DEF SendLabel, FillLabel, PollLabel, WaitLabel
  <2>7. label \in WaitLabel => pc[t] \in WaitLabel BY <1>1, <1>8 DEF PollLabel, WaitLabel
  <2>8. Transmits(t)'
    <3>1. UNCHANGED <<arg, Last, txs>> BY <1>8 DEF swVars, Last
    <3>2. Complete => Complete'
      BY <2>1, <3>1 DEF Reached, Complete
    <3>3. /\ Last > 0 /\ arg[t].tx = Last
          /\ label \in PollLabel => /\ arg[t].left > 0 /\ arg[t].next > 0
                                    /\ arg[t].next + arg[t].left = txs[Last] + 1 /\ Reached(Last, arg[t].next)
          /\ label \in WaitLabel => Complete
      BY <1>2, <1>8, <2>7 DEF Transmits
    <3>4. label \in PollLabel => Reached(Last, arg[t].next)' BY <2>1, <3>1, <3>3 DEF Reached
    <3>5. label \in WaitLabel => Complete' BY <3>2, <3>3
    <3>6. pc'[t] # "txState" BY <2>6 DEF FillLabel
    <3> QED BY <2>3, <2>5, <2>6, <3>1, <3>3, <3>4, <3>5, <3>6 DEF Transmits
  <2>9. UNCHANGED <<ret, rmw, gState>> BY <1>8 DEF swVars
  <2>10. label \notin FillLabel BY <2>3, <2>6
  <2>11. label \in {"txCheck", "txWaited"} => bus'.adr = "TX_DATA" BY <1>8, Fields
  <2>12. SenderInv' BY <1>1, <1>5, <1>8, <2>6, <2>8, <2>9, <2>10, <2>11, SenderMoves
  <2> QED BY <2>1, <2>2, <2>12
<1>9. CASE Step(t, "txPoll", "txCheck", ReadOf("TX_DATA")) \/ Step(t, "txWait", "txWaited", ReadOf("TX_DATA"))
  BY <1>8, <1>9, Fields DEF Step, At, To, Posts, PollLabel, WaitLabel
<1>10. CASE Step(t, "txCheck", "txPoll", Idle) \/ Step(t, "txWaited", "txWait", Idle)
  BY <1>8, <1>10, Fields DEF Step, At, To, Posts, PollLabel, WaitLabel
<1>11. CASE SendByte(t)
  <2>1. PICK j, n : j = arg[t].next /\ n = arg[t].left OBVIOUS
  <2>2. PICK label : label = IF n = 1 THEN "txWait" ELSE "txPoll" OBVIOUS
  <2>3. /\ pc[t] = "txCheck" /\ pc' = [pc EXCEPT ![t] = label] /\ bus' = WriteOf("TX_DATA", <<arg[t].tx, j>>)
        /\ arg' = [arg EXCEPT ![t].next = @ + 1, ![t].left = @ - 1]
        /\ UNCHANGED <<ret, rmw, gState, Tx, txs, done>>
    BY <1>11, <2>1, <2>2 DEF SendByte, At, To
  <2>4. Empty BY <1>6, <1>11 DEF SendByte, At
  <2>5. arg[t].tx = Last /\ Last > 0 /\ n > 0 /\ j > 0 /\ j + n = txs[Last] + 1 /\ Reached(Last, j)
    BY <1>2, <2>1, <2>3 DEF Transmits, PollLabel
  <2>6. n \in Int /\ j \in Nat /\ Last \in Nat /\ txs[Last] \in Nat \ {0}
    BY <2>1, <2>5 DEF SentInv, Args, Last
  <2>7. j \in 1 .. txs[Last] /\ <<Last, j>> \in Pair BY <2>5, <2>6 DEF Pair
  <2>8. TxOn' BY <1>1, <1>3, <1>5, SendsOn DEF Running
  <2>9. WireInv' /\ Sent = out /\ out' = out /\ Sent' = Append(Sent, <<Last, j>>)
    BY <2>3, <2>4, <2>5, <2>7, <2>8, WirePosts DEF Clock
  <2>10. /\ arg' \in Args /\ arg'[t].tx = Last /\ arg'[t].next = j + 1 /\ arg'[t].left = n - 1
    <3>1. arg \in [Thread -> [tx : Nat, next : Nat, left : Int]] BY DEF SentInv, Args
    <3>2. arg[t] \in [tx : Nat, next : Nat, left : Int] BY <3>1
    <3>3. arg' = [arg EXCEPT ![t] = [arg[t] EXCEPT !.next = j + 1, !.left = n - 1]] BY <2>1, <2>3, <3>1
    <3>4. [arg[t] EXCEPT !.next = j + 1, !.left = n - 1] \in [tx : Nat, next : Nat, left : Int]
      <4>1. PICK jj \in Nat, nn \in Int : jj = j + 1 /\ nn = n - 1 BY <2>6
      <4>2. [arg[t] EXCEPT !.next = jj, !.left = nn] \in [tx : Nat, next : Nat, left : Int] BY <3>2
      <4> QED BY <4>1, <4>2
    <3>5. arg' \in Args BY <3>1, <3>3, <3>4 DEF Args
    <3>6. arg'[t] = [arg[t] EXCEPT !.next = j + 1, !.left = n - 1] BY <3>1, <3>3
    <3> QED BY <2>5, <3>2, <3>5, <3>6
  <2>11. SentInv' /\ Reached(Last, j + 1)' /\ (j = txs[Last] => Complete')
    BY <1>4, <2>3, <2>5, <2>7, <2>9, <2>10, SendsNext DEF SentInv
  <2>12. pc'[t] = label BY <2>3 DEF BaseInv, FlowInv
  <2>13. UNCHANGED <<Last, txs>> BY <2>3 DEF Last
  <2>14. Transmits(t)'
    <3>1. CASE n = 1
      <4>1. Complete' BY <2>5, <2>6, <2>11, <3>1
      <4> QED BY <2>2, <2>5, <2>10, <2>12, <2>13, <3>1, <4>1 DEF Transmits, PollLabel, FillLabel, Polled
    <3>2. CASE n # 1
      <4>1. n - 1 > 0 /\ j + 1 > 0 /\ (j + 1) + (n - 1) = txs[Last] + 1 BY <2>5, <2>6, <3>2
      <4>2. Reached(Last, arg[t].next)' BY <2>10, <2>11 DEF Reached
      <4> QED BY <2>2, <2>5, <2>10, <2>12, <2>13, <3>2, <4>1, <4>2 DEF Transmits, WaitLabel, FillLabel, Polled
    <3> QED BY <3>1, <3>2
  <2>15. label \in {"txPoll", "txWait"} /\ label \in SendLabel /\ label \notin FillLabel
    BY <2>2 DEF SendLabel, PollLabel, WaitLabel, FillLabel
  <2>16. SenderInv' BY <1>1, <1>5, <2>3, <2>14, <2>15, SenderMoves
  <2> QED BY <2>9, <2>11, <2>16
<1>12. CASE TransmitDone(t)
  <2>1. /\ pc[t] = "txWaited" /\ pc' = [pc EXCEPT ![t] = Back(t)] /\ bus' = Idle /\ done' = done \cup {arg[t].tx}
        /\ UNCHANGED <<ret, rmw, gState, Tx, txs, arg>>
    BY <1>12 DEF TransmitDone, At, To
  <2>2. Empty BY <1>6, <1>12 DEF TransmitDone, At
  <2>3. arg[t].tx = Last /\ Last > 0 /\ Complete BY <1>2, <2>1 DEF Transmits, WaitLabel
  <2>4. ~Posts' BY <2>1, Fields DEF Posts
  <2>5. /\ WireInv' /\ Sent' = Sent
        /\ \A i \in DOMAIN out : i \in DOMAIN out' /\ out'[i] = out[i]
    BY <1>7, <2>4
  <2>6. Sent # <<>> /\ Sent[Len(Sent)] = <<Last, txs[Last]>> BY <2>3, ReachesEnd
  <2>7. Sent = out /\ Len(Sent) \in DOMAIN out BY <1>4, <2>2, <2>6
  <2>8. Last \in DOMAIN txs BY <2>3 DEF SentInv, Last
  <2>9. \A k \in done' : k \in done \/ (k \in DOMAIN txs /\ \E i \in DOMAIN out : out[i] = <<k, txs[k]>>)
    BY <2>1, <2>3, <2>6, <2>7, <2>8
  <2>10. SentInv' BY <1>4, <2>1, <2>5, <2>9, SentKept DEF SentInv
  <2>11. Complete' BY <2>1, <2>3, <2>5 DEF Complete, Reached, Last
  <2>12. SenderInv'
    BY <1>1, <1>2, <1>5, <2>1, <2>4, <2>11, SenderMoves
  <2> QED BY <2>5, <2>10, <2>12
<1> QED BY <1>9, <1>10, <1>11, <1>12 DEF TransmitStep

\* UART_Transmit_IT after its check, in main.
LEMMA TxFillKept ==
  ASSUME BaseInv, TxOnInv, WireInv, SenderInv, SentInv, bus = Idle, NEW t \in Thread, TxFill(t) \/ TxState(t),
         Sent' = Sent, Empty => Empty', \A i \in DOMAIN out : i \in DOMAIN out' /\ out'[i] = out[i]
  PROVE  SenderInv' /\ SentInv'
<1> USE DEF Thread
<1>1. t = Running /\ pc[t] \in {"txFill", "txState"} /\ pc[t] \in SendLabel /\ bus' = Idle
  BY DEF TxFill, TxState, At, To, SendLabel, FillLabel
<1>2. /\ gState = "READY" /\ Transmits(t) /\ t = "main" /\ pc["isr"] = "none"
      /\ \A u \in Thread \ {t} : pc[u] \notin SendLabel
  BY <1>1, OneSender DEF FillLabel
<1>3. arg[t].tx = Last /\ Last > 0 /\ arg[t].left = txs[Last] /\ txs[Last] < W16 /\ Reached(Last, 1)
  BY <1>1, <1>2 DEF Transmits, FillLabel
<1>4. Last \in Nat /\ txs[Last] \in Nat BY <1>3 DEF SentInv, Last
<1>5. Sent \in Seq(Pair) BY SentIs
<1>6. ~Posts' BY <1>1, Fields DEF Posts
<1>7. CASE TxFill(t)
  <2>1. /\ pc' = [pc EXCEPT ![t] = "txState"] /\ UNCHANGED <<ret, rmw, gState, arg, txs, done>>
        /\ Tx' = [tx |-> Last, next |-> 1, count |-> txs[Last]]
    BY <1>3, <1>7 DEF TxFill, At, To
  <2>2. Tx' \in TxValues BY <1>4, <2>1 DEF TxValues
  <2>3. SentInv' BY <1>5, <2>1, <2>2, SentKept DEF SentInv
  <2>4. pc'[t] = "txState" /\ Last' = Last BY <2>1 DEF BaseInv, FlowInv, Last
  <2>5. Reached(Last, 1)' BY <1>3, <2>1, <2>4 DEF Reached
  <2>6. Transmits(t)' BY <1>3, <2>1, <2>4, <2>5 DEF Transmits, PollLabel, WaitLabel, Polled
  <2>7. "txState" \in SendLabel BY DEF SendLabel, FillLabel
  <2>8. SenderInv' BY <1>1, <1>2, <1>6, <2>1, <2>6, <2>7, SenderMoves
  <2> QED BY <2>3, <2>8
<1>8. CASE TxState(t)
  <2>1. /\ pc' = [pc EXCEPT ![t] = "modify"] /\ gState' = "BUSY_TX" /\ pc[t] = "txState"
        /\ UNCHANGED <<ret, arg, Tx, txs, done>>
    BY <1>8 DEF TxState, At, To
  <2>2. SentInv' BY <1>5, <2>1, SentKept DEF SentInv
  <2>3. pc'["main"] = "modify" /\ pc'["isr"] = "none" /\ Last' = Last
    BY <1>2, <2>1 DEF BaseInv, FlowInv, Last
  <2>4. Tx = [tx |-> Last, next |-> 1, count |-> txs[Last]] BY <1>2, <2>1 DEF Transmits
  <2>5. Reached(Last, 1)' BY <1>3, <2>1, <2>3 DEF Reached
  <2>6. HandlerSends' BY <1>3, <1>4, <2>1, <2>3, <2>4, <2>5 DEF HandlerSends
  <2>7. \A u \in Thread : pc'[u] \notin SendLabel
    BY <2>3 DEF SendLabel, PollLabel, WaitLabel, FillLabel
  <2>8. ~Ending' /\ ~Ended' BY <2>3 DEF Ending, Ended, CallLabel
  <2>9. pc'[Running'] \notin {"txCheck", "txWaited"} BY <2>3 DEF Running
  <2> QED BY <1>6, <2>1, <2>2, <2>3, <2>6, <2>7, <2>8, <2>9 DEF SenderInv
<1> QED BY <1>7, <1>8

\* A transmission begins when the one before is complete.
LEMMA StartKept ==
  ASSUME SendsInTurn, BaseInv, WireInv, SenderInv, SentInv, bus = Idle, NEW t \in Thread, NEW c \in AllCalls,
         StartSend(t, c), Sent' = Sent, \A i \in DOMAIN out : i \in DOMAIN out' /\ out'[i] = out[i]
  PROVE  SenderInv' /\ SentInv'
<1> USE DEF Thread
<1>1. /\ StartCall(t, c) /\ Accepts(c) /\ c.fn \in {"Transmit", "Transmit_IT"}
      /\ \/ t = "main" /\ At("main", "ready")
         \/ t = "isr" /\ At("isr", "txCallback") /\ c.fn = "Transmit"
  BY DEF StartSend
<1>2. c \in [fn : Function, size : Nat] BY CallsAre
<1>3. gState = "READY" /\ c.size \in Nat \ {0} BY <1>1, <1>2 DEF Accepts
<1>4. PICK label : /\ label = Entry(c) /\ (label = "txPoll" \/ (label = "txFill" /\ t = "main" /\ c.size < W16))
  BY <1>1, <1>2, EntryLabels DEF SendsInTurn
<1>5. /\ pc' = [pc EXCEPT ![t] = label] /\ bus' = Idle /\ txs' = Append(txs, c.size) /\ rmw' = rmw
      /\ UNCHANGED <<ret, reg, gState, Tx, done>>
      /\ arg' = [arg EXCEPT ![t] = [tx |-> Len(txs'), next |-> 1, left |-> c.size]]
  <2>1. CASE ~Accepts(c) /\ To(t, Back(t), Idle) /\ UNCHANGED <<arg, rmw, txs>> BY <1>1, <2>1
  <2>2. CASE /\ Accepts(c) /\ To(t, Entry(c), Idle)
             /\ txs' = IF c.fn \in {"Transmit", "Transmit_IT"} THEN Append(txs, c.size) ELSE txs
             /\ arg' = [arg EXCEPT ![t] = [tx |-> Len(txs'), next |-> 1, left |-> c.size]]
             /\ IF Entry(c) = "modify" THEN Change(t, Bits(c).set, Bits(c).clear, Back(t))
                ELSE UNCHANGED rmw
    BY <1>1, <1>4, <2>2 DEF StartCall, To
  <2> QED BY <1>1, <2>1, <2>2 DEF StartCall
<1>6. /\ Last' = Last + 1 /\ Last \in Nat /\ txs'[Last'] = c.size
      /\ Last > 0 => txs'[Last] = txs[Last]
  <2>1. txs \in Seq(Nat \ {0}) BY DEF SentInv
  <2> QED BY <1>3, <1>5, <2>1 DEF Last
<1>7. arg' \in Args /\ arg'[t] = [tx |-> Last', next |-> 1, left |-> c.size]
  <2>1. arg \in [Thread -> [tx : Nat, next : Nat, left : Int]] BY DEF SentInv, Args
  <2>2. PICK a : a = [tx |-> Len(txs'), next |-> 1, left |-> c.size] OBVIOUS
  <2>3. Len(txs') \in Nat BY <1>6 DEF Last
  <2>4. a \in [tx : Nat, next : Nat, left : Int] BY <1>3, <2>2, <2>3
  <2>5. arg' = [arg EXCEPT ![t] = a] BY <1>5, <2>2
  <2>6. arg'[t] = a /\ arg' \in [Thread -> [tx : Nat, next : Nat, left : Int]] BY <2>1, <2>4, <2>5
  <2> QED BY <2>2, <2>6 DEF Args, Last
<1>8. /\ t = "main" => pc["isr"] = "none"
      /\ t = "isr" => ret = "txDone" /\ pc["main"] \notin SendLabel /\ pc["main"] # "init"
      /\ \A u \in Thread : pc[u] \notin SendLabel
      /\ t = Running /\ pc[t] \in {"ready", "txCallback"}
  <2>1. pc["isr"] = "txCallback" => Ended /\ ret = "txDone" BY DEF Ended, BaseInv, FlowInv
  <2>2. {"ready", "none", "txCallback"} \cap SendLabel = {} BY DEF SendLabel, PollLabel, WaitLabel, FillLabel
  <2>3. Ended => gState = "READY" /\ pc["main"] \notin SendLabel BY DEF SenderInv
  <2>4. pc["main"] = "init" => gState = "RESET" BY DEF SenderInv
  <2> QED BY <1>1, <1>3, <2>1, <2>2, <2>3, <2>4 DEF At, Running
<1>9. Complete BY <1>3, <1>8 DEF SenderInv
<1>10. Reached(Last, 1)'
  <2>1. CASE Last = 0 BY <1>6, <1>9, <2>1 DEF Complete, Reached
  <2>2. CASE Last > 0 BY <1>6, <1>9, <2>2 DEF Complete, Reached
  <2> QED BY <1>6, <2>1, <2>2
<1>11. pc'[t] = label /\ (\A u \in Thread \ {t} : pc'[u] = pc[u]) BY <1>5 DEF BaseInv, FlowInv
<1>12. Transmits(t)'
  <2>1. label \in FillLabel => c.size < W16 BY <1>4 DEF FillLabel
  <2>2. label \notin WaitLabel /\ label \notin {"txState", "txCheck", "txWaited"} BY <1>4 DEF WaitLabel
  <2>3. 1 + c.size = txs'[Last'] + 1 BY <1>3, <1>6
  <2> QED BY <1>3, <1>6, <1>7, <1>10, <1>11, <2>1, <2>2, <2>3 DEF Transmits, Polled
<1>13. SentInv'
  <2>1. Sent \in Seq(Pair) BY SentIs
  <2> QED BY <1>3, <1>5, <1>7, <2>1, SentKept DEF SentInv
<1>14. label \in SendLabel BY <1>4 DEF SendLabel, PollLabel, FillLabel
<1>15. \A u \in Thread : pc'[u] \in SendLabel => gState' = "READY" /\ Transmits(u)'
  BY <1>3, <1>5, <1>8, <1>11, <1>12
<1>16. pc'["isr"] \in SendLabel => ret' = "txDone" /\ pc'["isr"] \notin FillLabel
  BY <1>4, <1>5, <1>8, <1>11 DEF FillLabel
<1>17. ~Ending' /\ (Ended' => pc'["main"] \notin SendLabel)
  BY <1>4, <1>5, <1>8, <1>11 DEF Ending, Ended, CallLabel
<1>18. pc'["isr"] # "txIrq" /\ pc'["main"] # "init" BY <1>4, <1>8, <1>11
<1>19. ~Posts' /\ pc'[Running'] \notin {"txCheck", "txWaited"}
  BY <1>4, <1>5, <1>8, <1>11, Fields DEF Posts, Running
<1> QED BY <1>3, <1>5, <1>11, <1>13, <1>14, <1>15, <1>16, <1>17, <1>18, <1>19 DEF SenderInv

\* UART_Init.
LEMMA UartInitKept ==
  ASSUME BaseInv, WireInv, SenderInv, SentInv, bus = Idle, UART_Init, Sent' = Sent, Empty => Empty',
         \A i \in DOMAIN out : i \in DOMAIN out' /\ out'[i] = out[i]
  PROVE  SenderInv' /\ SentInv'
<1> USE DEF Thread
<1>1. /\ pc["main"] = "init" /\ pc["isr"] = "none" /\ pc' = [pc EXCEPT !["main"] = "enable"]
      /\ bus' = WriteOf("SETUP", Nothing) /\ gState' = "READY"
      /\ UNCHANGED <<ret, arg, rmw, Tx, txs, done>>
  BY DEF UART_Init, At, To, Running
<1>2. pc'["main"] = "enable" /\ pc'["isr"] = "none" BY <1>1 DEF BaseInv, FlowInv
<1>3. \A u \in Thread : pc[u] \notin SendLabel /\ pc'[u] \notin SendLabel
  BY <1>1, <1>2 DEF SendLabel, PollLabel, WaitLabel, FillLabel
<1>4. gState = "RESET" BY <1>1 DEF SenderInv
<1>5. Complete BY <1>3, <1>4 DEF SenderInv
<1>6. Complete' BY <1>1, <1>5 DEF Complete, Reached, Last
<1>7. ~Ending' /\ ~Ended' BY <1>2 DEF Ending, Ended, CallLabel
<1>8. ~Posts' /\ pc'[Running'] \notin {"txCheck", "txWaited"} BY <1>1, <1>2, Fields DEF Posts, Running
<1>9. SentInv' BY <1>1, SentIs, SentKept DEF SentInv
<1> QED BY <1>1, <1>2, <1>3, <1>6, <1>7, <1>8, <1>9 DEF SenderInv

\* The counter moves down, the pointer up.
LEMMA MovedIs ==
  ASSUME Tx \in TxValues
  PROVE  /\ Moved \in TxValues /\ Moved.tx = Tx.tx /\ Moved.next = Tx.next + 1
         /\ Tx.count # 0 /\ Tx.count < W16 => Moved.count = Tx.count - 1
<1>1. Tx.next \in Nat /\ Tx.count \in Nat BY DEF TxValues
<1>2. PICK n \in Nat, m \in Nat :
        /\ n = Tx.next + 1 /\ m = (Tx.count + W16 - 1) % W16
        /\ Tx.count # 0 /\ Tx.count < W16 => m = Tx.count - 1
  <2>1. PICK k \in Nat : k = Tx.count BY <1>1
  <2>2. (k + W16 - 1) % W16 \in Nat /\ (k # 0 /\ k < W16 => (k + W16 - 1) % W16 = k - 1) BY DEF W16
  <2> QED BY <1>1, <2>1, <2>2
<1>3. Moved = [Tx EXCEPT !.next = n, !.count = m] BY <1>2 DEF Moved
<1>4. [Tx EXCEPT !.next = n, !.count = m] \in TxValues BY DEF TxValues
<1>5. Moved.tx = Tx.tx /\ Moved.next = n /\ Moved.count = m BY <1>3 DEF TxValues
<1> QED BY <1>2, <1>3, <1>4, <1>5

\* The handler sends a byte.
LEMMA TxSendKept ==
  ASSUME BaseInv, TxOnInv, WireInv, SenderInv, SentInv, bus = Idle, TxSend, NEW ends \in BOOLEAN, Clock(ends)
  PROVE  WireInv' /\ SenderInv' /\ SentInv'
<1> USE DEF Thread
<1>1. PICK j, n : j = Tx.next /\ n = Tx.count OBVIOUS
<1>2. /\ pc["isr"] = "txIrq" /\ pc' = [pc EXCEPT !["isr"] = "return"] /\ gState = "BUSY_TX" /\ n # 0
      /\ bus' = WriteOf("TX_DATA", <<Tx.tx, j>>) /\ Tx' = Moved
      /\ UNCHANGED <<ret, arg, rmw, gState, txs, done>>
  BY <1>1 DEF TxSend, At, To
<1>3. /\ Last > 0 /\ Tx.tx = Last /\ j > 0 /\ n < W16 /\ j + n = txs[Last] + 1 /\ Reached(Last, j)
      /\ Empty
  BY <1>1, <1>2 DEF SenderInv, HandlerSends
<1>4. Tx \in TxValues /\ Last \in Nat /\ txs[Last] \in Nat \ {0} BY <1>3 DEF SentInv, Last
<1>5. j \in Nat /\ n \in Nat BY <1>1, <1>4 DEF TxValues
<1>6. j \in 1 .. txs[Last] /\ <<Last, j>> \in Pair BY <1>2, <1>3, <1>4, <1>5 DEF Pair
<1>7. TxOn' BY <1>2, SendsOn, TxOnKept
<1>8. WireInv' /\ Sent = out /\ out' = out /\ Sent' = Append(Sent, <<Last, j>>)
  BY <1>2, <1>3, <1>6, <1>7, WirePosts DEF Clock
<1>9. /\ Tx' \in TxValues /\ Tx'.tx = Last /\ Tx'.next = j + 1 /\ Tx'.count = n - 1
  BY <1>1, <1>2, <1>3, <1>4, MovedIs
<1>10. SentInv' /\ Reached(Last, j + 1)'
  BY <1>2, <1>3, <1>6, <1>8, <1>9, SentIs, SendsNext DEF SentInv
<1>11. Last' = Last BY <1>2 DEF Last
<1>12. HandlerSends'
  <2>1. j + 1 > 0 /\ n - 1 < W16 /\ (j + 1) + (n - 1) = txs[Last] + 1 BY <1>3, <1>4, <1>5 DEF W16
  <2>2. Reached(Last, Tx.next)' BY <1>9, <1>10 DEF Reached
  <2> QED BY <1>2, <1>3, <1>9, <1>11, <2>1, <2>2 DEF HandlerSends
<1>13. pc'["isr"] = "return" /\ pc'["main"] = pc["main"] BY <1>2 DEF BaseInv, FlowInv
<1>14. \A u \in Thread : pc'[u] \notin SendLabel
  BY <1>2, <1>13 DEF SenderInv, SendLabel, PollLabel, WaitLabel, FillLabel
<1>15. ~Ending' /\ ~Ended' /\ pc'["main"] # "init" BY <1>2, <1>13 DEF Ending, Ended, CallLabel, SenderInv
<1>16. pc'[Running'] = "return" BY <1>13 DEF Running
<1> QED BY <1>2, <1>8, <1>10, <1>12, <1>13, <1>14, <1>15, <1>16 DEF SenderInv

\* The handler ends a transmission.
LEMMA TxEndKept ==
  ASSUME BaseInv, WireInv, SenderInv, SentInv, bus = Idle, TxEnd \/ TxReady \/ TxDone, Sent' = Sent, Empty => Empty',
         \A i \in DOMAIN out : i \in DOMAIN out' /\ out'[i] = out[i]
  PROVE  SenderInv' /\ SentInv'
<1> USE DEF Thread
<1>1. Sent \in Seq(Pair) /\ (Empty => Sent = out) BY SentIs
<1>2. bus' = Idle /\ ~Posts' BY Fields DEF TxEnd, TxReady, TxDone, To, Posts
<1>3. CASE TxEnd
  <2>1. /\ pc["isr"] = "txIrq" /\ pc' = [pc EXCEPT !["isr"] = "modify"] /\ gState = "BUSY_TX" /\ Tx.count = 0
        /\ rmw' = [rmw EXCEPT !["isr"] = [set |-> {}, clear |-> {"TX_INT_EN"}, to |-> "txReady"]]
        /\ UNCHANGED <<arg, gState, Tx, txs, done>>
    BY <1>3 DEF TxEnd, At, To, Change
  <2>2. pc'["isr"] = "modify" /\ pc'["main"] = pc["main"] /\ rmw'["isr"].to = "txReady" /\ Last' = Last
    BY <2>1 DEF BaseInv, FlowInv, Last
  <2>3. Empty' BY <2>1 DEF SenderInv
  <2>4. HandlerSends' BY <2>1, <2>2 DEF SenderInv, HandlerSends, Reached
  <2>5. \A u \in Thread : pc'[u] \notin SendLabel
    BY <2>1, <2>2 DEF SenderInv, SendLabel, PollLabel, WaitLabel, FillLabel
  <2>6. ~Ended' BY <2>2 DEF Ended, Ending
  <2>7. pc'["main"] # "init" BY <2>1, <2>2 DEF SenderInv
  <2>8. pc'[Running'] = "modify" BY <2>2 DEF Running
  <2>9. SentInv' BY <1>1, <2>1, SentKept DEF SentInv
  <2> QED BY <1>2, <2>1, <2>2, <2>3, <2>4, <2>5, <2>6, <2>7, <2>8, <2>9 DEF SenderInv
<1>4. CASE TxReady
  <2>1. /\ pc["isr"] = "txReady" /\ pc' = [pc EXCEPT !["isr"] = "txCallback"] /\ gState' = "READY"
        /\ done' = done \cup {Tx.tx} /\ UNCHANGED <<arg, Tx, txs>>
    BY <1>4 DEF TxReady, At, To
  <2>2. /\ gState = "BUSY_TX" /\ Tx.count = 0 /\ Empty
        /\ Last > 0 /\ Tx.tx = Last /\ Tx.next + Tx.count = txs[Last] + 1 /\ Reached(Last, Tx.next)
    BY <2>1 DEF SenderInv, Ending, HandlerSends
  <2>3. Tx.next = txs[Last] + 1 BY <2>2 DEF SentInv, TxValues
  <2>4. Complete /\ Sent # <<>> /\ Sent[Len(Sent)] = <<Last, txs[Last]>> BY <2>2, <2>3, ReachesEnd
  <2>5. Complete' BY <2>1, <2>4 DEF Complete, Reached, Last
  <2>6. Len(Sent) \in DOMAIN out /\ out[Len(Sent)] = <<Last, txs[Last]>> BY <1>1, <2>2, <2>4
  <2>7. Last \in DOMAIN txs BY <2>2 DEF SentInv, Last
  <2>8. SentInv' BY <1>1, <2>1, <2>2, <2>6, <2>7, SentKept DEF SentInv
  <2>9. pc'["isr"] = "txCallback" /\ pc'["main"] = pc["main"] BY <2>1 DEF BaseInv, FlowInv
  <2>10. \A u \in Thread : pc'[u] \notin SendLabel
    BY <2>2, <2>9 DEF SenderInv, SendLabel, PollLabel, WaitLabel, FillLabel
  <2>11. ~Ending' BY <2>9 DEF Ending
  <2>12. pc'["main"] # "init" BY <2>2, <2>9 DEF SenderInv
  <2>13. pc'[Running'] = "txCallback" BY <2>9 DEF Running
  <2> QED BY <1>2, <2>1, <2>5, <2>8, <2>9, <2>10, <2>11, <2>12, <2>13 DEF SenderInv
<1>5. CASE TxDone
  <2>1. /\ pc["isr"] = "txDone" /\ pc' = [pc EXCEPT !["isr"] = "none"] /\ Tx' = Moved
        /\ UNCHANGED <<arg, gState, txs, done>>
    BY <1>5 DEF TxDone, At, To
  <2>2. gState = "READY" /\ pc["main"] \notin SendLabel BY <2>1 DEF SenderInv, Ended
  <2>3. SentInv' BY <1>1, <2>1, MovedIs, SentKept DEF SentInv
  <2>4. pc'["isr"] = "none" /\ pc'["main"] = pc["main"] BY <2>1 DEF BaseInv, FlowInv
  <2>5. \A u \in Thread : pc[u] \notin SendLabel /\ pc'[u] \notin SendLabel
    BY <2>1, <2>2, <2>4 DEF SendLabel, PollLabel, WaitLabel, FillLabel
  <2>6. Complete BY <2>2, <2>5 DEF SenderInv
  <2>7. Complete' BY <2>1, <2>6 DEF Complete, Reached, Last
  <2>8. ~Ending' /\ ~Ended' BY <2>4 DEF Ending, Ended, CallLabel
  <2>9. pc'["main"] # "init" BY <2>2, <2>4 DEF SenderInv
  <2>10. pc'[Running'] \notin {"txCheck", "txWaited"}
    BY <2>4, <2>5 DEF Running, SendLabel, PollLabel, WaitLabel
  <2> QED BY <1>2, <2>1, <2>2, <2>3, <2>4, <2>5, <2>7, <2>8, <2>9, <2>10 DEF SenderInv
<1> QED BY <1>3, <1>4, <1>5

\* Only what is sent is sent, by whoever it is.
LEMMA SentStep ==
  ASSUME SendsInTurn, BaseInv, TxOnInv, WireInv, SenderInv, SentInv, NEW ends \in BOOLEAN, Clock(ends)
  PROVE  WireInv' /\ SenderInv' /\ SentInv'
<1>1. TxOn => TxOn' BY TxOnKept
<1>2. ASSUME CpuWaits \/ ~Posts'
      PROVE  /\ WireInv' /\ Sent' = Sent /\ (Empty => Empty')
             /\ \A i \in DOMAIN out : i \in DOMAIN out' /\ out'[i] = out[i]
  BY <1>1, <1>2, WireRests
<1>3. Sent \in Seq(Pair) BY SentIs
<1>4. CASE CpuWaits
  <2>1. SenderInv' BY <1>2, <1>4, WaitKept
  <2>2. UNCHANGED <<Tx, arg, txs, done>> BY <1>4 DEF CpuWaits
  <2>3. SentInv' BY <1>2, <1>3, <1>4, <2>2, SentKept DEF SentInv
  <2> QED BY <1>2, <1>4, <2>1, <2>3
<1>5. CASE CpuMoves
  <2>1. bus = Idle /\ reg' = reg BY <1>5, CpuBus DEF BaseInv
  <2>2. CASE Quietly
    <3>1. ~Posts' BY <2>2 DEF Quietly, Posts
    <3>2. SenderInv' BY <1>2, <2>1, <2>2, <3>1, QuietKept
    <3>3. SentInv' BY <1>2, <1>3, <2>2, <3>1, SentKept DEF SentInv, Quietly
    <3> QED BY <1>2, <3>1, <3>2, <3>3
  <2>3. ASSUME NEW t \in Thread, TransmitStep(t) PROVE WireInv' /\ SenderInv' /\ SentInv'
    BY <2>1, <2>3, TransmitKept
  <2>4. CASE TxSend BY <2>1, <2>4, TxSendKept
  <2>5. ASSUME NEW t \in Thread, TxFill(t) \/ TxState(t) PROVE WireInv' /\ SenderInv' /\ SentInv'
    <3>1. ~Posts' BY <2>5, Fields DEF TxFill, TxState, To, Posts
    <3> QED BY <1>2, <2>1, <2>5, <3>1, TxFillKept
  <2>6. ASSUME NEW t \in Thread, NEW c \in AllCalls, StartSend(t, c) PROVE WireInv' /\ SenderInv' /\ SentInv'
    <3>1. ~Posts' BY <2>6, Fields DEF StartSend, StartCall, To, Posts
    <3> QED BY <1>2, <2>1, <2>6, <3>1, StartKept
  <2>7. CASE TxEnd \/ TxReady \/ TxDone
    <3>1. ~Posts' BY <2>7, Fields DEF TxEnd, TxReady, TxDone, To, Posts
    <3> QED BY <1>2, <2>1, <2>7, <3>1, TxEndKept
  <2>8. CASE UART_Init
    <3>1. ~Posts' BY <2>8, Fields DEF UART_Init, To, Posts
    <3> QED BY <1>2, <2>1, <2>8, <3>1, UartInitKept
  <2>9. Quietly \/ Sends BY <1>5, QuietOrSends DEF BaseInv, SentInv
  <2> QED BY <2>2, <2>3, <2>4, <2>5, <2>6, <2>7, <2>8, <2>9 DEF Sends
<1> QED BY <1>4, <1>5 DEF Clock

\* What holds in every state of a program that sends in turn.
TransmitInv == BaseInv /\ TxOnInv /\ WireInv /\ SenderInv /\ SentInv

\* It does.
LEMMA TransmitInvariant ==
  ASSUME SendsInTurn
  PROVE  Spec => []TransmitInv
<1>1. Init => TransmitInv
  <2> SUFFICES ASSUME Init PROVE TxOnInv /\ WireInv /\ SenderInv /\ SentInv BY InitBase DEF TransmitInv
  <2>1. /\ pc["main"] = "init" /\ pc["isr"] = "none" /\ Running = "main" /\ bus = Idle
        /\ bus.clock = 0 /\ bus.adr = "none" /\ gState = "RESET"
        /\ out = <<>> /\ txs = <<>> /\ Len(txs) = 0 /\ done = {} /\ tx_sr = Nothing /\ tx_busy_d = 1 /\ tx_busy = 1
        /\ tx_empty_n = 0 /\ cr = Reset
    BY Fields DEF Init, UartInit, Thread, Running
  <2>2. TxOnInv BY <2>1 DEF Init, TxOnInv, Thread, Early, Writing, Loaded, Interrupts, Reset
  <2>3. ~Posts /\ Sent = <<>> BY <2>1 DEF Posts, Sent, Flight
  <2>4. WireInv BY <2>1, <2>3 DEF WireInv, Bit
  <2>5. \A t \in Thread : pc[t] \notin SendLabel
    BY <2>1 DEF Thread, SendLabel, PollLabel, WaitLabel, FillLabel
  <2>6. Complete BY <2>1, <2>3 DEF Complete, Reached, Last
  <2>7. SenderInv
    BY <2>1, <2>3, <2>5, <2>6 DEF SenderInv, Ending, Ended, CallLabel, Thread
  <2>8. SentInv
    <3>1. arg \in Args BY DEF Init, Args
    <3>2. Tx \in TxValues BY DEF Init, TxValues
    <3> QED BY <2>1, <2>3, <3>1, <3>2 DEF SentInv
  <2> QED BY <2>2, <2>4, <2>7, <2>8
<1>2. TransmitInv /\ [Next]_vars => TransmitInv'
  <2> SUFFICES ASSUME BaseInv, TxOnInv, WireInv, SenderInv, SentInv, [Next]_vars
               PROVE  TxOnInv' /\ WireInv' /\ SenderInv' /\ SentInv'
    BY BaseStep DEF TransmitInv
  <2>1. CASE Next
    <3>1. PICK ends \in BOOLEAN : Clock(ends) BY <2>1 DEF Next
    <3> QED BY <3>1, TxOnStep, SentStep
  <2>2. CASE UNCHANGED vars
    <3> USE <2>2 DEF vars, swVars, uartVars
    <3>1. UNCHANGED <<Running, Writing, Early, TxOn, Posts, Empty, Sent, Last>>
      BY DEF Running, Writing, Early, TxOn, Posts, Empty, Sent, Flight, Last
    <3>2. UNCHANGED <<Complete, Ending, Ended, HandlerSends>>
      BY <3>1 DEF Complete, Reached, Ending, Ended, HandlerSends
    <3>3. TxOnInv' BY <3>1 DEF TxOnInv, Loaded
    <3>4. WireInv' BY <3>1 DEF WireInv
    <3>5. \A t \in Thread : Transmits(t)' <=> Transmits(t)
      BY <3>1, <3>2 DEF Transmits, Polled, Reached
    <3>6. SenderInv' BY <3>1, <3>2, <3>5 DEF SenderInv
    <3>7. SentInv' BY <3>1 DEF SentInv, Follows
    <3> QED BY <3>3, <3>4, <3>6, <3>7
  <2> QED BY <2>1, <2>2
<1> QED BY <1>1, <1>2, PTL DEF Spec

(***************************************************************************)
(* On the wire transmissions follow each other whole and in order, whether *)
(* UART_Transmit waits for each byte, UART_TX_Not_Full_IRQHandler sends    *)
(* them, or UART_TxCpltCallback starts the next one: no byte is written    *)
(* while the one before is still in TX_DATA, and none twice.               *)
(***************************************************************************)
THEOREM SentWhole ==
  ASSUME SendsInTurn
  PROVE  Spec => []SentInOrder
<1>1. TransmitInv => SentInOrder
  <2> SUFFICES ASSUME WireInv, SentInv PROVE SentInOrder BY DEF TransmitInv
  <2>1. out \in Seq(Pair) BY DEF WireInv
  <2>2. Len(out) <= Len(Sent) /\ \A i \in DOMAIN out : Sent[i] = out[i] BY <2>1 DEF Sent
  <2>3. out # <<>> => out[1] = <<1, 1>>
    <3> SUFFICES ASSUME out # <<>> PROVE out[1] = <<1, 1>> OBVIOUS
    <3>1. 1 \in DOMAIN out BY <2>1
    <3>2. Sent # <<>> BY <2>1 DEF Sent
    <3> QED BY <2>2, <3>1, <3>2 DEF SentInv
  <2>4. \A i \in 2 .. Len(out) : Follows(out[i - 1], out[i])
    <3> SUFFICES ASSUME NEW i \in 2 .. Len(out) PROVE Follows(out[i - 1], out[i]) OBVIOUS
    <3>1. i \in DOMAIN out /\ i - 1 \in DOMAIN out BY <2>1
    <3>2. Len(out) \in Nat /\ Len(Sent) \in Nat BY <2>1, SentIs
    <3>3. Follows(Sent[i - 1], Sent[i]) BY <2>2, <3>2 DEF SentInv
    <3> QED BY <2>2, <3>1, <3>3
  <2> QED BY <2>3, <2>4 DEF SentInOrder
<1> QED BY <1>1, TransmitInvariant, PTL

(***************************************************************************)
(* When UART_Transmit returns, and when UART_TxCpltCallback is called, the *)
(* last byte of the transfer has left, its stop bit included: both have    *)
(* seen the transmitter idle after they wrote that byte.                   *)
(***************************************************************************)
THEOREM SentByThen ==
  ASSUME SendsInTurn
  PROVE  Spec => []SentWhenDone
<1>1. TransmitInv => SentWhenDone BY DEF TransmitInv, SentInv, SentWhenDone
<1> QED BY <1>1, TransmitInvariant, PTL
==============================================================================
