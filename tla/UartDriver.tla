----------------------------- MODULE UartDriver -----------------------------
(***************************************************************************)
(* The UART driver (uart.c) on the UART without FIFO.  The main program    *)
(* calls the driver's functions in any order, the two interrupt handlers   *)
(* run between any two of its instructions, and their completion callbacks *)
(* call the driver too.  A peer sends bytes 1, 2, ... and takes what is    *)
(* sent.                                                                   *)
(*                                                                         *)
(* A step is a clock.  A register access takes three: the strobe, with     *)
(* which a write lands; the clock in which a read samples the register;    *)
(* the acknowledge.  The core may take longer before its next instruction. *)
(***************************************************************************)
EXTENDS Uart, Integers

CONSTANTS
  MainCall,            \* calls of the main program: [fn, size]
  TxCallback,          \* calls UART_TxCpltCallback makes, one at a time
  RxCallback,          \* and UART_RxCpltCallback
  PROMPT,              \* each byte is read before the next one has arrived
  MaxCalls, MaxBytes   \* bounds: calls, and bytes the peer sends

Function == {"Transmit", "Transmit_IT", "Receive", "Receive_IT", "TX_Enable", "TX_Disable",
             "TX_Reset", "RX_Enable", "RX_Disable", "RX_Reset"}

ASSUME UartDriverAssumption ==
  /\ MainCall \cup TxCallback \cup RxCallback \subseteq [fn : Function, size : Nat]
  /\ PROMPT \in BOOLEAN /\ MaxCalls \in Nat /\ MaxBytes \in Nat

VARIABLES
  pc,                  \* what main, and the handler, do next
  ret,                 \* where the handler goes on after a callback
  bus,                 \* the access under way: its register and its clock
  reg,                 \* what each thread read last
  arg,                 \* blocking calls: transfer, next byte, bytes left
  rmw,                 \* change of CONTROL under way: bits to set and to clear
  gState, RxState,     \* the handle: states
  Tx,                  \*   pTxBuffPtr (transfer and byte) and TxXferCount
  RxXferCount,
  txs,                 \* sizes of the transmissions begun
  done,                \* those that returned or called back
  rcv,                 \* bytes handed to the program
  calls

swVars == <<ret, reg, arg, rmw, gState, RxState, Tx, RxXferCount, txs, done, rcv, calls>>
vars == <<pc, bus, swVars, uartVars>>

Thread == {"main", "isr"}
W16 == 65536

------------------------------------------------------------------------------
(***************************************************************************)
(* Instructions.  Step is one that makes an access, or none, and changes   *)
(* nothing but the program counter.                                        *)
(***************************************************************************)
Idle == [adr |-> "none", we |-> FALSE, dat |-> Nothing, clock |-> 0]
ReadOf(adr) == [Idle EXCEPT !.adr = adr, !.clock = 1]
WriteOf(adr, dat) == [adr |-> adr, we |-> TRUE, dat |-> dat, clock |-> 1]

\* The handler runs first; it is not interrupted itself.
Running == IF pc["isr"] # "none" THEN "isr" ELSE "main"
At(t, label) == pc[t] = label /\ t = Running
To(t, label, access) == pc' = [pc EXCEPT ![t] = label] /\ bus' = access
Back(t) == IF t = "isr" THEN ret ELSE "ready"

Step(t, from, to, access) == At(t, from) /\ To(t, to, access) /\ UNCHANGED swVars

\* CONTROL |= set, or CONTROL &= ~clear.
Modified(t) == (reg[t].CONTROL \cup rmw[t].set) \ rmw[t].clear
Change(t, set, clear, to) == rmw' = [rmw EXCEPT ![t] = [set |-> set, clear |-> clear, to |-> to]]

ModifyStep(t) ==
  \/ Step(t, "modify", "write", ReadOf("CONTROL"))
  \/ Step(t, "write", rmw[t].to, WriteOf("CONTROL", Modified(t)))

(***************************************************************************)
(* UART_Init: SETUP, and the states.  Every application then calls         *)
(* UART_TX_Enable and UART_RX_Enable.                                      *)
(***************************************************************************)
UART_Init ==
  /\ At("main", "init") /\ To("main", "enable", WriteOf("SETUP", Nothing))
  /\ gState' = "READY" /\ RxState' = "READY"
  /\ UNCHANGED <<ret, reg, arg, rmw, Tx, RxXferCount, txs, done, rcv, calls>>

EnablePorts ==
  /\ \/ At("main", "enable") /\ Change("main", {"TX_EN"}, {}, "enableRx")
     \/ At("main", "enableRx") /\ Change("main", {"RX_EN"}, {}, "ready")
  /\ To("main", "modify", Idle)
  /\ UNCHANGED <<ret, reg, arg, gState, RxState, Tx, RxXferCount, txs, done, rcv, calls>>

------------------------------------------------------------------------------
(***************************************************************************)
(* The entry of a call, with its checks.                                   *)
(***************************************************************************)
Accepts(c) ==
  CASE c.fn \in {"Transmit", "Transmit_IT"} -> gState = "READY" /\ c.size > 0
    [] c.fn \in {"TX_Enable", "TX_Disable"} -> gState = "READY"
    [] c.fn \in {"RX_Enable", "RX_Disable", "Receive_IT"} -> RxState = "READY"
    [] OTHER -> TRUE

Bits(c) ==
  CASE c.fn = "TX_Enable"  -> [set |-> {"TX_EN"}, clear |-> {}]
    [] c.fn = "TX_Disable" -> [set |-> {}, clear |-> {"TX_EN"}]
    [] c.fn = "TX_Reset"   -> [set |-> {"TX_RST"}, clear |-> {}]
    [] c.fn = "RX_Enable"  -> [set |-> {"RX_EN"}, clear |-> {}]
    [] c.fn = "RX_Disable" -> [set |-> {}, clear |-> {"RX_EN"}]
    [] c.fn = "RX_Reset"   -> [set |-> {"RX_RST"}, clear |-> {}]

Entry(c) ==
  CASE c.fn = "Transmit"    -> "txPoll"
    [] c.fn = "Transmit_IT" -> "txFill"
    [] c.fn = "Receive"     -> "rxPoll"
    [] c.fn = "Receive_IT"  -> "rxFill"
    [] OTHER                -> "modify"

StartCall(t, c) ==
  /\ calls < MaxCalls /\ calls' = calls + 1
  /\ \/ ~Accepts(c) /\ To(t, Back(t), Idle) /\ UNCHANGED <<arg, rmw, txs>>
     \/ /\ Accepts(c) /\ To(t, Entry(c), Idle)
        /\ txs' = IF c.fn \in {"Transmit", "Transmit_IT"} THEN Append(txs, c.size) ELSE txs
        /\ arg' = [arg EXCEPT ![t] = [tx |-> Len(txs'), next |-> 1, left |-> c.size]]
        /\ IF Entry(c) = "modify" THEN Change(t, Bits(c).set, Bits(c).clear, Back(t))
           ELSE UNCHANGED rmw
  /\ UNCHANGED <<ret, reg, gState, RxState, Tx, RxXferCount, done, rcv>>

\* Main does not poll for the bytes that the handler is to receive.
MainCalls ==
  /\ At("main", "ready")
  /\ \E c \in MainCall :
       /\ c.fn = "Receive" => RxState = "READY"
       /\ StartCall("main", c)

------------------------------------------------------------------------------
(***************************************************************************)
(* UART_Transmit.                                                          *)
(***************************************************************************)
SendByte_NoCheck(t) ==
  /\ At(t, "txCheck")
  /\ To(t, IF arg[t].left = 1 THEN "txWait" ELSE "txPoll", WriteOf("TX_DATA", <<arg[t].tx, arg[t].next>>))
  /\ arg' = [arg EXCEPT ![t].next = @ + 1, ![t].left = @ - 1]
  /\ UNCHANGED <<ret, reg, rmw, gState, RxState, Tx, RxXferCount, txs, done, rcv, calls>>

SendByte(t) ==
  /\ At(t, "txCheck") /\ reg[t].TX_BUSY = 0
  /\ To(t, IF arg[t].left = 1 THEN "txWait" ELSE "txPoll", WriteOf("TX_DATA", <<arg[t].tx, arg[t].next>>))
  /\ arg' = [arg EXCEPT ![t].next = @ + 1, ![t].left = @ - 1]
  /\ UNCHANGED <<ret, reg, rmw, gState, RxState, Tx, RxXferCount, txs, done, rcv, calls>>

TransmitDone_NoWait(t) ==
  /\ At(t, "txWaited") /\ To(t, Back(t), Idle)
  /\ done' = done \cup {arg[t].tx}
  /\ UNCHANGED <<ret, reg, arg, rmw, gState, RxState, Tx, RxXferCount, txs, rcv, calls>>

TransmitDone(t) ==
  /\ At(t, "txWaited") /\ reg[t].TX_BUSY = 0 /\ To(t, Back(t), Idle)
  /\ done' = done \cup {arg[t].tx}
  /\ UNCHANGED <<ret, reg, arg, rmw, gState, RxState, Tx, RxXferCount, txs, rcv, calls>>

\* Mutant: the register is read once, before the loop.
TransmitStep_ReadOnce(t) ==
  \/ Step(t, "txPoll", "txCheck", ReadOf("TX_DATA"))
  \/ reg[t].TX_BUSY = 1 /\ Step(t, "txCheck", "txCheck", Idle)
  \/ SendByte(t)
  \/ Step(t, "txWait", "txWaited", ReadOf("TX_DATA"))
  \/ reg[t].TX_BUSY = 1 /\ Step(t, "txWaited", "txWait", Idle)
  \/ TransmitDone(t)

TransmitStep(t) ==
  \/ Step(t, "txPoll", "txCheck", ReadOf("TX_DATA"))
  \/ reg[t].TX_BUSY = 1 /\ Step(t, "txCheck", "txPoll", Idle)
  \/ SendByte(t)
  \/ Step(t, "txWait", "txWaited", ReadOf("TX_DATA"))
  \/ reg[t].TX_BUSY = 1 /\ Step(t, "txWaited", "txWait", Idle)
  \/ TransmitDone(t)

(***************************************************************************)
(* UART_Receive, which looks at no state.                                  *)
(***************************************************************************)
TakeByte_AnyByte(t) ==
  /\ At(t, "rxCheck")
  /\ To(t, IF arg[t].left = 1 THEN Back(t) ELSE "rxPoll", Idle)
  /\ rcv' = Append(rcv, reg[t].RX_BYTE)
  /\ arg' = [arg EXCEPT ![t].left = @ - 1]
  /\ UNCHANGED <<ret, reg, rmw, gState, RxState, Tx, RxXferCount, txs, done, calls>>

TakeByte(t) ==
  /\ At(t, "rxCheck") /\ reg[t].RX_EMPTY = 1
  /\ To(t, IF arg[t].left = 1 THEN Back(t) ELSE "rxPoll", Idle)
  /\ rcv' = Append(rcv, reg[t].RX_BYTE)
  /\ arg' = [arg EXCEPT ![t].left = @ - 1]
  /\ UNCHANGED <<ret, reg, rmw, gState, RxState, Tx, RxXferCount, txs, done, calls>>

ReceiveStep(t) ==
  \/ arg[t].left > 0 /\ Step(t, "rxPoll", "rxCheck", ReadOf("RX_DATA"))
  \/ arg[t].left = 0 /\ Step(t, "rxPoll", Back(t), Idle)
  \/ reg[t].RX_EMPTY = 0 /\ Step(t, "rxCheck", "rxPoll", Idle)
  \/ TakeByte(t)

(***************************************************************************)
(* UART_Transmit_IT and UART_Receive_IT, after the check: the buffer, the  *)
(* state, the interrupt.                                                   *)
(***************************************************************************)
TxFill(t) ==
  /\ At(t, "txFill") /\ To(t, "txState", Idle)
  /\ Tx' = [tx |-> arg[t].tx, next |-> 1, count |-> arg[t].left]
  /\ UNCHANGED <<ret, reg, arg, rmw, gState, RxState, RxXferCount, txs, done, rcv, calls>>

TxState_NoInterrupt(t) ==
  /\ At(t, "txState") /\ To(t, "modify", Idle)
  /\ gState' = "BUSY_TX" /\ Change(t, {}, {}, Back(t))
  /\ UNCHANGED <<ret, reg, arg, RxState, Tx, RxXferCount, txs, done, rcv, calls>>

TxState(t) ==
  /\ At(t, "txState") /\ To(t, "modify", Idle)
  /\ gState' = "BUSY_TX" /\ Change(t, {"TX_INT_EN"}, {}, Back(t))
  /\ UNCHANGED <<ret, reg, arg, RxState, Tx, RxXferCount, txs, done, rcv, calls>>

RxFill_NoInterrupt(t) ==
  /\ At(t, "rxFill") /\ To(t, "modify", Idle)
  /\ RxXferCount' = arg[t].left /\ RxState' = "BUSY_RX"
  /\ Change(t, {}, {}, Back(t))
  /\ UNCHANGED <<ret, reg, arg, gState, Tx, txs, done, rcv, calls>>

RxFill(t) ==
  /\ At(t, "rxFill") /\ To(t, "modify", Idle)
  /\ RxXferCount' = arg[t].left /\ RxState' = "BUSY_RX"
  /\ Change(t, {"RX_INT_EN"}, {}, Back(t))
  /\ UNCHANGED <<ret, reg, arg, gState, Tx, txs, done, rcv, calls>>

CallStep(t) ==
  \/ ModifyStep(t) \/ TransmitStep(t) \/ ReceiveStep(t)
  \/ TxFill(t) \/ TxState(t) \/ RxFill(t)

------------------------------------------------------------------------------
(***************************************************************************)
(* UART_RX_Not_Empty_IRQHandler.  It does not look at RX_EMPTY.  The state *)
(* is READY, and the counter moves, after the callback.                    *)
(***************************************************************************)
RxGot ==
  /\ At("isr", "rxGot") /\ rcv' = Append(rcv, reg["isr"].RX_BYTE)
  /\ \/ /\ RxXferCount = 1
        /\ To("isr", "modify", Idle) /\ Change("isr", {}, {"RX_INT_EN"}, "rxCallback")
        /\ ret' = "rxDone" /\ UNCHANGED RxXferCount
     \/ /\ RxXferCount # 1
        /\ To("isr", "none", Idle) /\ RxXferCount' = (RxXferCount + W16 - 1) % W16
        /\ UNCHANGED <<ret, rmw>>
  /\ UNCHANGED <<reg, arg, gState, RxState, Tx, txs, done, calls>>

RxDone ==
  /\ At("isr", "rxDone") /\ To("isr", "none", Idle)
  /\ RxState' = "READY" /\ RxXferCount' = (RxXferCount + W16 - 1) % W16
  /\ UNCHANGED <<ret, reg, arg, rmw, gState, Tx, txs, done, rcv, calls>>

RX_Not_Empty_IRQHandler ==
  \/ RxState # "BUSY_RX" /\ Step("isr", "rxIrq", "none", Idle)
  \/ RxState = "BUSY_RX" /\ Step("isr", "rxIrq", "rxGot", ReadOf("RX_DATA"))
  \/ RxGot
  \/ RxDone

(***************************************************************************)
(* UART_TX_Not_Full_IRQHandler.  The pointer and the counter move after    *)
(* the callback.                                                           *)
(***************************************************************************)
Moved == [Tx EXCEPT !.next = @ + 1, !.count = (@ + W16 - 1) % W16]

TxSend ==
  /\ At("isr", "txIrq") /\ gState = "BUSY_TX" /\ Tx.count # 0
  /\ To("isr", "return", WriteOf("TX_DATA", <<Tx.tx, Tx.next>>))
  /\ Tx' = Moved
  /\ UNCHANGED <<ret, reg, arg, rmw, gState, RxState, RxXferCount, txs, done, rcv, calls>>

TxEnd ==
  /\ At("isr", "txIrq") /\ gState = "BUSY_TX" /\ Tx.count = 0
  /\ To("isr", "modify", Idle)
  /\ Change("isr", {}, {"TX_INT_EN"}, "txReady") /\ ret' = "txDone"
  /\ UNCHANGED <<reg, arg, gState, RxState, Tx, RxXferCount, txs, done, rcv, calls>>

TxReady ==
  /\ At("isr", "txReady") /\ To("isr", "txCallback", Idle)
  /\ gState' = "READY" /\ done' = done \cup {Tx.tx}
  /\ UNCHANGED <<ret, reg, arg, rmw, RxState, Tx, RxXferCount, txs, rcv, calls>>

TxDone ==
  /\ At("isr", "txDone") /\ To("isr", "none", Idle)
  /\ Tx' = Moved
  /\ UNCHANGED <<ret, reg, arg, rmw, gState, RxState, RxXferCount, txs, done, rcv, calls>>

TX_Not_Full_IRQHandler ==
  \/ gState # "BUSY_TX" /\ Step("isr", "txIrq", "none", Idle)
  \/ TxSend \/ TxEnd \/ TxReady \/ TxDone
  \/ Step("isr", "return", "none", Idle)

(***************************************************************************)
(* The callbacks: nothing, or a call, after which the handler goes on.     *)
(***************************************************************************)
Callback(label, Calls) ==
  \/ Step("isr", label, ret, Idle)
  \/ At("isr", label) /\ \E c \in Calls : StartCall("isr", c)

HandlerStep ==
  \/ RX_Not_Empty_IRQHandler \/ TX_Not_Full_IRQHandler
  \/ Callback("rxCallback", RxCallback)
  \/ Callback("txCallback", TxCallback)
  \/ CallStep("isr")

(***************************************************************************)
(* The core takes an interrupt between instructions; the receiver's has    *)
(* the lower number and goes first.                                        *)
(***************************************************************************)
Interrupted == pc["isr"] = "none" /\ (o_uart_rx_int \/ o_uart_tx_int)

TakeInterrupt ==
  /\ Interrupted
  /\ To("isr", IF o_uart_rx_int THEN "rxIrq" ELSE "txIrq", Idle)
  /\ UNCHANGED swVars

CpuMoves ==
  /\ bus = Idle
  /\ \/ TakeInterrupt
     \/ HandlerStep
     \/ ~Interrupted /\ (UART_Init \/ EnablePorts \/ MainCalls \/ CallStep("main"))

\* A clock of waiting, in an access or for the next instruction.
CpuWaits ==
  /\ bus' = IF bus.clock \in {1, 2} THEN [bus EXCEPT !.clock = @ + 1] ELSE Idle
  /\ reg' = IF bus.clock = 2 /\ ~bus.we THEN [reg EXCEPT ![Running] = ReadData(bus.adr)] ELSE reg
  /\ UNCHANGED <<pc, ret, arg, rmw, gState, RxState, Tx, RxXferCount, txs, done, rcv, calls>>

(***************************************************************************)
(* The peer sends when it likes.                                           *)
(***************************************************************************)
PeerMay ==
  /\ in' <= MaxBytes
  /\ PROMPT /\ rx_stage = "bits" /\ rx_stage' = "pre_wr" => rx_empty_d = 0

DeviceStep(ends) ==
  /\ UartStep(bus.adr, bus.clock = 1, bus.we /\ bus.clock = 1, bus.dat, ends)
  /\ PeerMay

Init ==
  /\ UartInit
  /\ pc = [t \in Thread |-> IF t = "main" THEN "init" ELSE "none"]
  /\ ret = "none" /\ bus = Idle
  /\ reg = [t \in Thread |-> ReadData("none")]
  /\ arg = [t \in Thread |-> [tx |-> 0, next |-> 1, left |-> 0]]
  /\ rmw = [t \in Thread |-> [set |-> {}, clear |-> {}, to |-> "none"]]
  /\ gState = "RESET" /\ RxState = "RESET"
  /\ Tx = [tx |-> 0, next |-> 1, count |-> 0] /\ RxXferCount = 0
  /\ txs = <<>> /\ done = {} /\ rcv = <<>> /\ calls = 0

Clock(ends) == (CpuMoves \/ CpuWaits) /\ DeviceStep(ends)
Next == \E ends \in BOOLEAN : Clock(ends)

Spec == Init /\ [][Next]_vars

(***************************************************************************)
(* The clock runs, the core makes progress, a byte on a wire ends, and the *)
(* peer goes on sending.                                                   *)
(***************************************************************************)
FairSpec ==
  /\ Spec
  /\ WF_vars(Next)
  /\ WF_vars(\E ends \in BOOLEAN : CpuMoves /\ DeviceStep(ends))
  /\ WF_vars(Clock(TRUE))
  /\ WF_vars(\E ends \in BOOLEAN : Clock(ends) /\ rx_stage' # rx_stage)

------------------------------------------------------------------------------
TypeOK ==
  /\ UartTypeOK
  /\ bus.clock \in 0 .. 3 /\ bus.adr \in {"none", "SETUP", "CONTROL", "RX_DATA", "TX_DATA"}
  /\ gState \in {"RESET", "READY", "BUSY_TX"} /\ RxState \in {"RESET", "READY", "BUSY_RX"}
  /\ {Tx.count, RxXferCount} \subseteq 0 .. W16 - 1
  /\ txs \in Seq(Nat) /\ done \subseteq DOMAIN txs
  /\ rcv \in Seq(0 .. MaxBytes) /\ calls \in 0 .. MaxCalls

(***************************************************************************)
(* The bytes the program gets are the bytes that were sent, all of them,   *)
(* once and in order, whether it polls or the handler reads them: a read   *)
(* that meets an arriving byte does not clear its flag.                    *)
(***************************************************************************)
ReceivedInOrder == \A i \in DOMAIN rcv : rcv[i] = i

(***************************************************************************)
(* On the wire, transmissions follow each other whole and in order: each   *)
(* byte is the next one of its transfer, or the first of the next.         *)
(***************************************************************************)
Follows(a, b) ==
  \/ b = <<a[1], a[2] + 1>> /\ b[2] <= txs[b[1]]
  \/ b = <<a[1] + 1, 1>> /\ a[2] = txs[a[1]]
SentInOrder ==
  /\ out # <<>> => out[1] = <<1, 1>>
  /\ \A i \in 2 .. Len(out) : Follows(out[i - 1], out[i])

(***************************************************************************)
(* When UART_Transmit returns, and when UART_TxCpltCallback is called, the *)
(* last byte of the transfer has left, its stop bit included.              *)
(***************************************************************************)
SentWhenDone == \A k \in done : \E i \in DOMAIN out : out[i] = <<k, txs[k]>>

(***************************************************************************)
(* However late the program polls, and whatever it disables and resets     *)
(* meanwhile, no byte reaches it twice or behind a later one.  (0 is what  *)
(* is left of a byte cut off on the wire or by a reset.)                   *)
(***************************************************************************)
ReceivedOnce ==
  \A i, j \in DOMAIN rcv : i < j /\ rcv[i] # 0 /\ rcv[j] # 0 => rcv[i] < rcv[j]

(***************************************************************************)
(* Calls return and interrupt-driven transfers end, unless a reception has *)
(* had all the bytes there are, or the handler's "disable interrupt" was   *)
(* undone by a read-modify-write of CONTROL that it interrupted: then it   *)
(* runs for nothing, again and again.                                      *)
(***************************************************************************)
PeerSilent == in = MaxBytes /\ rx_stage = "idle" /\ rx_empty_d = 0
LeftEnabled ==
  \/ RxState = "READY" /\ "RX_INT_EN" \in cr
  \/ gState = "READY" /\ "TX_INT_EN" \in cr
CallsReturn == pc["main"] # "ready" ~> pc["main"] = "ready" \/ PeerSilent \/ LeftEnabled
TransmissionEnds == gState = "BUSY_TX" ~> gState = "READY" \/ LeftEnabled
ReceptionEnds == RxState = "BUSY_RX" ~> RxState = "READY" \/ PeerSilent \/ LeftEnabled

(***************************************************************************)
(* wbuart_no_fifo.v: "A flag is raised when rx has overflowed".            *)
(***************************************************************************)
OverflowFlagged == [][rx_stage = "wr" /\ rx_empty_d = 1 => r_rx_overflow' = 1]_vars
==============================================================================
