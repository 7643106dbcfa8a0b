------------------------------ MODULE I2cDriver ------------------------------
(***************************************************************************)
(* The I2C driver (i2c_master.c, v0.5) on the I2C master: the main program *)
(* calls the blocking and the interrupt-driven transfers in any order, the *)
(* interrupt handler runs between any two of its instructions, and the     *)
(* device goes on meanwhile.  Completion callbacks may start a transfer.   *)
(*                                                                         *)
(* An action is one clock of the I2C master.  The core makes a register    *)
(* access in one clock, spends the next one waiting for the acknowledge,   *)
(* and may take longer before its next instruction.  A read sees the       *)
(* registers in the clock of the request, a write lands in the one of the  *)
(* acknowledge.                                                            *)
(*                                                                         *)
(* The slaves on the wires are external: they may refuse any address or    *)
(* data byte, and send 1, 2, ... when read.                                *)
(***************************************************************************)
EXTENDS I2cMaster, Sequences

CONSTANTS
  BOOT_WRITEBACK,      \* how the boot loader was built
  Devices,             \* 7-bit addresses, with 0 for the read/write bit
  Sizes,               \* sizes of the transfers the program asks for
  MaxCalls,            \* bound on the transfers in a behaviour
  MaxRefusals          \* bound on the bytes the slaves do not acknowledge

ASSUME DriverAssumption ==
  /\ BOOT_WRITEBACK \in BOOLEAN
  /\ Sizes \subseteq Nat \ {0}
  /\ Devices \subseteq Nat /\ Devices # {} /\ Sizes # {}
  /\ \A d \in Devices : d % 2 = 0 /\ {d, d + 1} \subseteq Byte
  /\ \A n \in Sizes : 1 .. n \subseteq Byte
  /\ MaxCalls \in Nat /\ MaxRefusals \in Nat

VARIABLES
  pc,                  \* what main, and the handler, do next
  arg,                 \* arguments of the transfer each of them works on
  n,                   \* blocking transfers: bytes done, the address included
  bus,                 \* the access under way: None, Other or a Write
  State,               \* the handle: i2c->State
  IT,                  \*   Interupt_Transmit and Interupt_Receive; size is what was asked
  buf,                 \* the bytes put into the receive buffer
  calls,
  slave, sel, got,     \* the slaves: state, device selected, bytes it was sent
  nxt,                 \*   the byte it sends next
  sda,                 \*   the acknowledge bit it drives
  refusals, refused    \*   bytes refused: so far, and whether this transfer had one

cpuVars == <<pc, arg, n, bus, State, IT, buf, calls>>
slaveVars == <<slave, sel, got, nxt, sda, refusals, refused>>
vars == <<cpuVars, slaveVars, i2cVars>>

Thread == {"main", "isr"}
Direction == {"tx", "rx"}
Call == [mode : {"blocking", "IT"}, dir : Direction, dev : Devices, size : Sizes]

------------------------------------------------------------------------------
(***************************************************************************)
(* Instructions.  Step is one that makes an access and touches nothing but *)
(* the program counter; To is the same with more to say.                   *)
(***************************************************************************)
None == <<"none", {}>>
Other == <<"other", {}>>                               \* a register read, or memory
Write(adr, dat) == <<adr, dat>>
NoAccess == bus = None

\* The handler runs first; it is not interrupted itself.
At(t, label) == pc[t] = label /\ t = IF pc["isr"] # "none" THEN "isr" ELSE "main"
To(t, label, access) == pc' = [pc EXCEPT ![t] = label] /\ bus' = access
Back(t) == IF t = "isr" THEN "none" ELSE "ready"

Step(t, from, to, access) ==
  At(t, from) /\ To(t, to, access) /\ UNCHANGED <<arg, n, State, IT, buf, calls>>

Acknowledged == "RXACK" \notin Status
If(p, bit) == IF p THEN {bit} ELSE {}
BUSY(d) == IF d = "tx" THEN "BUSY_TX_IT" ELSE "BUSY_RX_IT"
AddressByte(d, dev) == IF d = "tx" THEN dev ELSE dev + 1

(***************************************************************************)
(* OC_I2C_Init.  It acknowledges a pending interrupt with a read-modify-   *)
(* write of the command register, whose bits mean something else when      *)
(* read, after it disabled the core.                                       *)
(***************************************************************************)
InitStep ==
  \/ slave = "idle" /\ Step("main", "init", "initDisable", Other)
  \/ Step("main", "initDisable", "initFlag", Write("CTR", {}))
  \/ Step("main", "initFlag", IF "IF" \in Status THEN "initAck" ELSE "initEnable", Other)
  \/ Step("main", "initAck", "initEnable", Write("CR", {"IACK"} \cup If(~Acknowledged, "STA")))
  \/ Step("main", "initEnable", "ready", Write("CTR", {"EN"}))

(***************************************************************************)
(* A call.  A transfer while another is under way is refused.              *)
(***************************************************************************)
StartCall(t, c) ==
  /\ calls < MaxCalls /\ calls' = calls + 1
  /\ \/ /\ State = "READY"
        /\ To(t, IF c.mode = "IT" THEN "itEnable" ELSE "byte", None)
        /\ arg' = [arg EXCEPT ![t] = c]
        /\ n' = 0
        /\ buf' = IF c.mode = "blocking" THEN <<>> ELSE buf
     \/ State # "READY" /\ To(t, pc[t], None) /\ UNCHANGED <<arg, n, buf>>
  /\ UNCHANGED <<State, IT>>

MainCalls == At("main", "ready") /\ \E c \in Call : StartCall("main", c)

------------------------------------------------------------------------------
(***************************************************************************)
(* Blocking transfers: OC_I2C_Master_Send_Byte and _Read_Byte for byte n,  *)
(* where byte 0 is the address, sent until it is acknowledged.             *)
(***************************************************************************)
c0 == arg["main"]
Sending == n = 0 \/ c0.dir = "tx"
LastByte == n = c0.size
ByteOut == IF n = 0 THEN AddressByte(c0.dir, c0.dev) ELSE n

\* Mutant: the last byte of a transmission is sent without STOP.
Flags_NoStop ==
  IF n = 0 THEN {"STA", "WR"}
  ELSE IF c0.dir = "tx" THEN {"WR"}
  ELSE {"RD"} \cup If(LastByte, "ACK")

Flags ==
  IF n = 0 THEN {"STA", "WR"}
  ELSE IF c0.dir = "tx" THEN {"WR"} \cup If(LastByte, "STO")
  ELSE {"RD"} \cup If(LastByte, "ACK")

AfterCommand_NoNop == "poll"
AfterCommand == "nop"

\* Mutants: the address is sent once; any byte is repeated.
Repeats_Never == FALSE
Repeats_AnyByte == Sending /\ ~Acknowledged
Repeats == n = 0 /\ ~Acknowledged

Result ==
  /\ At("main", "result")
  /\ \/ Repeats /\ To("main", "byte", Other) /\ UNCHANGED <<n, buf>>
     \/ /\ ~Repeats
        /\ To("main", IF ~LastByte THEN "byte" ELSE IF c0.dir = "rx" THEN "stop" ELSE "iack", Other)
        /\ n' = n + 1
        /\ buf' = IF Sending THEN buf ELSE Append(buf, sr)
  /\ UNCHANGED <<arg, State, IT, calls>>

BlockingStep ==
  \/ Sending /\ Step("main", "byte", "command", Write("TXR", ByteOut))
  \/ ~Sending /\ Step("main", "byte", AfterCommand, Write("CR", Flags))
  \/ Step("main", "command", AfterCommand, Write("CR", Flags))
  \/ Step("main", "nop", "poll", None)
  \/ Step("main", "poll", IF "TIP" \in Status THEN "poll" ELSE "result", Other)
  \/ Result
  \/ Step("main", "stop", "iack", Write("CR", {"STO"}))
  \/ Step("main", "iack", "ready", Write("CR", {"IACK"}))

------------------------------------------------------------------------------
(***************************************************************************)
(* Interrupt-driven transfers.  The handle is filled in after interrupts   *)
(* are enabled.                                                            *)
(***************************************************************************)
dir(t) == arg[t].dir

ENABLE_INT_Lost == ctr
ENABLE_INT == ctr \cup {"IEN"}
DISABLE_INT == ctr \ {"IEN"}

IT_Enable(t) ==
  /\ At(t, "itEnable") /\ To(t, "itState", Write("CTR", ENABLE_INT))
  /\ State' = BUSY(dir(t))
  /\ UNCHANGED <<arg, n, IT, buf, calls>>

IT_State(t) ==
  /\ At(t, "itState") /\ To(t, "itFields", Other)
  /\ IT' = [IT EXCEPT ![dir(t)].state = "READY"]
  /\ UNCHANGED <<arg, n, State, buf, calls>>

IT_Fields(t) ==
  /\ At(t, "itFields") /\ To(t, "sequence", Other)
  /\ IT' = [IT EXCEPT ![dir(t)] = [state |-> @.state, dev |-> arg[t].dev, next |-> 1,
                                   left |-> arg[t].size, size |-> arg[t].size]]
  /\ buf' = IF dir(t) = "rx" THEN <<>> ELSE buf
  /\ UNCHANGED <<arg, n, State, calls>>

(***************************************************************************)
(* OC_I2C_IRQHandler.  The core takes the interrupt when the instruction   *)
(* under way is over.                                                      *)
(***************************************************************************)
Interrupted == inta = 1 /\ pc["isr"] = "none"

IRQ_Ack == Step("isr", "irqAck", "irqDispatch", Write("CR", {"IACK"}))

IRQ_Dispatch ==
  /\ At("isr", "irqDispatch")
  /\ \/ /\ \E d \in Direction : State = BUSY(d) /\ arg' = [arg EXCEPT !["isr"].dir = d]
        /\ To("isr", "sequence", None)
     \/ State = "READY" /\ To("isr", "none", None) /\ UNCHANGED arg
  /\ UNCHANGED <<n, State, IT, buf, calls>>

(***************************************************************************)
(* OC_I2C_Master_Transmit_IT_Sequence and _Receive_IT_Sequence, for the    *)
(* direction of the caller.  They run in main for the first step of a      *)
(* transfer and in the handler for the others.  Move is a step that goes   *)
(* on to another state of the transfer.                                    *)
(***************************************************************************)
In(t, state) == pc[t] = "sequence" /\ IT[dir(t)].state = state
InDir(t, d, state) == In(t, state) /\ dir(t) = d

Move(t, from, to, access, state) ==
  /\ At(t, from) /\ To(t, to, access)
  /\ IT' = [IT EXCEPT ![dir(t)].state = state]
  /\ UNCHANGED <<arg, n, State, buf, calls>>

\* The address: sent again until it is acknowledged.
AfterAddress_Unchecked == "DATA"
AfterAddress == IF Acknowledged THEN "DATA" ELSE "READY"

AddressSequence(t) ==
  \/ In(t, "ADDRESS") /\ Move(t, "sequence", "sequence", Other, AfterAddress)
  \/ In(t, "READY") /\ Step(t, "sequence", "seqStart", Write("TXR", AddressByte(dir(t), IT[dir(t)].dev)))
  \/ Step(t, "seqStart", "seqStarted", Write("CR", {"STA", "WR"}))
  \/ Move(t, "seqStarted", Back(t), None, "ADDRESS")

\* Transmit: a byte per interrupt, the last one with STOP.
Tx_Sent(t) ==
  /\ At(t, "txSent") /\ To(t, Back(t), None)
  /\ IT' = [IT EXCEPT !["tx"].next = @ + 1, !["tx"].left = @ - 1]
  /\ UNCHANGED <<arg, n, State, buf, calls>>

Tx_End(t) ==
  /\ InDir(t, "tx", "END")
  /\ At(t, "sequence") /\ To(t, "complete", Write("CTR", DISABLE_INT))
  /\ IT' = [IT EXCEPT !["tx"].state = "READY"] /\ State' = "READY"
  /\ UNCHANGED <<arg, n, buf, calls>>

TransmitSequence(t) ==
  \/ /\ InDir(t, "tx", "DATA")
     /\ \/ ~Acknowledged /\ Move(t, "sequence", "sequence", Other, "END")
        \/ Acknowledged /\ IT["tx"].left = 1 /\ Move(t, "sequence", "txLast", Other, "END")
        \/ Acknowledged /\ IT["tx"].left # 1 /\ Step(t, "sequence", "txByte", Other)
  \/ Step(t, "txByte", "txCommand", Write("TXR", IT["tx"].next))
  \/ Step(t, "txLast", "txLastCommand", Write("TXR", IT["tx"].next))
  \/ Step(t, "txCommand", "txSent", Write("CR", {"WR"}))
  \/ Step(t, "txLastCommand", "txSent", Write("CR", {"WR", "STO"}))
  \/ Tx_Sent(t)
  \/ Tx_End(t)

\* Receive: take the byte that was read, ask for the next one.
AskFlags_NackLate == {"RD"} \cup If(IT["rx"].left = 0, "ACK")
AskFlags == {"RD"} \cup If(IT["rx"].left = 1, "ACK")

Rx_Take(t) ==
  /\ At(t, "rxTake") /\ To(t, "sequence", Other)
  /\ buf' = Append(buf, sr)
  /\ IT' = [IT EXCEPT !["rx"].state = "DATA"]
  /\ UNCHANGED <<arg, n, State, calls>>

Rx_Asked(t) ==
  /\ At(t, "rxAsked") /\ To(t, Back(t), None)
  /\ IT' = [IT EXCEPT !["rx"].state = "GET_DATA", !["rx"].left = @ - 1]
  /\ UNCHANGED <<arg, n, State, buf, calls>>

Rx_End(t) ==
  /\ InDir(t, "rx", "END")
  /\ At(t, "sequence") /\ To(t, "rxDisable", Other)
  /\ buf' = Append(buf, sr)
  /\ IT' = [IT EXCEPT !["rx"].state = "READY"] /\ State' = "READY"
  /\ UNCHANGED <<arg, n, calls>>

Rx_Stop_Missing(t) == Step(t, "rxStop", "complete", None)
Rx_Stop(t) == Step(t, "rxStop", "complete", Write("CR", {"STO"}))

ReceiveSequence(t) ==
  \/ /\ InDir(t, "rx", "GET_DATA")
     /\ \/ Acknowledged /\ Step(t, "sequence", "rxTake", Other)
        \/ ~Acknowledged /\ Move(t, "sequence", "sequence", Other, "END")
  \/ Rx_Take(t)
  \/ InDir(t, "rx", "DATA") /\ Step(t, "sequence", "rxAsked", Write("CR", AskFlags))
  \/ Rx_Asked(t)
  \/ Rx_End(t)
  \/ Step(t, "rxDisable", "rxStop", Write("CTR", DISABLE_INT))
  \/ Rx_Stop(t)

\* The completion callback: it does nothing, or starts another transfer.
Callback(t) ==
  \/ Step(t, "complete", Back(t), None)
  \/ At(t, "complete") /\ \E c \in Call : c.mode = "IT" /\ StartCall(t, c)

SequenceStep(t) ==
  \/ IT_Enable(t) \/ IT_State(t) \/ IT_Fields(t)
  \/ AddressSequence(t) \/ TransmitSequence(t) \/ ReceiveSequence(t)
  \/ Callback(t)

------------------------------------------------------------------------------
(***************************************************************************)
(* The core: an instruction, the interrupt, or a clock of waiting.         *)
(***************************************************************************)
CpuMoves ==
  /\ NoAccess
  /\ \/ Interrupted /\ To("isr", "irqAck", None) /\ UNCHANGED <<arg, n, State, IT, buf, calls>>
     \/ IRQ_Ack \/ IRQ_Dispatch \/ SequenceStep("isr")
     \/ ~Interrupted /\ (InitStep \/ MainCalls \/ BlockingStep \/ SequenceStep("main"))

CpuWaits == bus' = None /\ UNCHANGED <<pc, arg, n, State, IT, buf, calls>>

(***************************************************************************)
(* The slaves.                                                             *)
(***************************************************************************)
Refuses ==
  /\ refusals < MaxRefusals /\ refusals' = refusals + 1
  /\ sda' = 1

Slave_Start ==
  /\ slave' = "address" /\ refused' = FALSE
  /\ UNCHANGED <<sel, got, nxt, sda, refusals>>

Slave_Address ==
  /\ slave = "address"
  /\ \/ /\ \E d \in Devices :
             /\ sr \in {d, d + 1}
             /\ sel' = d /\ slave' = IF sr = d THEN "receives" ELSE "sends"
        /\ got' = <<>> /\ nxt' = 1 /\ sda' = 0
        /\ UNCHANGED refusals
     \/ slave' = "deaf" /\ Refuses /\ UNCHANGED <<sel, got, nxt>>
     \/ /\ \A d \in Devices : sr \notin {d, d + 1}
        /\ slave' = "deaf" /\ sda' = 1
        /\ UNCHANGED <<sel, got, nxt, refusals>>
  /\ UNCHANGED refused

Slave_Data ==
  /\ slave = "receives"
  /\ \/ got' = Append(got, sr) /\ sda' = 0 /\ UNCHANGED <<slave, refusals, refused>>
     \/ slave' = "deaf" /\ refused' = TRUE /\ Refuses /\ UNCHANGED got
  /\ UNCHANGED <<sel, nxt>>

Slave_Deaf ==
  /\ slave \in {"deaf", "sends", "idle"}
  /\ sda' = 1
  /\ UNCHANGED <<slave, sel, got, nxt, refusals, refused>>

Slave_Sent(ev) ==
  /\ nxt' = IF slave = "sends" THEN nxt + 1 ELSE nxt
  /\ slave' = IF ev = "nack" /\ slave = "sends" THEN "deaf" ELSE slave
  /\ UNCHANGED <<sel, got, sda, refusals, refused>>

Slave_Stop ==
  /\ slave' = "idle"
  /\ UNCHANGED <<sel, got, nxt, sda, refusals, refused>>

SlaveStep(ev) ==
  \/ ev = "start" /\ Slave_Start
  \/ ev = "byte" /\ (Slave_Address \/ Slave_Data \/ Slave_Deaf)
  \/ ev \in {"ack", "nack"} /\ Slave_Sent(ev)
  \/ ev = "stop" /\ Slave_Stop
  \/ ev = "none" /\ UNCHANGED slaveVars

SlaveTx == IF slave = "sends" THEN nxt ELSE 0

------------------------------------------------------------------------------
WriteAdr == IF bus[1] = "other" THEN "none" ELSE bus[1]
WriteDat == bus[2]

(***************************************************************************)
(* A byte on the wires (1800 clocks at 400 kHz and 80 MHz) outlasts the    *)
(* handler, and the instructions with which main starts a transfer.  A     *)
(* START or STOP may end among them.                                       *)
(***************************************************************************)
StartsTransfer == pc["main"] \in {"itState", "itFields", "sequence", "seqStart", "seqStarted"}
HandlerDue == pc["isr"] # "none" \/ (irq_flag = 1 /\ "IEN" \in ctr)
ByteOutlasts(core_ack) ==
  core_ack = 1 /\ (StartsTransfer \/ HandlerDue) => c_state \in {"IDLE", "START", "STOP"}

DeviceStep(core_ack) ==
  /\ ByteOutlasts(core_ack)
  /\ I2cStep(core_ack, SlaveTx, sda, WriteAdr, WriteDat)
  /\ SlaveStep(BusEvent(core_ack))

(***************************************************************************)
(* The I2C master is as reset left it (BOOT_SKIP) or as the boot loader    *)
(* did: enabled, with the interrupt flag set, which it never acknowledges, *)
(* and with the last acknowledge bit it saw: its own, for the last byte    *)
(* read, or with write-back the EEPROM's.                                  *)
(***************************************************************************)
Init ==
  /\ pc = [t \in Thread |-> IF t = "main" THEN "init" ELSE "none"]
  /\ arg = [t \in Thread |-> CHOOSE c \in Call : TRUE]
  /\ n = 0 /\ bus = None /\ State = "READY"
  /\ IT = [d \in Direction |-> [state |-> "READY", dev |-> 0, next |-> 1, left |-> 0, size |-> 0]]
  /\ buf = <<>> /\ calls = 0
  /\ slave = "idle" /\ sel = 0 /\ got = <<>> /\ nxt = 1 /\ sda = 1
  /\ refusals = 0 /\ refused = FALSE
  /\ ctr \in {{}, {"EN"}} /\ txr = 0 /\ cr = {}
  /\ tip = 0 /\ inta = 0 /\ cmd_ack = 0
  /\ c_state = "IDLE" /\ sr = 0
  /\ irq_flag = One(ctr # {})
  /\ ack_out = (IF BOOT_WRITEBACK THEN 0 ELSE irq_flag) /\ rxack = ack_out

Next ==
  \/ \E core_ack \in Bit : CpuMoves /\ DeviceStep(core_ack)
  \/ \E core_ack \in Bit : CpuWaits /\ DeviceStep(core_ack)

Spec == Init /\ [][Next]_vars

(***************************************************************************)
(* The clock runs, the core makes progress, an I2C phase ends.             *)
(***************************************************************************)
FairSpec ==
  /\ Spec
  /\ WF_vars(Next)
  /\ WF_vars(\E core_ack \in Bit : CpuMoves /\ DeviceStep(core_ack))
  /\ WF_vars(c_state # "IDLE" /\ (CpuMoves \/ CpuWaits) /\ DeviceStep(1))

------------------------------------------------------------------------------
(***************************************************************************)
(* The handle stays consistent: the counters never run below zero, however *)
(* many interrupts a transfer sees.                                        *)
(***************************************************************************)
TypeOK ==
  /\ I2cTypeOK
  /\ State \in {"READY", "BUSY_TX_IT", "BUSY_RX_IT"}
  /\ \A d \in Direction :
       /\ IT[d].state \in {"READY", "ADDRESS", "DATA", "GET_DATA", "END"}
       /\ IT[d].left \in Nat /\ IT[d].next \in Nat \ {0}
  /\ arg \in [Thread -> Call]
  /\ calls \in 0 .. MaxCalls /\ refusals \in 0 .. MaxRefusals

Upto(k) == [i \in 1 .. k |-> i]

(***************************************************************************)
(* When a blocking transfer looks at the acknowledge or at the byte it     *)
(* received, its command is over: TIP rises late, but the nop is enough.   *)
(***************************************************************************)
ResultIsFinal ==
  pc["main"] = "result" /\ NoAccess =>
    c_state = "IDLE" /\ cr \cap Command = {} /\ rxack = ack_out

(***************************************************************************)
(* A transmission that ends, blocking or at its callback, has given one    *)
(* device all bytes, once and in order, unless one was refused: the device *)
(* it names, if it is blocking.                                            *)
(***************************************************************************)
TransmitDelivers ==
  /\ pc["main"] = "iack" /\ c0.dir = "tx" /\ ~refused =>
       sel = c0.dev /\ got = Upto(c0.size)
  /\ \A t \in Thread : pc[t] = "complete" /\ dir(t) = "tx" /\ State = "READY" /\ ~refused =>
       got = Upto(IT["tx"].size)

(***************************************************************************)
(* An interrupt-driven transmission that is reported done has gone to the  *)
(* device it names.  (It need not, when there are several.)                *)
(***************************************************************************)
ReachesDevice ==
  \A t \in Thread : pc[t] = "complete" /\ dir(t) = "tx" /\ State = "READY" /\ ~refused =>
    sel = IT["tx"].dev

(***************************************************************************)
(* A reception that ends has all the bytes in its buffer, in order.        *)
(***************************************************************************)
ReceiveDelivers ==
  /\ pc["main"] = "stop" => buf = Upto(c0.size)
  /\ \A t \in Thread : pc[t] = "complete" /\ dir(t) = "rx" =>
       buf = Upto(IT["rx"].size)

(***************************************************************************)
(* At rest the wires are free: the last transfer has sent its STOP.  (When *)
(* a data byte of an interrupt-driven transmission is refused, it has not.)*)
(***************************************************************************)
AtRest ==
  /\ pc["main"] = "ready" /\ pc["isr"] = "none" /\ State = "READY"
  /\ NoAccess /\ c_state = "IDLE" /\ cmd_ack = 0 /\ cr \subseteq {"ACK"}

BusReleased == AtRest /\ ~refused => slave = "idle"

(***************************************************************************)
(* Calls return and interrupt-driven transfers end.                        *)
(***************************************************************************)
CallsReturn == pc["main"] # "ready" ~> pc["main"] = "ready"
TransfersEnd == State # "READY" ~> State = "READY"
==============================================================================
