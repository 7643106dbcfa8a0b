--------------------------- MODULE I2cDriverProofs ---------------------------
(***************************************************************************)
(* Proofs about the I2C driver on the I2C master, for any devices with     *)
(* even addresses, sizes, number of transfers and number of refusals.      *)
(* BOOT_WRITEBACK = FALSE is assumed where it matters: after a write-back  *)
(* the flag of the boot loader's STOP makes the first transfer wrong.      *)
(***************************************************************************)
EXTENDS I2cDriver, TLAPS

------------------------------------------------------------------------------
(***************************************************************************)
(* Where the two threads can be.                                           *)
(***************************************************************************)
InitLabel == {"init", "initDisable", "initFlag", "initAck", "initEnable"}
BlockingLabel == {"byte", "command", "nop", "poll", "result", "stop", "iack"}
Starting == {"itState", "itFields", "sequence", "seqStart", "seqStarted"}
MainLabel == InitLabel \cup BlockingLabel \cup Starting \cup {"ready", "itEnable"}
IsrLabel == Starting \cup
  {"none", "irqAck", "irqDispatch", "itEnable", "complete", "rxDisable", "rxStop", "rxTake",
   "rxAsked", "txByte", "txLast", "txCommand", "txLastCommand", "txSent"}

ItState == {"READY", "ADDRESS", "DATA", "GET_DATA", "END"}
Handle == [state : ItState, dev : Devices \cup {0}, next : Nat, left : Nat, size : Nat]

DeviceTypes ==
  /\ cr \subseteq CrBit /\ ctr \subseteq CtrBit
  /\ ack_out \in Bit /\ rxack \in Bit /\ irq_flag \in Bit /\ inta \in Bit /\ cmd_ack \in Bit
  /\ tip \in Bit /\ sda \in Bit /\ c_state \in Phase \cup {"IDLE"} /\ nxt \in Nat

Types ==
  /\ pc \in [Thread -> MainLabel \cup IsrLabel]
  /\ pc["main"] \in MainLabel /\ pc["isr"] \in IsrLabel
  /\ arg \in [Thread -> Call] /\ n \in Nat
  /\ State \in {"READY", "BUSY_TX_IT", "BUSY_RX_IT"}
  /\ IT \in [Direction -> Handle]
  /\ bus = <<bus[1], bus[2]>> /\ bus[1] \in {"none", "other", "CTR", "TXR", "CR"}
  /\ bus[1] = "CTR" => bus[2] \subseteq CtrBit
  /\ bus[1] = "CR" => bus[2] \subseteq CrBit
  /\ DeviceTypes

Cmds == cr \cap Command
NoWrite == bus = None \/ bus = Other
CtrNext == IF bus[1] = "CTR" THEN bus[2] ELSE ctr
TxrNext == IF bus[1] = "TXR" THEN bus[2] ELSE txr

(***************************************************************************)
(* The control register: enabled once the driver is initialised, with      *)
(* interrupts off while no transfer is under way.                          *)
(***************************************************************************)
Enabled ==
  /\ pc["main"] \notin InitLabel => "EN" \in CtrNext
  /\ pc["main"] \in {"initFlag", "initAck", "initEnable"} => CtrNext = {}
  /\ State = "READY" /\ pc["isr"] # "rxDisable" => "IEN" \notin CtrNext
  /\ State # "READY" => "IEN" \in CtrNext
  /\ State = "READY" /\ pc["isr"] = "none" => inta = 0 /\ "IEN" \notin ctr

(***************************************************************************)
(* The interrupt request: seen by the program, it is for a flag that is    *)
(* set; and the acknowledge stays in the command register for a clock.     *)
(***************************************************************************)
Requests ==
  /\ pc["isr"] = "none" /\ inta = 1 => irq_flag = 1
  /\ "IACK" \in cr => bus = None /\ (pc["isr"] = "irqDispatch" \/ (pc["isr"] = "none" /\ State = "READY"))

Owned == \A d \in Direction : IT[d].state # "READY" => State = BUSY(d)

(***************************************************************************)
(* The device.  Calm: nothing under way.  StopTail: the STOP of a reception is *)
(* still to come, under way or just over, and the acknowledge bit is the   *)
(* master's own, 1.                                                        *)
(***************************************************************************)
Calm == c_state = "IDLE" /\ cmd_ack = 0 /\ Cmds = {} /\ rxack = ack_out
StopTail ==
  /\ ack_out = 1 /\ rxack = 1
  /\ c_state \in {"IDLE", "STOP"} /\ Cmds \subseteq {"STO"}
  /\ c_state = "STOP" => cmd_ack = 0
Between == Calm \/ StopTail

Freed ==
  \/ slave = "idle" \/ refused
  \/ c_state = "STOP"
  \/ c_state = "IDLE" /\ cmd_ack = 0 /\ "STO" \in cr
  \/ bus = Write("CR", {"STO"})

\* An address byte of the set X has been answered by the device it names.
Selected(d, X) ==
  /\ got = <<>> /\ nxt = 1 /\ sel \in Devices /\ AddressByte(d, sel) \in X
  /\ slave = IF d = "tx" THEN "receives" ELSE "sends"

AddressBusy(d, X) ==
  /\ Cmds = {"STA", "WR"} /\ cmd_ack = 0 /\ txr \in X
  /\ \/ c_state \in {"IDLE", "START"}
     \/ c_state = "WRITE" /\ slave = "address" /\ sr \in X
     \/ c_state = "RXACK" /\ (sda = 0 => Selected(d, X))

Answered(d, X) == c_state = "IDLE" /\ cmd_ack = 1 /\ (ack_out = 0 => Selected(d, X))

AddressFly(d, X) ==
  \/ AddressBusy(d, X)
  \/ Cmds = {"STA", "WR"} /\ c_state = "STOP" /\ cmd_ack = 0 /\ ack_out = 1 /\ rxack = 1 /\ txr \in X
  \/ Cmds = {"STA", "WR"} /\ Answered(d, X)
  \/ Calm /\ (ack_out = 0 => Selected(d, X))

\* Bytes to the device: k of them are there, or one was refused.
Ended(W, k) ==
  \/ ack_out = 0 /\ got = Upto(k) /\ slave = IF "STO" \in W THEN "idle" ELSE "receives"
  \/ ack_out = 1 /\ refused /\ slave = IF "STO" \in W THEN "idle" ELSE "deaf"

SendBusy(W, k) ==
  /\ Cmds = W /\ cmd_ack = 0
  /\ \/ c_state = "IDLE" /\ txr = k /\ Ended({"WR"}, k - 1)
     \/ c_state = "WRITE" /\ sr = k /\ Ended({"WR"}, k - 1)
     \/ /\ c_state = "RXACK"
        /\ \/ sda = 0 /\ got = Upto(k) /\ slave = "receives"
           \/ sda = 1 /\ refused /\ slave = "deaf"
     \/ c_state = "STOP" /\ "STO" \in W /\ Ended({"WR"}, k)

SendFly(W, k) ==
  \/ SendBusy(W, k)
  \/ Cmds = W /\ cmd_ack = 1 /\ c_state = "IDLE" /\ Ended(W, k)
  \/ Calm /\ Ended(W, k)

\* Bytes from the device: it has sent k of them.
Got(last, k) ==
  /\ sr = k /\ nxt = k + 1 /\ ack_out = One(last)
  /\ slave = IF last THEN "deaf" ELSE "sends"

ReadFly(last, k) ==
  \/ /\ Cmds = {"RD"} /\ cmd_ack = 0 /\ ("ACK" \in cr <=> last)
     /\ slave = "sends" /\ nxt = k
     /\ (c_state \in {"IDLE", "READ"} \/ (c_state = "TXACK" /\ sr = k))
  \/ Cmds = {"RD"} /\ cmd_ack = 1 /\ c_state = "IDLE" /\ Got(last, k)
  \/ Calm /\ Got(last, k)

TipUp == cr \cap {"RD", "WR"} # {} => tip = 1
Unflagged == Cmds # {} => irq_flag = 0 /\ inta = 0

------------------------------------------------------------------------------
(***************************************************************************)
(* The situations the system can be in.                                    *)
(***************************************************************************)
Alone == State = "READY" /\ pc["isr"] = "none"

StartsUp ==
  /\ Alone /\ pc["main"] \in InitLabel
  /\ NoWrite \/ bus[1] = "CTR" \/ (bus[1] = "CR" /\ pc["main"] = "initEnable")
  /\ Calm /\ (irq_flag = 1 => ack_out = 1) /\ slave = "idle"

Acking == bus = Write("CR", {"IACK"}) \/ "IACK" \in cr

Rests ==
  /\ State = "READY"
  /\ \/ pc["isr"] = "none" /\ pc["main"] \in {"ready", "itEnable"}
     \/ pc["isr"] \in {"complete", "itEnable"} /\ pc["main"] = "ready"
  /\ \/ NoWrite \/ (bus[1] = "CTR" /\ ((pc["main"] = "ready" /\ pc["isr"] = "none") \/ pc["isr"] = "complete"))
     \/ bus = Write("CR", {"IACK"}) /\ pc["main"] = "ready" /\ pc["isr"] = "none"
     \/ bus = Write("CR", {"STO"}) /\ pc["isr"] = "complete" /\ dir("isr") = "rx" /\ Calm /\ ack_out = 1
  /\ Between /\ Freed
  /\ irq_flag = 1 => ack_out = 1 \/ (Acking /\ pc["main"] = "ready" /\ pc["isr"] = "none")
  /\ pc["isr"] = "complete" /\ dir("isr") = "tx" =>
       Calm /\ (refused \/ got = Upto(IT["tx"].size)) /\ (slave = "idle" \/ refused) /\ irq_flag = 0
  /\ pc["isr"] = "complete" /\ dir("isr") = "rx" => buf = Upto(IT["rx"].size)
  /\ pc["isr"] = "complete" /\ dir("isr") = "tx" /\ ~refused => sel \in Devices /\ IT["tx"].dev \in Devices

CallsAddress ==
  LET X == {AddressByte(c0.dir, c0.dev)}
  IN /\ Alone /\ n = 0 /\ buf = <<>>
     /\ \/ pc["main"] = "byte" /\ NoWrite /\ Between
        \/ pc["main"] = "command" /\ (bus = None \/ bus[1] = "TXR") /\ TxrNext \in X /\ Between
        \/ pc["main"] = "nop" /\ bus = Write("CR", {"STA", "WR"}) /\ txr \in X /\ Between
        \/ pc["main"] = "nop" /\ bus = None /\ AddressFly(c0.dir, X)
        \/ pc["main"] = "poll" /\ NoWrite /\ AddressFly(c0.dir, X) /\ TipUp
        \/ pc["main"] = "result" /\ NoWrite /\ AddressFly(c0.dir, X) /\ Calm

SendFlags(k) == {"WR"} \cup If(k = c0.size, "STO")

CallsSend ==
  /\ Alone /\ n \in 1 .. c0.size + 1 /\ c0.dir = "tx" /\ sel = c0.dev
  /\ pc["main"] # "iack" => n <= c0.size
  /\ \/ pc["main"] = "byte" /\ NoWrite /\ Calm /\ Ended({"WR"}, n - 1)
     \/ pc["main"] = "command" /\ (bus = None \/ bus[1] = "TXR") /\ TxrNext = n /\ Calm /\ Ended({"WR"}, n - 1)
     \/ pc["main"] = "nop" /\ bus = Write("CR", SendFlags(n)) /\ txr = n /\ Calm /\ Ended({"WR"}, n - 1)
     \/ pc["main"] = "nop" /\ bus = None /\ SendFly(SendFlags(n), n)
     \/ pc["main"] = "poll" /\ NoWrite /\ SendFly(SendFlags(n), n) /\ TipUp
     \/ pc["main"] = "result" /\ NoWrite /\ SendFly(SendFlags(n), n) /\ Calm
     \/ pc["main"] = "iack" /\ NoWrite /\ Calm /\ n = c0.size + 1 /\ Ended({"WR", "STO"}, c0.size)

CallsRead ==
  /\ Alone /\ n \in 1 .. c0.size + 1 /\ c0.dir = "rx"
  /\ pc["main"] \in {"byte", "nop", "poll", "result"} => n <= c0.size
  /\ buf = Upto(n - 1)
  /\ \/ pc["main"] = "byte" /\ NoWrite /\ Calm /\ ack_out = 0 /\ slave = "sends" /\ nxt = n
     \/ /\ pc["main"] = "nop" /\ bus = Write("CR", {"RD"} \cup If(n = c0.size, "ACK"))
        /\ Calm /\ ack_out = 0 /\ slave = "sends" /\ nxt = n
     \/ pc["main"] = "nop" /\ bus = None /\ ReadFly(n = c0.size, n)
     \/ pc["main"] = "poll" /\ NoWrite /\ ReadFly(n = c0.size, n) /\ TipUp
     \/ pc["main"] = "result" /\ NoWrite /\ Calm /\ Got(n = c0.size, n)
     \/ pc["main"] = "stop" /\ NoWrite /\ Calm /\ ack_out = 1 /\ n = c0.size + 1
     \/ pc["main"] = "iack" /\ bus = Write("CR", {"STO"}) /\ Calm /\ ack_out = 1 /\ n = c0.size + 1
     \/ pc["main"] = "iack" /\ bus = None /\ StopTail /\ Freed /\ n = c0.size + 1

Calls == CallsAddress \/ CallsSend \/ CallsRead

------------------------------------------------------------------------------
Odd(d) == IF d = "tx" THEN 0 ELSE 1
Addresses(d) == {a \in Nat : a % 2 = Odd(d)}

NackAddress(d) ==
  /\ ack_out = 1 /\ rxack = 1
  /\ Cmds \in {{}, {"STO"}, {"STA", "WR"}}
  /\ "STO" \in cr => c_state \in {"IDLE", "STOP"}
  /\ "STA" \in cr => txr \in Addresses(d)
  /\ \/ c_state = "IDLE" \/ (c_state = "STOP" /\ cmd_ack = 0)
     \/ c_state = "START" /\ cmd_ack = 0 /\ txr \in Addresses(d)
     \/ c_state = "WRITE" /\ cmd_ack = 0 /\ slave = "address" /\ sr \in Addresses(d)
     \/ c_state = "RXACK" /\ cmd_ack = 0 /\ (sda = 0 => Selected(d, Addresses(d)))

Filled(d) ==
  /\ IT[d].next = 1 /\ IT[d].left = IT[d].size /\ IT[d].size \in Sizes /\ IT[d].dev \in Devices
  /\ d = "rx" => buf = <<>>

\* The write under way is of the thread that runs.
Running == IF pc["isr"] = "none" THEN pc["main"] ELSE pc["isr"]
Writes(d) ==
  \/ NoWrite /\ (bus = Other => Running \in {"itFields", "sequence"})
  \/ Running = "itState" /\ bus[1] = "CTR" /\ "IEN" \in bus[2]
  \/ Running = "seqStart" /\ bus[1] = "TXR"
  \/ Running = "seqStarted" /\ bus = Write("CR", {"STA", "WR"})
  \/ Running = "irqDispatch" /\ bus = Write("CR", {"IACK"})

Nobody == pc["main"] = "ready" /\ pc["isr"] = "none"
Only(t) == pc[t] \in Starting /\ (IF t = "main" THEN pc["isr"] = "none" ELSE pc["main"] = "ready")

Silent == irq_flag = 0 /\ inta = 0

AckTaken ==
  /\ pc["isr"] = "irqAck" => bus = None
  /\ pc["isr"] = "irqDispatch" => bus = Write("CR", {"IACK"}) \/ (bus = None /\ ("IACK" \in cr \/ irq_flag = 0))
  /\ pc["isr"] = "sequence" => NoWrite /\ irq_flag = 0

\* The program and the handle.
AddressFrame(d) ==
  /\ State = BUSY(d) /\ IT[d].state \in {"READY", "ADDRESS"}
  /\ pc["main"] \in {"ready"} \cup Starting
  /\ pc["isr"] \in {"none", "irqAck", "irqDispatch"} \cup Starting
  /\ \A t \in Thread : pc[t] \in Starting => arg[t].dir = d
  /\ Nobody => IT[d].state = "ADDRESS"
  /\ (\A t \in Thread : pc[t] \notin {"itState", "itFields"}) => Filled(d)
  /\ Writes(d)
  /\ \A t \in Thread : pc[t] \in {"seqStart", "seqStarted"} => TxrNext \in Addresses(d)

\* The address is not given to the device yet, is on its way, has just been
\* answered, or the answer is being looked at.
Unasked(d) ==
  /\ Calm /\ ack_out = 0 /\ Silent /\ IT[d].state = "READY"
  /\ \E t \in Thread : Only(t) /\ (pc[t] = "seqStarted" => bus # None)
Asked(d) ==
  /\ AddressBusy(d, Addresses(d)) /\ ack_out = 0 /\ rxack = 0 /\ Silent /\ bus = None
  /\ \/ Nobody /\ IT[d].state = "ADDRESS"
     \/ (\E t \in Thread : Only(t) /\ pc[t] = "seqStarted") /\ IT[d].state = "READY"
JustAnswered(d) == Answered(d, Addresses(d)) /\ Nobody /\ IT[d].state = "ADDRESS" /\ bus = None
Looks(d) ==
  /\ Calm /\ ack_out = 0 /\ Selected(d, Addresses(d)) /\ IT[d].state = "ADDRESS"
  /\ pc["main"] = "ready" /\ pc["isr"] \in {"none", "irqAck", "irqDispatch", "sequence"}
  /\ AckTaken

Addressing(d) ==
  /\ AddressFrame(d)
  /\ NackAddress(d) \/ Unasked(d) \/ Asked(d) \/ JustAnswered(d) \/ Looks(d)

------------------------------------------------------------------------------
h == IT["tx"]
LastFlags(state) == IF state = "END" THEN {"WR", "STO"} ELSE {"WR"}

ItSends ==
  /\ State = BUSY("tx") /\ pc["main"] = "ready" /\ h.state \in {"DATA", "END"}
  /\ pc["isr"] \notin {"none", "irqAck", "irqDispatch"} => dir("isr") = "tx"
  /\ h.left = h.size - h.next + 1
  /\ h.dev \in Devices /\ sel \in Devices
  /\ h.next >= IF pc["isr"] \in {"none", "irqAck", "irqDispatch"} THEN 2 ELSE 1
  /\ \/ /\ pc["isr"] = "none" /\ bus = None /\ SendFly(LastFlags(h.state), h.next - 1) /\ Unflagged
        /\ IF h.state = "END" THEN h.left = 0 ELSE h.left >= 1
     \/ /\ pc["isr"] \in {"irqAck", "irqDispatch"} /\ Calm /\ Ended(LastFlags(h.state), h.next - 1) /\ AckTaken
        /\ IF h.state = "END" THEN h.left = 0 ELSE h.left >= 1
     \/ /\ pc["isr"] = "sequence" /\ NoWrite /\ Calm /\ irq_flag = 0
        /\ IF h.state = "END" THEN refused \/ (got = Upto(h.size) /\ slave = "idle")
           ELSE h.left >= 1 /\ Ended({"WR"}, h.next - 1)
     \/ /\ pc["isr"] \in {"txByte", "txLast", "txCommand", "txLastCommand"}
        /\ Calm /\ ack_out = 0 /\ Ended({"WR"}, h.next - 1) /\ Silent
        /\ IF pc["isr"] \in {"txByte", "txCommand"} THEN h.state = "DATA" /\ h.left >= 2 ELSE h.state = "END" /\ h.left = 1
        /\ IF pc["isr"] \in {"txByte", "txLast"} THEN NoWrite
           ELSE (bus = None \/ bus[1] = "TXR") /\ TxrNext = h.next
     \/ /\ pc["isr"] = "txSent"
        /\ IF h.state = "DATA" THEN h.left >= 2 ELSE h.left = 1
        /\ \/ bus = Write("CR", LastFlags(h.state)) /\ txr = h.next /\ Calm /\ ack_out = 0
              /\ Ended({"WR"}, h.next - 1) /\ Silent
           \/ bus = None /\ SendFly(LastFlags(h.state), h.next) /\ Unflagged

r == IT["rx"]
Taken == r.size - r.left

ItReads ==
  /\ pc["main"] = "ready"
  /\ pc["isr"] \notin {"none", "irqAck", "irqDispatch"} => dir("isr") = "rx"
  /\ r.left \in Nat /\ Taken \in Nat
  /\ \/ /\ State = BUSY("rx") /\ r.state = "GET_DATA" /\ buf = Upto(Taken - 1) /\ Taken >= 1
        /\ \/ pc["isr"] = "none" /\ bus = None /\ ReadFly(r.left = 0, Taken) /\ Unflagged
           \/ /\ pc["isr"] \in {"irqAck", "irqDispatch", "sequence"} /\ Calm /\ Got(r.left = 0, Taken) /\ AckTaken
           \/ pc["isr"] = "rxTake" /\ NoWrite /\ Calm /\ r.left >= 1 /\ Got(FALSE, Taken) /\ Silent
     \/ /\ State = BUSY("rx") /\ r.state = "DATA" /\ buf = Upto(Taken) /\ r.left >= 1
        /\ \/ pc["isr"] = "sequence" /\ NoWrite /\ Calm /\ ack_out = 0 /\ slave = "sends" /\ nxt = Taken + 1 /\ irq_flag = 0
           \/ /\ pc["isr"] = "rxAsked" /\ bus = Write("CR", {"RD"} \cup If(r.left = 1, "ACK"))
              /\ Calm /\ ack_out = 0 /\ slave = "sends" /\ nxt = Taken + 1 /\ Silent
           \/ pc["isr"] = "rxAsked" /\ bus = None /\ ReadFly(r.left = 1, Taken + 1) /\ Unflagged
     \/ /\ State = BUSY("rx") /\ r.state = "END" /\ buf = Upto(r.size - 1) /\ r.size >= 1
        /\ pc["isr"] = "sequence" /\ NoWrite /\ Calm /\ sr = r.size /\ ack_out = 1 /\ irq_flag = 0
     \/ /\ State = "READY" /\ buf = Upto(r.size) /\ Calm /\ ack_out = 1 /\ irq_flag = 0
        /\ \/ pc["isr"] = "rxDisable" /\ NoWrite
           \/ pc["isr"] = "rxStop" /\ (bus = None \/ bus[1] = "CTR")

Situation ==
  StartsUp \/ Rests \/ Calls \/ (\E d \in Direction : Addressing(d)) \/ ItSends \/ ItReads

IInv == Types /\ Enabled /\ Owned /\ Requests /\ Situation
------------------------------------------------------------------------------
(***************************************************************************)
(* One clock of the device, by what the byte controller does in it.        *)
(***************************************************************************)
Ticks(c) ==
  \/ (Rest \/ BeginCommand \/ WaitPhase(c)) /\ UNCHANGED slaveVars
  \/ EndStart(c) /\ Slave_Start
  \/ EndWrite(c) /\ (Slave_Address \/ Slave_Data \/ Slave_Deaf)
  \/ EndRead(c, SlaveTx) /\ UNCHANGED slaveVars
  \/ EndAck(c, sda) /\ c_state = "RXACK" /\ UNCHANGED slaveVars
  \/ EndAck(c, sda) /\ c_state = "TXACK" /\ Slave_Sent(IF AckIn = 1 THEN "nack" ELSE "ack")
  \/ EndStop(c) /\ Slave_Stop

\* The registers, for a write to adr of dat that lands in this clock.
Lands(adr, dat) == WriteRegisters(adr, dat) /\ CommandRegister(adr, dat) /\ StatusRegisters

\* A clock of the device moves the byte controller, the slaves and the registers.
LEMMA Clock ==
  ASSUME NEW c \in Bit, DeviceStep(c), c_state \in Phase \cup {"IDLE"}
  PROVE  Ticks(c) /\ Lands(WriteAdr, WriteDat)
<1>1. ByteController(c, SlaveTx, sda) /\ Lands(WriteAdr, WriteDat) /\ SlaveStep(BusEvent(c))
  BY DEF DeviceStep, I2cStep, Lands
<1>2. Ticks(c)
  <2>1. CASE (Rest \/ BeginCommand)
    <3>1. BusEvent(c) = "none" BY <2>1 DEF BusEvent, Rest, BeginCommand
    <3> QED BY <2>1, <3>1, <1>1 DEF SlaveStep, Ticks
  <2>2. CASE WaitPhase(c)
    <3>1. BusEvent(c) = "none" BY <2>2 DEF BusEvent, WaitPhase
    <3> QED BY <2>2, <3>1, <1>1 DEF SlaveStep, Ticks
  <2>3. CASE EndStart(c)
    <3>1. BusEvent(c) = "start" BY <2>3 DEF BusEvent, EndStart
    <3> QED BY <2>3, <3>1, <1>1 DEF SlaveStep, Ticks
  <2>4. CASE EndWrite(c)
    <3>1. BusEvent(c) = "byte" BY <2>4 DEF BusEvent, EndWrite
    <3> QED BY <2>4, <3>1, <1>1 DEF SlaveStep, Ticks
  <2>5. CASE EndRead(c, SlaveTx)
    <3>1. BusEvent(c) = "none" BY <2>5 DEF BusEvent, EndRead
    <3> QED BY <2>5, <3>1, <1>1 DEF SlaveStep, Ticks
  <2>6. CASE EndAck(c, sda) /\ c_state = "RXACK"
    <3>1. BusEvent(c) = "none" BY <2>6 DEF BusEvent, EndAck
    <3> QED BY <2>6, <3>1, <1>1 DEF SlaveStep, Ticks
  <2>7. CASE EndAck(c, sda) /\ c_state = "TXACK"
    <3>1. BusEvent(c) = (IF AckIn = 1 THEN "nack" ELSE "ack") BY <2>7 DEF BusEvent, EndAck
    <3> QED BY <2>7, <3>1, <1>1 DEF SlaveStep, Ticks
  <2>8. CASE EndStop(c)
    <3>1. BusEvent(c) = "stop" BY <2>8 DEF BusEvent, EndStop
    <3> QED BY <2>8, <3>1, <1>1 DEF SlaveStep, Ticks
  <2> QED BY <1>1, <2>1, <2>2, <2>3, <2>4, <2>5, <2>6, <2>7, <2>8 DEF ByteController, EndAck
<1> QED BY <1>1, <1>2

\* What a slave that does not move keeps.
LEMMA SlavesKeep ==
  ASSUME UNCHANGED slaveVars
  PROVE  /\ slave' = slave /\ sel' = sel /\ got' = got /\ nxt' = nxt /\ sda' = sda
         /\ refusals' = refusals /\ refused' = refused
BY DEF slaveVars

\* The registers keep their types, when what is written has them.
LEMMA DeviceTypesStep ==
  ASSUME NEW c \in Bit, DeviceTypes, Ticks(c), NEW adr, NEW dat, Lands(adr, dat),
         adr = "CR" => dat \subseteq CrBit, adr = "CTR" => dat \subseteq CtrBit
  PROVE  DeviceTypes'
<1>1. ctr' \subseteq CtrBit /\ cr' \subseteq CrBit
  BY DEF DeviceTypes, Lands, WriteRegisters, CommandRegister, TakesCommand
<1>2. rxack' \in Bit /\ tip' \in Bit /\ irq_flag' \in Bit /\ inta' \in Bit
  BY DEF DeviceTypes, Lands, StatusRegisters, One, Bit
<1>3. ack_out' \in Bit /\ cmd_ack' \in Bit /\ c_state' \in Phase \cup {"IDLE"}
  BY SMTT(20) DEF DeviceTypes, Ticks, Rest, BeginCommand, WaitPhase, EndStart, EndWrite, EndRead, EndAck, EndStop,
     One, AckIn, Bit, Phase, FirstPhase
<1>4. sda' \in Bit /\ nxt' \in Nat
  BY DEF DeviceTypes, Ticks, slaveVars, Slave_Start, Slave_Address, Slave_Data, Slave_Deaf, Slave_Sent, Slave_Stop,
     Refuses, Bit
<1> QED BY <1>1, <1>2, <1>3, <1>4 DEF DeviceTypes

(***************************************************************************)
(* What the device does in the conditions above, for any address set and   *)
(* any byte.  Kept: everything a calm device keeps.                        *)
(***************************************************************************)
Kept ==
  /\ sr' = sr /\ ack_out' = ack_out /\ slave' = slave /\ sel' = sel
  /\ got' = got /\ nxt' = nxt /\ refused' = refused

\* The interrupt flag rises when a command completes, falls when it is acknowledged.
LEMMA FlagStep ==
  ASSUME DeviceTypes, NEW adr, NEW dat, Lands(adr, dat)
  PROVE  /\ irq_flag' = 1 => (cmd_ack = 1 \/ irq_flag = 1) /\ "IACK" \notin cr
         /\ inta' = 1 => irq_flag = 1 /\ "IEN" \in ctr
         /\ irq_flag = 1 /\ "IACK" \notin cr => irq_flag' = 1
         /\ irq_flag' \in Bit /\ inta' \in Bit /\ rxack' = ack_out
         /\ (cr \cap {"RD", "WR"} # {} => tip' = 1)
BY DEF DeviceTypes, Lands, StatusRegisters, One, Bit

\* The registers when nothing is written, and when something is.
LEMMA CommandStep ==
  ASSUME DeviceTypes, NEW adr, NEW dat, Lands(adr, dat)
  PROVE  /\ adr = "none" => ctr' = ctr /\ txr' = txr /\ cr' \subseteq cr /\ "IACK" \notin cr'
         /\ adr = "none" /\ cmd_ack = 0 => Cmds' = Cmds /\ cr' = cr \ {"IACK"}
         /\ adr = "none" /\ cmd_ack = 1 => Cmds' = {}
         /\ adr \notin {"CR", "none"} => cr' = cr
         /\ adr # "CR" => Cmds' \subseteq Cmds
         /\ adr = "CR" => ctr' = ctr /\ txr' = txr
         /\ adr = "CR" /\ "EN" \in ctr => cr' = dat
         /\ adr = "CR" /\ "EN" \notin ctr => cr' = cr
         /\ adr = "TXR" => txr' = dat /\ ctr' = ctr
         /\ adr = "CTR" => ctr' = dat /\ txr' = txr
         /\ adr \notin {"CTR", "TXR"} => ctr' = ctr /\ txr' = txr
BY DEF DeviceTypes, Lands, WriteRegisters, CommandRegister, TakesCommand, Bit, Cmds, Command, CrBit

\* A calm device rests, whatever lands in it.
LEMMA CalmRests ==
  ASSUME NEW c \in Bit, DeviceTypes, Calm, Ticks(c), NEW adr, NEW dat, Lands(adr, dat)
  PROVE  c_state' = "IDLE" /\ cmd_ack' = 0 /\ rxack' = ack_out' /\ Kept
<1>1. ~Go BY DEF Calm, Go, Cmds, Command
<1>2. Rest /\ UNCHANGED slaveVars
  BY <1>1 DEF Ticks, Calm, Rest, BeginCommand, WaitPhase, EndStart, EndWrite, EndRead, EndAck, EndStop
<1> QED BY <1>2, SlavesKeep, FlagStep DEF Rest, Kept, Calm

\* It stays calm unless it is given a command.
LEMMA CalmKeeps ==
  ASSUME NEW c \in Bit, DeviceTypes, Calm, Ticks(c), NEW adr, NEW dat, Lands(adr, dat), adr # "CR"
  PROVE  Calm' /\ Kept
<1>1. Cmds' = {} BY CommandStep DEF Calm
<1> QED BY <1>1, CalmRests DEF Calm, Kept

\* The interrupt flag of a calm device does not rise.
LEMMA CalmFlag ==
  ASSUME DeviceTypes, Calm, NEW adr, NEW dat, Lands(adr, dat)
  PROVE  /\ irq_flag = 0 => irq_flag' = 0 /\ inta' = 0
         /\ "IACK" \in cr => irq_flag' = 0
BY FlagStep DEF Calm, DeviceTypes, Bit

\* The STOP nobody waits for ends some time; it keeps the acknowledge bit.
LEMMA TailKeeps ==
  ASSUME NEW c \in Bit, DeviceTypes, StopTail, Ticks(c), NEW adr, NEW dat, Lands(adr, dat),
         adr = "CR" => dat = {"IACK"} /\ "EN" \in ctr
  PROVE  StopTail' /\ refused' = refused /\ got' = got /\ sel' = sel
<1>1. Cmds' \subseteq {"STO"}
  BY CommandStep DEF StopTail, Cmds, Command
<1>2. rxack' = 1 BY FlagStep DEF StopTail
<1>3. /\ ack_out' = 1 /\ c_state' \in {"IDLE", "STOP"} /\ (c_state' = "STOP" => cmd_ack' = 0)
      /\ refused' = refused /\ got' = got /\ sel' = sel
  <2>1. CASE (Rest \/ BeginCommand \/ WaitPhase(c)) /\ UNCHANGED slaveVars
    <3>1. Go => FirstPhase = "STOP" BY DEF StopTail, Go, Cmds, Command, FirstPhase
    <3> QED BY <2>1, <3>1, SlavesKeep DEF StopTail, Rest, BeginCommand, WaitPhase
  <2>2. CASE EndStop(c) /\ Slave_Stop
    BY <2>2 DEF StopTail, EndStop, Slave_Stop
  <2> QED BY <2>1, <2>2 DEF StopTail, Ticks, EndStart, EndWrite, EndRead, EndAck
<1> QED BY <1>1, <1>2, <1>3 DEF StopTail

\* The wires are free, or will be when that STOP ends.
WillBeFree ==
  slave = "idle" \/ refused \/ c_state = "STOP" \/ (c_state = "IDLE" /\ cmd_ack = 0 /\ "STO" \in cr)

\* They stay free, or the STOP begins or ends.
LEMMA FreeStep ==
  ASSUME NEW c \in Bit, DeviceTypes, Between, WillBeFree, Ticks(c), NEW adr, NEW dat, Lands(adr, dat)
  PROVE  WillBeFree'
<1>1. CASE (Rest \/ BeginCommand \/ WaitPhase(c)) /\ UNCHANGED slaveVars
  <2>1. Go => FirstPhase = "STOP" BY DEF Between, Calm, StopTail, Go, Cmds, Command, FirstPhase
  <2>2. "STO" \in cr /\ cmd_ack = 0 => Go BY DEF Go
  <2> QED BY <1>1, <2>1, <2>2, SlavesKeep DEF WillBeFree, Rest, BeginCommand, WaitPhase
<1>2. CASE EndStop(c) /\ Slave_Stop
  BY <1>2 DEF WillBeFree, Slave_Stop
<1> QED BY <1>1, <1>2 DEF Between, Calm, StopTail, Ticks, EndStart, EndWrite, EndRead, EndAck

------------------------------------------------------------------------------
(***************************************************************************)
(* An address byte.                                                        *)
(***************************************************************************)

\* Whoever acknowledges it is the device whose address it is.
LEMMA AddressHeard ==
  ASSUME NEW d \in Direction, NEW X \in SUBSET Addresses(d),
         slave = "address", sr \in X, Slave_Address
  PROVE  sda' \in Bit /\ (sda' = 0 => Selected(d, X)')
<1>1. CASE /\ \E e \in Devices : sr \in {e, e + 1} /\ sel' = e /\ slave' = IF sr = e THEN "receives" ELSE "sends"
           /\ got' = <<>> /\ nxt' = 1 /\ sda' = 0
  <2>1. PICK e \in Devices : sr \in {e, e + 1} /\ sel' = e /\ slave' = IF sr = e THEN "receives" ELSE "sends"
    BY <1>1
  <2>2. e \in Nat /\ e % 2 = 0 BY DriverAssumption
  <2>3. (e + 1) % 2 = 1 BY <2>2
  <2>4. sr \in Nat /\ sr % 2 = Odd(d) BY DEF Addresses
  <2>5. (sr = e <=> d = "tx") /\ e # e + 1 BY <2>1, <2>2, <2>3, <2>4 DEF Odd, Direction
  <2>6. AddressByte(d, e) = sr BY <2>1, <2>5 DEF AddressByte
  <2>7. slave' = IF d = "tx" THEN "receives" ELSE "sends" BY <2>1, <2>5
  <2>8. sel' \in Devices /\ AddressByte(d, sel') \in X BY <2>1, <2>6
  <2> QED BY <1>1, <2>7, <2>8 DEF Selected, Bit
<1>2. CASE sda' = 1
  BY <1>2 DEF Bit
<1> QED BY <1>1, <1>2 DEF Slave_Address, Refuses

\* Given to a device that is at rest or ends its STOP, the address is on its way.
LEMMA AddressTakes ==
  ASSUME NEW c \in Bit, DeviceTypes, Between, Ticks(c), "EN" \in ctr, Lands("CR", {"STA", "WR"}),
         NEW d \in Direction, NEW X \in SUBSET Addresses(d), txr \in X
  PROVE  AddressFly(d, X)' /\ (Calm => AddressBusy(d, X)' /\ Kept /\ rxack' = ack_out)
<1>1. cr' = {"STA", "WR"} /\ txr' \in X /\ rxack' = ack_out BY CommandStep, FlagStep
<1>2. Cmds' = {"STA", "WR"} BY <1>1 DEF Cmds, Command
<1>3. CASE Calm
  <2>1. c_state' = "IDLE" /\ cmd_ack' = 0 /\ Kept BY <1>3, CalmRests
  <2> QED BY <1>1, <1>2, <2>1 DEF AddressFly, AddressBusy
<1>4. CASE StopTail /\ ~Calm
  <2>1. ack_out' = 1 /\ c_state' \in {"IDLE", "STOP"} /\ (c_state' = "STOP" => cmd_ack' = 0) /\ cmd_ack' \in Bit
    <3>1. CASE (Rest \/ BeginCommand \/ WaitPhase(c)) /\ UNCHANGED slaveVars
      <4>1. Go => FirstPhase = "STOP" BY <1>4 DEF StopTail, Go, Cmds, Command, FirstPhase
      <4> QED BY <3>1, <4>1, <1>4 DEF StopTail, Rest, BeginCommand, WaitPhase, Bit
    <3>2. CASE EndStop(c) /\ Slave_Stop
      BY <3>2, <1>4 DEF StopTail, EndStop, Bit
    <3> QED BY <3>1, <3>2, <1>4 DEF StopTail, Ticks, EndStart, EndWrite, EndRead, EndAck
  <2>2. CASE c_state' = "STOP"
    BY <2>1, <2>2, <1>1, <1>2, <1>4 DEF AddressFly, StopTail
  <2>3. CASE c_state' = "IDLE" /\ cmd_ack' = 0
    BY <2>1, <2>3, <1>1, <1>2, <1>4 DEF AddressFly, AddressBusy
  <2>4. CASE c_state' = "IDLE" /\ cmd_ack' = 1
    BY <2>1, <2>4, <1>2, <1>4 DEF AddressFly, Answered
  <2> QED BY <2>1, <2>2, <2>3, <2>4, <1>4 DEF Bit
<1> QED BY <1>3, <1>4 DEF Between

\* Until the acknowledge, the address stays on its way.
LEMMA AddressBusyStep ==
  ASSUME NEW c \in Bit, DeviceTypes, Ticks(c), NEW dat, Lands("none", dat),
         NEW d \in Direction, NEW X \in SUBSET Addresses(d), AddressBusy(d, X)
  PROVE  /\ Cmds' = {"STA", "WR"} /\ rxack' = ack_out
         /\ \/ AddressBusy(d, X)' /\ ack_out' = ack_out
            \/ c_state = "RXACK" /\ c = 1 /\ Answered(d, X)'
<1>1. Cmds' = {"STA", "WR"} /\ txr' = txr /\ rxack' = ack_out BY CommandStep, FlagStep DEF AddressBusy
<1>2. FirstPhase = "START" /\ "STO" \notin cr /\ "RD" \notin cr
  BY DEF AddressBusy, FirstPhase, Cmds, Command
<1>3. CASE (Rest \/ BeginCommand \/ WaitPhase(c)) /\ UNCHANGED slaveVars
  <2>1. CASE Rest \/ WaitPhase(c)
    BY <2>1, <1>1, <1>3, SlavesKeep DEF Rest, WaitPhase, AddressBusy, Selected
  <2>2. CASE BeginCommand
    BY <2>2, <1>1, <1>2 DEF BeginCommand, AddressBusy
  <2> QED BY <1>3, <2>1, <2>2
<1>4. CASE EndStart(c) /\ Slave_Start
  BY <1>4, <1>1, <1>2 DEF EndStart, Slave_Start, AddressBusy
<1>5. CASE EndWrite(c) /\ (Slave_Address \/ Slave_Data \/ Slave_Deaf)
  <2>1. slave = "address" /\ sr \in X BY <1>5 DEF EndWrite, AddressBusy
  <2>2. Slave_Address BY <1>5, <2>1 DEF Slave_Data, Slave_Deaf
  <2> QED BY <1>1, <1>5, <2>1, <2>2, AddressHeard DEF EndWrite, AddressBusy
<1>6. CASE EndAck(c, sda) /\ c_state = "RXACK" /\ UNCHANGED slaveVars
  BY <1>6, <1>1, <1>2, SlavesKeep DEF EndAck, AddressBusy, Answered, Selected, One
<1> QED BY <1>3, <1>4, <1>5, <1>6 DEF Ticks, AddressBusy, EndRead, EndAck, EndStop

\* When it is answered, the device calms down.
LEMMA AnsweredStep ==
  ASSUME NEW c \in Bit, DeviceTypes, Ticks(c), NEW dat, Lands("none", dat),
         NEW d \in Direction, NEW X, Answered(d, X)
  PROVE  Calm' /\ Kept /\ (ack_out' = 0 => Selected(d, X)')
<1>1. Cmds' = {} /\ rxack' = ack_out BY CommandStep, FlagStep DEF Answered
<1>2. Rest /\ UNCHANGED slaveVars
  BY DEF Answered, Ticks, Go, Rest, BeginCommand, WaitPhase, EndStart, EndWrite, EndRead, EndAck, EndStop
<1> QED BY <1>1, <1>2, SlavesKeep DEF Rest, Calm, Kept, Selected, Answered

\* The address of a blocking transfer, its loss to a STOP included.
LEMMA AddressFlyStep ==
  ASSUME NEW c \in Bit, DeviceTypes, Ticks(c), NEW dat, Lands("none", dat),
         NEW d \in Direction, NEW X \in SUBSET Addresses(d), AddressFly(d, X)
  PROVE  AddressFly(d, X)'
<1>1. CASE AddressBusy(d, X)
  BY <1>1, AddressBusyStep DEF AddressFly
<1>2. CASE Cmds = {"STA", "WR"} /\ c_state = "STOP" /\ cmd_ack = 0 /\ ack_out = 1 /\ rxack = 1 /\ txr \in X
  <2>1. Cmds' = Cmds /\ txr' = txr /\ rxack' = 1 BY <1>2, CommandStep, FlagStep
  <2>2. CASE WaitPhase(c)
    BY <1>2, <2>1, <2>2 DEF WaitPhase, AddressFly
  <2>3. CASE EndStop(c)
    BY <1>2, <2>1, <2>3 DEF EndStop, AddressFly, Answered
  <2> QED BY <1>2, <2>2, <2>3 DEF Ticks, Rest, BeginCommand, EndStart, EndWrite, EndRead, EndAck
<1>3. CASE Answered(d, X)
  BY <1>3, AnsweredStep DEF AddressFly
<1>4. CASE Calm /\ (ack_out = 0 => Selected(d, X))
  <2>1. Calm' /\ Kept BY <1>4, CalmKeeps
  <2> QED BY <1>4, <2>1 DEF Kept, Selected, AddressFly
<1> QED BY <1>1, <1>2, <1>3, <1>4 DEF AddressFly

\* While no acknowledge was seen, whatever the threads write meanwhile.
LEMMA NackStep ==
  ASSUME NEW c \in Bit, DeviceTypes, Ticks(c), NEW adr, NEW dat, Lands(adr, dat),
         NEW d \in Direction, NackAddress(d),
         adr = "TXR" => dat \in Addresses(d),
         adr = "CR" => "EN" \in ctr /\ (dat = {"IACK"} \/ (dat = {"STA", "WR"} /\ txr \in Addresses(d)))
  PROVE  \/ NackAddress(d)'
         \/ c_state = "RXACK" /\ c = 1 /\ Answered(d, Addresses(d))'
<1> DEFINE X == Addresses(d)
<1>1. rxack' = 1 BY FlagStep DEF NackAddress
<1>2. /\ Cmds' \in {{}, {"STO"}, {"STA", "WR"}} /\ ("STA" \in cr' => txr' \in X)
      /\ ("STO" \in cr' => "STO" \in cr) /\ (txr \in X => txr' \in X)
      /\ (c_state = "IDLE" /\ Go /\ "STA" \in cr => txr' \in X)
  <2>1. CASE adr = "CR"
    <3>1. cr' = dat /\ txr' = txr BY <2>1, CommandStep
    <3>2. dat \cap Command \in {{}, {"STA", "WR"}} /\ "STO" \notin dat /\ ("STA" \in dat => txr \in X)
      BY <2>1 DEF Command
    <3> QED BY <3>1, <3>2 DEF Cmds, NackAddress
  <2>2. CASE adr # "CR"
    <3>1. txr \in X => txr' \in X BY <2>2, CommandStep
    <3>2. Cmds' = Cmds \/ Cmds' = {}
      <4>1. CASE adr = "none" BY <4>1, CommandStep DEF DeviceTypes, Bit
      <4>2. CASE adr # "none" BY <4>2, <2>2, CommandStep DEF Cmds
      <4> QED BY <4>1, <4>2
    <3> QED BY <3>1, <3>2 DEF NackAddress, Cmds, Command
  <2> QED BY <2>1, <2>2
<1>3. "STO" \in cr /\ c_state = "IDLE" /\ Go => FirstPhase = "STOP"
  BY DEF NackAddress, Cmds, Command, FirstPhase
<1>4. "STO" \notin cr /\ Go => FirstPhase = "START" /\ "STA" \in cr
  BY DEF NackAddress, Go, Cmds, Command, FirstPhase
<1>5. "RD" \notin cr BY DEF NackAddress, Cmds, Command
<1>6. CASE (Rest \/ BeginCommand \/ WaitPhase(c)) /\ UNCHANGED slaveVars
  <2>1. CASE Rest \/ WaitPhase(c)
    BY <2>1, <1>1, <1>2, <1>6, SlavesKeep DEF Rest, WaitPhase, NackAddress, Selected
  <2>2. CASE BeginCommand
    <3>1. c_state = "IDLE" /\ Go /\ c_state' = FirstPhase /\ cmd_ack' = 0 /\ ack_out' = ack_out BY <2>2 DEF BeginCommand
    <3>2. CASE "STO" \in cr
      BY <3>1, <3>2, <1>1, <1>2, <1>3 DEF NackAddress
    <3>3. CASE "STO" \notin cr
      BY <3>1, <3>3, <1>1, <1>2, <1>4 DEF NackAddress
    <3> QED BY <3>2, <3>3
  <2> QED BY <1>6, <2>1, <2>2
<1>7. CASE EndStart(c) /\ Slave_Start
  BY <1>7, <1>1, <1>2, <1>5 DEF EndStart, Slave_Start, NackAddress
<1>8. CASE EndWrite(c) /\ (Slave_Address \/ Slave_Data \/ Slave_Deaf)
  <2>1. slave = "address" /\ sr \in X BY <1>8 DEF EndWrite, NackAddress
  <2>2. Slave_Address BY <1>8, <2>1 DEF Slave_Data, Slave_Deaf
  <2>3. sda' = 0 => Selected(d, X)' BY <2>1, <2>2, AddressHeard
  <2> QED BY <1>1, <1>2, <1>8, <2>3 DEF EndWrite, NackAddress
<1>9. CASE EndAck(c, sda) /\ c_state = "RXACK" /\ UNCHANGED slaveVars
  BY <1>9, SlavesKeep DEF EndAck, NackAddress, Answered, Selected, One
<1>10. CASE EndStop(c) /\ Slave_Stop
  BY <1>10, <1>1, <1>2 DEF EndStop, NackAddress
<1> QED BY <1>6, <1>7, <1>8, <1>9, <1>10 DEF Ticks, NackAddress, EndRead, EndAck

------------------------------------------------------------------------------
(***************************************************************************)
(* Data bytes.                                                             *)
(***************************************************************************)

\* The bytes sent so far, as a sequence.
LEMMA UptoNext ==
  ASSUME NEW k \in Nat \ {0}
  PROVE  Append(Upto(k - 1), k) = Upto(k)
<1>1. Upto(k - 1) \in Seq(Nat) /\ Len(Upto(k - 1)) = k - 1 BY DEF Upto
<1>2. Append(Upto(k - 1), k) = [i \in 1 .. k |-> IF i <= k - 1 THEN i ELSE k]
  BY <1>1 DEF Upto
<1> QED BY <1>2 DEF Upto

\* No byte yet.
LEMMA UptoNone == Upto(0) = <<>>
BY DEF Upto

\* A byte that a device receives, or refuses.
LEMMA DataHeard ==
  ASSUME NEW k \in Nat \ {0}, sr = k, Ended({"WR"}, k - 1), Slave_Address \/ Slave_Data \/ Slave_Deaf
  PROVE  /\ sel' = sel
         /\ \/ sda' = 0 /\ got' = Upto(k) /\ slave' = "receives"
            \/ sda' = 1 /\ refused' /\ slave' = "deaf"
<1>1. CASE slave = "receives"
  <2>1. Slave_Data /\ got = Upto(k - 1) BY <1>1 DEF Ended, Slave_Address, Slave_Deaf
  <2> QED BY <2>1, <1>1, UptoNext DEF Slave_Data, Refuses
<1>2. CASE slave = "deaf" /\ refused
  BY <1>2 DEF Slave_Deaf, Slave_Address, Slave_Data
<1> QED BY <1>1, <1>2 DEF Ended

\* A byte on its way to the device.
LEMMA SendFlyStep ==
  ASSUME NEW c \in Bit, DeviceTypes, Ticks(c), NEW dat, Lands("none", dat),
         NEW W \in {{"WR"}, {"WR", "STO"}}, NEW k \in Nat \ {0}, SendFly(W, k)
  PROVE  SendFly(W, k)' /\ sel' = sel
<1>1. txr' = txr /\ (cmd_ack = 0 => Cmds' = Cmds) /\ rxack' = ack_out BY CommandStep, FlagStep
<1>2. CASE SendBusy(W, k)
  <2>1. Cmds = W /\ cmd_ack = 0 /\ Cmds' = W BY <1>1, <1>2 DEF SendBusy
  <2>2. FirstPhase = "WRITE" /\ ("STO" \in cr <=> "STO" \in W) BY <2>1 DEF Cmds, Command, FirstPhase
  <2>3. CASE (Rest \/ BeginCommand \/ WaitPhase(c)) /\ UNCHANGED slaveVars
    <3>1. CASE Rest \/ WaitPhase(c)
      BY <3>1, <1>1, <1>2, <2>1, <2>3, SlavesKeep DEF Rest, WaitPhase, SendFly, SendBusy, Ended
    <3>2. CASE BeginCommand
      BY <3>2, <1>1, <1>2, <2>1, <2>2, <2>3, SlavesKeep DEF BeginCommand, SendFly, SendBusy, Ended
    <3> QED BY <2>3, <3>1, <3>2
  <2>4. CASE EndWrite(c) /\ (Slave_Address \/ Slave_Data \/ Slave_Deaf)
    <3>1. sr = k /\ Ended({"WR"}, k - 1) BY <1>2, <2>4 DEF SendBusy, EndWrite
    <3>2. sel' = sel /\ (\/ sda' = 0 /\ got' = Upto(k) /\ slave' = "receives"
                         \/ sda' = 1 /\ refused' /\ slave' = "deaf")
      BY <3>1, <2>4, DataHeard
    <3> QED BY <3>2, <2>1, <2>4 DEF EndWrite, SendFly, SendBusy
  <2>5. CASE EndAck(c, sda) /\ c_state = "RXACK" /\ UNCHANGED slaveVars
    <3>1. /\ c_state' = (IF "STO" \in W THEN "STOP" ELSE "IDLE") /\ cmd_ack' = One("STO" \notin W) /\ ack_out' = sda
      BY <2>2, <2>5 DEF EndAck
    <3>2. Ended({"WR"}, k)' /\ sel' = sel
      BY <3>1, <2>5, <1>2, SlavesKeep DEF SendBusy, Ended
    <3>3. CASE "STO" \in W
      BY <3>1, <3>2, <3>3, <2>1 DEF SendFly, SendBusy, One
    <3>4. CASE "STO" \notin W
      BY <3>1, <3>2, <3>4, <2>1 DEF SendFly, One, Ended
    <3> QED BY <3>3, <3>4
  <2>6. CASE EndStop(c) /\ Slave_Stop
    <3>1. "STO" \in W /\ Ended({"WR"}, k) BY <1>2, <2>6 DEF SendBusy, EndStop
    <3>2. Ended(W, k)' /\ sel' = sel BY <3>1, <2>6 DEF EndStop, Slave_Stop, Ended
    <3> QED BY <3>2, <2>1, <2>6 DEF EndStop, SendFly
  <2> QED BY <1>2, <2>3, <2>4, <2>5, <2>6 DEF Ticks, SendBusy, EndStart, EndRead, EndAck
<1>3. CASE Cmds = W /\ cmd_ack = 1 /\ c_state = "IDLE" /\ Ended(W, k)
  <2>1. Cmds' = {} BY <1>3, CommandStep
  <2>2. Rest /\ UNCHANGED slaveVars
    BY <1>3 DEF Ticks, Go, Rest, BeginCommand, WaitPhase, EndStart, EndWrite, EndRead, EndAck, EndStop
  <2> QED BY <1>1, <1>3, <2>1, <2>2, SlavesKeep DEF Rest, Calm, SendFly, Ended
<1>4. CASE Calm /\ Ended(W, k)
  <2>1. Calm' /\ Kept BY <1>4, CalmKeeps
  <2> QED BY <1>4, <2>1 DEF Kept, Ended, SendFly
<1> QED BY <1>2, <1>3, <1>4 DEF SendFly

\* A byte on its way from the device.
LEMMA ReadFlyStep ==
  ASSUME NEW c \in Bit, DeviceTypes, Ticks(c), NEW dat, Lands("none", dat),
         NEW last \in BOOLEAN, NEW k \in Nat, ReadFly(last, k)
  PROVE  ReadFly(last, k)'
<1>1. rxack' = ack_out /\ (cmd_ack = 0 => Cmds' = Cmds /\ cr' = cr \ {"IACK"}) BY CommandStep, FlagStep
<1>2. CASE /\ Cmds = {"RD"} /\ cmd_ack = 0 /\ ("ACK" \in cr <=> last)
           /\ slave = "sends" /\ nxt = k
           /\ (c_state \in {"IDLE", "READ"} \/ (c_state = "TXACK" /\ sr = k))
  <2>1. Cmds' = {"RD"} /\ ("ACK" \in cr' <=> last) BY <1>1, <1>2
  <2>2. FirstPhase = "READ" /\ "STO" \notin cr BY <1>2 DEF Cmds, Command, FirstPhase
  <2>3. CASE (Rest \/ BeginCommand \/ WaitPhase(c)) /\ UNCHANGED slaveVars
    BY <1>2, <2>1, <2>2, <2>3, SlavesKeep DEF Rest, BeginCommand, WaitPhase, ReadFly
  <2>4. CASE EndRead(c, SlaveTx) /\ UNCHANGED slaveVars
    BY <1>2, <2>1, <2>4, SlavesKeep DEF EndRead, SlaveTx, ReadFly
  <2>5. CASE EndAck(c, sda) /\ c_state = "TXACK" /\ Slave_Sent(IF AckIn = 1 THEN "nack" ELSE "ack")
    <3>1. AckIn = One(last) BY <1>2 DEF AckIn, One
    <3>2. Got(last, k)' /\ cmd_ack' = 1 /\ c_state' = "IDLE"
      BY <1>2, <2>2, <2>5, <3>1 DEF EndAck, Slave_Sent, Got, One
    <3> QED BY <3>2, <2>1 DEF ReadFly
  <2> QED BY <1>2, <2>3, <2>4, <2>5 DEF Ticks, EndStart, EndWrite, EndAck, EndStop
<1>3. CASE Cmds = {"RD"} /\ cmd_ack = 1 /\ c_state = "IDLE" /\ Got(last, k)
  <2>1. Cmds' = {} BY <1>3, CommandStep
  <2>2. Rest /\ UNCHANGED slaveVars
    BY <1>3 DEF Ticks, Go, Rest, BeginCommand, WaitPhase, EndStart, EndWrite, EndRead, EndAck, EndStop
  <2> QED BY <1>1, <1>3, <2>1, <2>2, SlavesKeep DEF Rest, Calm, ReadFly, Got
<1>4. CASE Calm /\ Got(last, k)
  <2>1. Calm' /\ Kept BY <1>4, CalmKeeps
  <2> QED BY <1>4, <2>1 DEF Kept, Got, ReadFly
<1> QED BY <1>2, <1>3, <1>4 DEF ReadFly

\* No interrupt is raised while a command is under way.
LEMMA UnflaggedStep ==
  ASSUME DeviceTypes, NEW dat, Lands("none", dat), Unflagged
  PROVE  Unflagged'
<1>1. CASE cmd_ack = 1 BY <1>1, CommandStep DEF Unflagged
<1>2. CASE cmd_ack = 0 BY <1>2, CommandStep, FlagStep DEF Unflagged, DeviceTypes, Bit
<1> QED BY <1>1, <1>2 DEF DeviceTypes, Bit

\* TIP is up in the clock after a command is in the register.
LEMMA TipStep ==
  ASSUME DeviceTypes, NEW dat, Lands("none", dat)
  PROVE  TipUp'
BY FlagStep, CommandStep DEF TipUp

\* Given to a calm device, a byte to send and one to read are on their way.
LEMMA SendTakes ==
  ASSUME NEW c \in Bit, DeviceTypes, Calm, Ticks(c), "EN" \in ctr,
         NEW W \in {{"WR"}, {"WR", "STO"}}, NEW k \in Nat \ {0},
         Lands("CR", W), txr = k, Ended({"WR"}, k - 1)
  PROVE  SendFly(W, k)' /\ sel' = sel
<1>1. cr' = W /\ txr' = k BY CommandStep
<1>2. Cmds' = W BY <1>1 DEF Cmds, Command
<1>3. c_state' = "IDLE" /\ cmd_ack' = 0 /\ Kept BY CalmRests
<1> QED BY <1>1, <1>2, <1>3 DEF Kept, Ended, SendFly, SendBusy

\* The same for a byte to read.
LEMMA ReadTakes ==
  ASSUME NEW c \in Bit, DeviceTypes, Calm, Ticks(c), "EN" \in ctr, NEW last \in BOOLEAN, NEW k \in Nat,
         Lands("CR", {"RD"} \cup If(last, "ACK")), slave = "sends", nxt = k
  PROVE  ReadFly(last, k)'
<1>1. cr' = {"RD"} \cup If(last, "ACK") BY CommandStep
<1>2. Cmds' = {"RD"} /\ ("ACK" \in cr' <=> last) BY <1>1 DEF Cmds, Command, If
<1>3. c_state' = "IDLE" /\ cmd_ack' = 0 /\ Kept BY CalmRests
<1> QED BY <1>2, <1>3 DEF Kept, ReadFly

------------------------------------------------------------------------------
(***************************************************************************)
(* Steps of the core.                                                      *)
(***************************************************************************)
SequenceLabel == Starting \cup
  {"itEnable", "complete", "rxDisable", "rxStop", "rxTake", "rxAsked", "txByte", "txLast",
   "txCommand", "txLastCommand", "txSent"}

\* A clock in which the core makes a step.
LEMMA MoveClock ==
  ASSUME Types, CpuMoves, NEW c \in Bit, DeviceStep(c)
  PROVE  /\ bus = None /\ DeviceTypes /\ Ticks(c) /\ Lands("none", {})
         /\ CtrNext = ctr /\ TxrNext = txr /\ ctr' = ctr /\ txr' = txr /\ DeviceTypes'
<1>1. bus = None /\ bus[1] = "none" /\ bus[2] = {} BY DEF CpuMoves, NoAccess, None
<1>2. Ticks(c) /\ Lands("none", {}) BY <1>1, Clock DEF WriteAdr, WriteDat, Types, DeviceTypes
<1>3. ctr' = ctr /\ txr' = txr BY <1>2, CommandStep DEF Types
<1>4. DeviceTypes' BY <1>2, DeviceTypesStep DEF Types
<1> QED BY <1>1, <1>2, <1>3, <1>4 DEF Types, CtrNext, TxrNext

\* A clock in which it waits; the write under way lands.
LEMMA WaitClock ==
  ASSUME Types, CpuWaits, NEW c \in Bit, DeviceStep(c)
  PROVE  /\ DeviceTypes /\ Ticks(c) /\ Lands(WriteAdr, WriteDat) /\ DeviceTypes'
         /\ bus' = None /\ UNCHANGED <<pc, arg, n, State, IT, buf, calls>>
         /\ ctr' = CtrNext /\ txr' = TxrNext /\ CtrNext' = CtrNext /\ TxrNext' = TxrNext
         /\ NoWrite => WriteAdr = "none"
         /\ bus[1] \in {"CTR", "TXR", "CR"} => WriteAdr = bus[1] /\ WriteDat = bus[2]
<1>1. Ticks(c) /\ Lands(WriteAdr, WriteDat) BY Clock DEF Types, DeviceTypes
<1>2. bus' = None /\ bus'[1] = "none" /\ UNCHANGED <<pc, arg, n, State, IT, buf, calls>> BY DEF CpuWaits, None
<1>3. /\ NoWrite => WriteAdr = "none" /\ bus[1] \notin {"CTR", "TXR", "CR"}
      /\ bus[1] # "other" => WriteAdr = bus[1]
      /\ bus[1] = "other" => WriteAdr = "none"
      /\ WriteDat = bus[2]
  BY DEF NoWrite, None, Other, WriteAdr, WriteDat
<1>4. ctr' = CtrNext /\ txr' = TxrNext BY <1>1, <1>3, CommandStep DEF CtrNext, TxrNext, Types
<1>5. DeviceTypes' BY <1>1, <1>3, DeviceTypesStep DEF Types
<1>6. CtrNext' = CtrNext /\ TxrNext' = TxrNext BY <1>2, <1>4 DEF CtrNext, TxrNext
<1> QED BY <1>1, <1>2, <1>3, <1>4, <1>5, <1>6 DEF Types

\* Where a step of the program goes.
LEMMA Goes ==
  ASSUME Types, NEW t \in Thread, NEW label, NEW access, To(t, label, access)
  PROVE  /\ bus' = access
         /\ pc'["main"] = IF t = "main" THEN label ELSE pc["main"]
         /\ pc'["isr"] = IF t = "isr" THEN label ELSE pc["isr"]
         /\ pc' = [pc EXCEPT ![t] = label]
BY DEF To, Types, Thread

\* Whose step it is.
LEMMA WhoMoves ==
  ASSUME Types, CpuMoves
  PROVE  \/ /\ Interrupted /\ To("isr", "irqAck", None)
            /\ UNCHANGED <<arg, n, State, IT, buf, calls>>
         \/ pc["isr"] = "irqAck" /\ IRQ_Ack
         \/ pc["isr"] = "irqDispatch" /\ IRQ_Dispatch
         \/ pc["isr"] \in SequenceLabel /\ SequenceStep("isr")
         \/ /\ pc["isr"] = "none" /\ ~Interrupted
            /\ \/ pc["main"] \in InitLabel /\ InitStep
               \/ pc["main"] = "ready" /\ MainCalls
               \/ pc["main"] \in BlockingLabel /\ BlockingStep
               \/ pc["main"] \in SequenceLabel /\ SequenceStep("main")
<1>1. ASSUME NEW t \in Thread, SequenceStep(t)
      PROVE  pc[t] \in SequenceLabel /\ (t = "main" => pc["isr"] = "none")
  <2>1. IT_Enable(t) \/ IT_State(t) \/ IT_Fields(t) \/ Callback(t) => \E l \in SequenceLabel : At(t, l)
    BY DEF IT_Enable, IT_State, IT_Fields, Callback, Step, SequenceLabel, Starting
  <2>2. AddressSequence(t) => \E l \in SequenceLabel : At(t, l)
    BY DEF AddressSequence, Move, Step, SequenceLabel, Starting
  <2>3. TransmitSequence(t) => \E l \in SequenceLabel : At(t, l)
    BY DEF TransmitSequence, Tx_Sent, Tx_End, Move, Step, SequenceLabel, Starting
  <2>4. ReceiveSequence(t) => \E l \in SequenceLabel : At(t, l)
    BY DEF ReceiveSequence, Rx_Take, Rx_Asked, Rx_End, Rx_Stop, Move, Step, SequenceLabel, Starting
  <2>5. \E l \in SequenceLabel : At(t, l) BY <1>1, <2>1, <2>2, <2>3, <2>4 DEF SequenceStep
  <2> QED BY <2>5 DEF At
<1>2. InitStep => pc["main"] \in InitLabel /\ pc["isr"] = "none"
  BY DEF InitStep, Step, At, InitLabel
<1>3. BlockingStep => pc["main"] \in BlockingLabel /\ pc["isr"] = "none"
  BY DEF BlockingStep, Step, Result, At, BlockingLabel
<1>4. MainCalls => pc["main"] = "ready" /\ pc["isr"] = "none" BY DEF MainCalls, At
<1>5. IRQ_Ack => pc["isr"] = "irqAck" BY DEF IRQ_Ack, Step, At
<1>6. IRQ_Dispatch => pc["isr"] = "irqDispatch" BY DEF IRQ_Dispatch, At
<1> QED BY <1>1, <1>2, <1>3, <1>4, <1>5, <1>6 DEF CpuMoves, Thread

\* A handle whose state is set.
LEMMA SetState ==
  ASSUME NEW f \in [Direction -> Handle], NEW e \in Direction, NEW s \in ItState
  PROVE  /\ [f EXCEPT ![e].state = s] \in [Direction -> Handle]
         /\ [f EXCEPT ![e].state = s][e] = [f[e] EXCEPT !.state = s]
         /\ \A g \in Direction : g # e => [f EXCEPT ![e].state = s][g] = f[g]
         /\ [f EXCEPT ![e].state = s][e].state = s
         /\ [f EXCEPT ![e].state = s][e].dev = f[e].dev
         /\ [f EXCEPT ![e].state = s][e].next = f[e].next
         /\ [f EXCEPT ![e].state = s][e].left = f[e].left
         /\ [f EXCEPT ![e].state = s][e].size = f[e].size
BY DEF Handle

(***************************************************************************)
(* What the situations say of the two threads.                             *)
(***************************************************************************)
Control == Types /\ Enabled /\ Owned

Flow ==
  /\ pc["main"] \in InitLabel \cup BlockingLabel \cup {"itEnable"} => Alone
  /\ pc["main"] \in Starting => State = BUSY(dir("main")) /\ IT[dir("main")].state \in {"READY", "ADDRESS"}
  /\ pc["isr"] \in Starting => State = BUSY(dir("isr"))
  /\ pc["isr"] \in {"irqAck", "irqDispatch"} => State # "READY"
  /\ pc["isr"] \in {"itEnable", "complete", "rxDisable", "rxStop"} => State = "READY"
  /\ pc["isr"] \in {"txByte", "txLast", "txCommand", "txLastCommand", "txSent"} =>
       State = BUSY("tx") /\ h.left \in Nat \ {0}
  /\ pc["isr"] \in {"rxTake", "rxAsked"} => State = BUSY("rx") /\ r.left \in Nat \ {0}
  /\ State = "READY" => \A d \in Direction : IT[d].state = "READY"

\* The two handles.
LEMMA Handles ==
  ASSUME Types
  PROVE  /\ h \in Handle /\ h.state \in ItState /\ h.left \in Nat /\ h.next \in Nat /\ h.size \in Nat
         /\ r \in Handle /\ r.state \in ItState /\ r.left \in Nat /\ r.next \in Nat /\ r.size \in Nat
<1>1. h \in Handle /\ r \in Handle BY DEF Types, h, r, Direction
<1> QED BY <1>1 DEF Handle

\* Each situation has the threads where Flow says.
LEMMA FlowHolds ==
  ASSUME Control, Situation
  PROVE  Flow
<1> USE DEF InitLabel, BlockingLabel, Starting, BUSY, Direction
<1>0. State = "READY" => \A d \in Direction : IT[d].state = "READY" BY DEF Control, Owned
<1>1. CASE StartsUp BY <1>0, <1>1 DEF StartsUp, Alone, Flow
<1>2. CASE Rests BY <1>0, <1>2 DEF Rests, Alone, Flow
<1>3. CASE Calls BY <1>0, <1>3 DEF Calls, CallsAddress, CallsSend, CallsRead, Alone, Flow
<1>4. CASE \E d \in Direction : Addressing(d)
  <2>1. PICK d \in Direction : Addressing(d) BY <1>4
  <2>2. /\ State = BUSY(d) /\ IT[d].state \in {"READY", "ADDRESS"}
        /\ pc["main"] \in {"ready"} \cup Starting
        /\ pc["isr"] \in {"none", "irqAck", "irqDispatch"} \cup Starting
        /\ (pc["main"] \in Starting => dir("main") = d) /\ (pc["isr"] \in Starting => dir("isr") = d)
    BY <2>1 DEF Addressing, AddressFrame, Thread, dir
  <2>3. State # "READY" BY <2>2
  <2> QED BY <1>0, <2>2, <2>3 DEF Flow
<1>5. CASE ItSends
  <2>1. /\ State = BUSY("tx") /\ pc["main"] = "ready"
        /\ pc["isr"] \in {"none", "irqAck", "irqDispatch", "sequence", "txByte", "txLast",
                         "txCommand", "txLastCommand", "txSent"}
        /\ pc["isr"] = "sequence" => dir("isr") = "tx"
        /\ h.left \in Nat
        /\ pc["isr"] \in {"txByte", "txLast", "txCommand", "txLastCommand", "txSent"} => h.left >= 1
    BY <1>5, Handles DEF ItSends, Control
  <2> QED BY <1>0, <2>1 DEF Flow
<1>6. CASE ItReads
  <2>1. /\ pc["main"] = "ready" /\ r.left \in Nat
        /\ \/ /\ State = BUSY("rx") /\ pc["isr"] \in {"none", "irqAck", "irqDispatch", "sequence", "rxTake", "rxAsked"}
              /\ pc["isr"] \in {"rxTake", "rxAsked"} => r.left >= 1
           \/ State = "READY" /\ pc["isr"] \in {"rxDisable", "rxStop"}
        /\ pc["isr"] = "sequence" => dir("isr") = "rx"
    BY <1>6 DEF ItReads
  <2> QED BY <1>0, <2>1 DEF Flow
<1> QED BY <1>1, <1>2, <1>3, <1>4, <1>5, <1>6 DEF Situation

\* A step of t that leaves the control register alone.
LEMMA Steers ==
  ASSUME Types, Enabled, CpuMoves, NEW c \in Bit, DeviceStep(c),
         NEW t \in Thread, NEW to, pc' = [pc EXCEPT ![t] = to],
         IF t = "main" THEN to \in MainLabel ELSE to \in IsrLabel,
         bus' = <<bus'[1], bus'[2]>>, bus'[1] \in {"none", "other", "TXR", "CR"},
         bus'[1] = "CR" => bus'[2] \subseteq CrBit,
         pc[t] \notin {"rxDisable", "initDisable", "initEnable"},
         to \in {"initFlag", "initAck", "initEnable"} => pc[t] \in {"initFlag", "initAck"},
         pc["main"] \in InitLabel => t = "main" /\ to \in InitLabel,
         State' = State, arg' \in [Thread -> Call], n' \in Nat, IT' \in [Direction -> Handle]
  PROVE  Types' /\ Enabled'
<1>1. /\ CtrNext = ctr /\ ctr' = ctr /\ DeviceTypes' /\ DeviceTypes /\ Lands("none", {}) BY MoveClock
<1>2. CtrNext' = ctr BY <1>1 DEF CtrNext
<1>3. /\ pc' \in [Thread -> MainLabel \cup IsrLabel] /\ pc'["main"] \in MainLabel /\ pc'["isr"] \in IsrLabel
      /\ pc'["main"] = IF t = "main" THEN to ELSE pc["main"]
      /\ pc'["isr"] = IF t = "isr" THEN to ELSE pc["isr"]
  BY DEF Types, Thread
<1>4. Types' BY <1>1, <1>3 DEF Types
<1>5. inta' = 1 => "IEN" \in ctr BY <1>1, FlagStep
<1>6. inta' \in Bit BY <1>1 DEF DeviceTypes
<1>7. State = "READY" /\ pc'["isr"] # "rxDisable" => "IEN" \notin ctr
  <2>1. pc["isr"] = "rxDisable" => pc'["isr"] = "rxDisable" BY <1>3 DEF Thread
  <2> QED BY <1>1, <2>1 DEF Enabled
<1>8. pc'["main"] \notin InitLabel => "EN" \in ctr BY <1>1, <1>3 DEF Enabled, Thread
<1>9. pc'["main"] \in {"initFlag", "initAck", "initEnable"} => ctr = {} BY <1>1, <1>3 DEF Enabled, Thread
<1> QED BY <1>1, <1>2, <1>3, <1>4, <1>5, <1>6, <1>7, <1>8, <1>9 DEF Enabled, Bit

\* A step that makes no write to the control register and leaves State alone.
Plain(t) ==
  /\ \E to \in (IF t = "main" THEN MainLabel ELSE IsrLabel) :
       /\ pc' = [pc EXCEPT ![t] = to]
       /\ pc[t] \notin {"rxDisable", "initDisable", "initEnable"}
       /\ to \in {"initFlag", "initAck", "initEnable"} => pc[t] \in {"initFlag", "initAck"}
       /\ pc["main"] \in InitLabel => t = "main" /\ to \in InitLabel
  /\ bus' \in {None, Other} \/ (\E x : bus' = Write("TXR", x)) \/ (\E W \in SUBSET CrBit : bus' = Write("CR", W))
  /\ State' = State

\* It keeps the control register with the handle.
LEMMA PlainControl ==
  ASSUME Control, CpuMoves, NEW c \in Bit, DeviceStep(c), NEW t \in Thread, Plain(t),
         arg' \in [Thread -> Call], n' \in Nat, IT' \in [Direction -> Handle], Owned'
  PROVE  Control'
<1>1. PICK to \in (IF t = "main" THEN MainLabel ELSE IsrLabel) :
       /\ pc' = [pc EXCEPT ![t] = to]
       /\ pc[t] \notin {"rxDisable", "initDisable", "initEnable"}
       /\ to \in {"initFlag", "initAck", "initEnable"} => pc[t] \in {"initFlag", "initAck"}
       /\ pc["main"] \in InitLabel => t = "main" /\ to \in InitLabel
  BY DEF Plain
<1>2. /\ bus' = <<bus'[1], bus'[2]>> /\ bus'[1] \in {"none", "other", "TXR", "CR"}
      /\ bus'[1] = "CR" => bus'[2] \subseteq CrBit
  BY DEF Plain, None, Other, Write
<1>3. State' = State BY DEF Plain
<1>4. Types' /\ Enabled' BY <1>1, <1>2, <1>3, Steers DEF Control
<1> QED BY <1>4 DEF Control

\* The same when the handle and the arguments stay as they are.
LEMMA StillControl ==
  ASSUME Control, CpuMoves, NEW c \in Bit, DeviceStep(c), NEW t \in Thread, Plain(t),
         arg' = arg, n' = n, IT' = IT
  PROVE  Control'
<1>1. arg' \in [Thread -> Call] /\ n' \in Nat /\ IT' \in [Direction -> Handle] BY DEF Control, Types
<1>2. State' = State BY DEF Plain
<1>3. Owned' BY <1>2 DEF Control, Owned
<1> QED BY <1>1, <1>3, PlainControl

\* An instruction that only makes an access.
LEMMA StepPlain ==
  ASSUME Control, Flow, NEW t \in Thread,
         NEW from, NEW to \in (IF t = "main" THEN MainLabel ELSE IsrLabel),
         pc[t] = from, pc' = [pc EXCEPT ![t] = to], State' = State,
         bus' \in {None, Other} \/ (\E x : bus' = Write("TXR", x)) \/ (\E W \in SUBSET CrBit : bus' = Write("CR", W)),
         from \notin InitLabel \cup {"rxDisable", "none"}, to \notin InitLabel
  PROVE  Plain(t)
<1>1. pc["main"] \notin InitLabel
  <2>1. CASE t = "main" BY <2>1
  <2>2. CASE t = "isr" BY <2>2 DEF Flow, Alone
  <2> QED BY <2>1, <2>2 DEF Thread
<1>2. pc[t] \notin {"rxDisable", "initDisable", "initEnable"} BY DEF InitLabel
<1>3. to \notin {"initFlag", "initAck", "initEnable"} BY DEF InitLabel
<1> HIDE DEF InitLabel, MainLabel, IsrLabel
<1> QED BY <1>1, <1>2, <1>3 DEF Plain

\* Main works on a transfer only up to its address.
LEMMA MainStarts ==
  ASSUME Control, Flow
  PROVE  ~TransmitSequence("main") /\ ~ReceiveSequence("main") /\ ~Callback("main")
<1>1. pc["main"] \notin {"txByte", "txLast", "txCommand", "txLastCommand", "txSent", "complete",
                         "rxTake", "rxAsked", "rxDisable", "rxStop"}
  BY DEF Control, Types, MainLabel, InitLabel, BlockingLabel, Starting
<1>2. \A s \in {"DATA", "GET_DATA", "END"} : ~In("main", s) BY DEF Flow, In, Starting
<1> QED BY <1>1, <1>2 DEF TransmitSequence, Tx_Sent, Tx_End, ReceiveSequence, Rx_Take, Rx_Asked, Rx_End, Rx_Stop,
     Callback, InDir, Step, Move, At

\* The first steps of a transfer.
LEMMA AddressControl ==
  ASSUME Control, Flow, CpuMoves, NEW c \in Bit, DeviceStep(c), NEW t \in Thread,
         IT_State(t) \/ IT_Fields(t) \/ AddressSequence(t)
  PROVE  Control'
<1> DEFINE e == dir(t)
<1>0. e \in Direction /\ arg[t].dev \in Devices /\ arg[t].size \in Nat
  BY DriverAssumption DEF dir, Control, Types, Call
<1>1. CASE IT_State(t)
  <2>1. pc[t] = "itState" /\ pc' = [pc EXCEPT ![t] = "itFields"] /\ bus' = Other /\ State' = State
        /\ arg' = arg /\ n' = n /\ IT' = [IT EXCEPT ![e].state = "READY"]
    BY <1>1 DEF IT_State, At, To
  <2>2. Plain(t) BY <2>1, StepPlain DEF MainLabel, IsrLabel, Starting, InitLabel
  <2>3. /\ IT' \in [Direction -> Handle] /\ IT'[e].state = "READY"
        /\ \A g \in Direction : g # e => IT'[g] = IT[g]
    <3>1. IT \in [Direction -> Handle] /\ "READY" \in ItState BY DEF ItState, Control, Types
    <3> HIDE DEF e
    <3> QED BY <1>0, <2>1, <3>1, SetState
  <2>4. Owned' BY <2>1, <2>3 DEF Control, Owned
  <2>5. arg' \in [Thread -> Call] /\ n' \in Nat BY <2>1 DEF Control, Types
  <2> QED BY <2>2, <2>3, <2>4, <2>5, PlainControl
<1>2. CASE IT_Fields(t)
  <2>1. pc[t] = "itFields" /\ pc' = [pc EXCEPT ![t] = "sequence"] /\ bus' = Other /\ State' = State
        /\ arg' = arg /\ n' = n
        /\ IT' = [IT EXCEPT ![e] = [state |-> @.state, dev |-> arg[t].dev, next |-> 1,
                                    left |-> arg[t].size, size |-> arg[t].size]]
    BY <1>2 DEF IT_Fields, At, To
  <2>2. Plain(t) BY <2>1, StepPlain DEF MainLabel, IsrLabel, Starting, InitLabel
  <2>3. IT \in [Direction -> Handle] /\ IT[e].state \in ItState BY <1>0 DEF Control, Types, Handle
  <2>4. [state |-> IT[e].state, dev |-> arg[t].dev, next |-> 1, left |-> arg[t].size, size |-> arg[t].size] \in Handle
    BY <1>0, <2>3 DEF Handle
  <2>5. IT' \in [Direction -> Handle] BY <1>0, <2>1, <2>3, <2>4
  <2>6. \A g \in Direction : IT'[g].state = IT[g].state BY <1>0, <2>1, <2>3
  <2>7. Owned' BY <2>1, <2>6 DEF Control, Owned
  <2>8. arg' \in [Thread -> Call] /\ n' \in Nat BY <2>1 DEF Control, Types
  <2> QED BY <2>2, <2>5, <2>7, <2>8, PlainControl
<1>3. CASE AddressSequence(t)
  <2>1. ASSUME NEW from \in Starting, NEW to \in {"sequence", "none", "ready"}, NEW s \in ItState,
               pc[t] = from, pc' = [pc EXCEPT ![t] = to], to \in IF t = "main" THEN MainLabel ELSE IsrLabel,
               bus' \in {None, Other}, State' = State, arg' = arg, n' = n, IT' = [IT EXCEPT ![e].state = s]
        PROVE  Control'
    <3>1. Plain(t) BY <2>1, StepPlain DEF InitLabel, Starting
    <3>2. /\ IT' \in [Direction -> Handle] /\ \A g \in Direction : g # e => IT'[g] = IT[g]
      BY <1>0, <2>1, SetState DEF Control, Types
    <3>3. State = BUSY(e) BY <2>1 DEF Flow, Thread
    <3>4. Owned' BY <2>1, <3>2, <3>3 DEF Control, Owned
    <3>5. arg' \in [Thread -> Call] /\ n' \in Nat BY <2>1 DEF Control, Types
    <3> QED BY <3>1, <3>2, <3>4, <3>5, PlainControl
  <2>2. CASE In(t, "ADDRESS") /\ Move(t, "sequence", "sequence", Other, AfterAddress)
    <3>1. AfterAddress \in {"DATA", "READY"} BY DEF AfterAddress
    <3>2. PICK s \in {"DATA", "READY"} : s = AfterAddress BY <3>1
    <3>3. pc[t] = "sequence" /\ pc' = [pc EXCEPT ![t] = "sequence"] /\ bus' = Other /\ State' = State
          /\ arg' = arg /\ n' = n /\ IT' = [IT EXCEPT ![e].state = s]
      BY <2>2, <3>2 DEF Move, At, To
    <3>4. s \in ItState /\ "sequence" \in Starting /\ "sequence" \in MainLabel /\ "sequence" \in IsrLabel
      BY DEF ItState, Starting, MainLabel, IsrLabel
    <3> QED BY <2>1, <3>3, <3>4
  <2>3. CASE Move(t, "seqStarted", Back(t), None, "ADDRESS")
    <3>1. pc[t] = "seqStarted" /\ pc' = [pc EXCEPT ![t] = Back(t)] /\ bus' = None /\ State' = State
          /\ arg' = arg /\ n' = n /\ IT' = [IT EXCEPT ![e].state = "ADDRESS"]
      BY <2>3 DEF Move, At, To
    <3>2. /\ Back(t) \in {"none", "ready"} /\ "ADDRESS" \in ItState /\ "seqStarted" \in Starting
          /\ Back(t) \in IF t = "main" THEN MainLabel ELSE IsrLabel
      BY DEF ItState, Starting, MainLabel, IsrLabel, Back, Thread
    <3>3. PICK to \in {"none", "ready"} : to = Back(t) BY <3>2
    <3> QED BY <2>1, <3>1, <3>2, <3>3
  <2>4. CASE Step(t, "sequence", "seqStart", Write("TXR", AddressByte(dir(t), IT[dir(t)].dev)))
    <3>1. pc[t] = "sequence" /\ pc' = [pc EXCEPT ![t] = "seqStart"] /\ State' = State
          /\ (\E x : bus' = Write("TXR", x)) /\ arg' = arg /\ n' = n /\ IT' = IT
      BY <2>4 DEF Step, At, To
    <3>2. Plain(t) BY <3>1, StepPlain DEF MainLabel, IsrLabel, Starting, InitLabel
    <3> QED BY <3>1, <3>2, StillControl
  <2>5. CASE Step(t, "seqStart", "seqStarted", Write("CR", {"STA", "WR"}))
    <3>1. pc[t] = "seqStart" /\ pc' = [pc EXCEPT ![t] = "seqStarted"] /\ State' = State
          /\ bus' = Write("CR", {"STA", "WR"}) /\ arg' = arg /\ n' = n /\ IT' = IT
      BY <2>5 DEF Step, At, To
    <3>2. {"STA", "WR"} \in SUBSET CrBit BY DEF CrBit, Command
    <3>3. Plain(t) BY <3>1, <3>2, StepPlain DEF MainLabel, IsrLabel, Starting, InitLabel
    <3> QED BY <3>1, <3>3, StillControl
  <2> QED BY <1>3, <2>2, <2>3, <2>4, <2>5 DEF AddressSequence
<1> QED BY <1>1, <1>2, <1>3

\* Enabling the interrupt.
LEMMA EnableControl ==
  ASSUME Control, Flow, CpuMoves, NEW c \in Bit, DeviceStep(c), NEW t \in Thread, IT_Enable(t)
  PROVE  Control'
<1>1. /\ pc[t] = "itEnable" /\ pc' = [pc EXCEPT ![t] = "itState"] /\ bus' = Write("CTR", ctr \cup {"IEN"})
      /\ State' = BUSY(dir(t)) /\ arg' = arg /\ n' = n /\ IT' = IT
  BY DEF IT_Enable, At, To, ENABLE_INT
<1>2. State = "READY" /\ pc["main"] \notin InitLabel
  BY <1>1 DEF Flow, Alone, Thread, InitLabel
<1>3. CtrNext = ctr /\ ctr' = ctr /\ DeviceTypes' /\ ctr \subseteq CtrBit BY MoveClock DEF DeviceTypes, Control
<1>4. "EN" \in ctr BY <1>2, <1>3 DEF Control, Enabled
<1>5. State' \in {"BUSY_TX_IT", "BUSY_RX_IT"} BY <1>1 DEF BUSY
<1>6. bus' = <<bus'[1], bus'[2]>> /\ bus'[1] = "CTR" /\ bus'[2] = ctr \cup {"IEN"} /\ bus'[2] \subseteq CtrBit
  BY <1>1, <1>3 DEF Write, CtrBit
<1>7. /\ pc' \in [Thread -> MainLabel \cup IsrLabel] /\ pc'["main"] \in MainLabel /\ pc'["isr"] \in IsrLabel
      /\ pc'["main"] \in {pc["main"], "itState"}
  BY <1>1 DEF Control, Types, Thread, MainLabel, IsrLabel, Starting
<1>8. Types' BY <1>1, <1>3, <1>5, <1>6, <1>7 DEF Control, Types
<1>9. CtrNext' = ctr \cup {"IEN"} BY <1>6 DEF CtrNext
<1>10. Enabled' BY <1>2, <1>4, <1>5, <1>7, <1>9 DEF Enabled, InitLabel
<1>11. Owned' BY <1>1, <1>2 DEF Control, Owned, Flow
<1> QED BY <1>8, <1>10, <1>11 DEF Control

\* The handler's steps of a transmission.
LEMMA TransmitControl ==
  ASSUME Control, Flow, CpuMoves, NEW c \in Bit, DeviceStep(c), TransmitSequence("isr")
  PROVE  Control'
<1>0. ASSUME NEW from \in IsrLabel \ {"none", "rxDisable"}, NEW to \in IsrLabel, pc["isr"] = from,
             pc' = [pc EXCEPT !["isr"] = to], State' = State, to \notin InitLabel, from \notin InitLabel,
             bus' \in {None, Other} \/ (\E x : bus' = Write("TXR", x)) \/ (\E W \in SUBSET CrBit : bus' = Write("CR", W))
      PROVE  Plain("isr")
  BY <1>0, StepPlain DEF Thread
<1>1. CASE /\ pc["isr"] = "sequence" /\ dir("isr") = "tx"
           /\ \/ Move("isr", "sequence", "sequence", Other, "END")
              \/ Move("isr", "sequence", "txLast", Other, "END")
  <2>1. PICK to \in {"sequence", "txLast"} : Move("isr", "sequence", to, Other, "END") BY <1>1
  <2>2. /\ pc["isr"] = "sequence" /\ pc' = [pc EXCEPT !["isr"] = to] /\ bus' = Other /\ State' = State
        /\ arg' = arg /\ n' = n /\ IT' = [IT EXCEPT !["tx"].state = "END"]
    BY <1>1, <2>1 DEF Move, At, To
  <2>3. Plain("isr") BY <1>0, <2>2 DEF IsrLabel, Starting, InitLabel
  <2>4. State = BUSY("tx") BY <1>1 DEF Flow, Starting
  <2>5. "tx" \in Direction /\ "END" \in ItState /\ IT \in [Direction -> Handle]
    BY DEF Direction, ItState, Control, Types
  <2>6. IT' \in [Direction -> Handle] /\ \A g \in Direction : g # "tx" => IT'[g] = IT[g]
    BY <2>2, <2>5, SetState
  <2>7. Owned' BY <2>2, <2>4, <2>6 DEF Control, Owned
  <2>8. arg' \in [Thread -> Call] /\ n' \in Nat BY <2>2 DEF Control, Types
  <2> QED BY <2>3, <2>6, <2>7, <2>8, PlainControl DEF Thread
<1>2. CASE \/ Step("isr", "sequence", "txByte", Other)
           \/ Step("isr", "txByte", "txCommand", Write("TXR", IT["tx"].next))
           \/ Step("isr", "txLast", "txLastCommand", Write("TXR", IT["tx"].next))
           \/ Step("isr", "txCommand", "txSent", Write("CR", {"WR"}))
           \/ Step("isr", "txLastCommand", "txSent", Write("CR", {"WR", "STO"}))
  <2>1. {"WR"} \in SUBSET CrBit /\ {"WR", "STO"} \in SUBSET CrBit BY DEF CrBit, Command
  <2>2. \E from \in {"sequence", "txByte", "txLast", "txCommand", "txLastCommand"},
           to \in {"txByte", "txCommand", "txLastCommand", "txSent"} :
          pc["isr"] = from /\ pc' = [pc EXCEPT !["isr"] = to]
    BY <1>2 DEF Step, At, To
  <2>3. /\ bus' = Other \/ (\E x : bus' = Write("TXR", x)) \/ (\E W \in SUBSET CrBit : bus' = Write("CR", W))
        /\ State' = State /\ arg' = arg /\ n' = n /\ IT' = IT
    BY <1>2, <2>1 DEF Step, At, To
  <2>4. PICK from \in {"sequence", "txByte", "txLast", "txCommand", "txLastCommand"},
             to \in {"txByte", "txCommand", "txLastCommand", "txSent"} :
          pc["isr"] = from /\ pc' = [pc EXCEPT !["isr"] = to]
    BY <2>2
  <2>5. /\ from \in IsrLabel \ {"none", "rxDisable"} /\ from \notin InitLabel
        /\ to \in IsrLabel /\ to \notin InitLabel
    BY DEF IsrLabel, Starting, InitLabel
  <2>6. bus' \in {None, Other} \/ (\E x : bus' = Write("TXR", x)) \/ (\E W \in SUBSET CrBit : bus' = Write("CR", W))
    BY <2>3
  <2>7. Plain("isr") BY <1>0, <2>3, <2>4, <2>5, <2>6
  <2> QED BY <2>3, <2>7, StillControl DEF Thread
<1>3. CASE Tx_Sent("isr")
  <2>1. /\ pc["isr"] = "txSent" /\ pc' = [pc EXCEPT !["isr"] = "none"] /\ bus' = None /\ State' = State
        /\ arg' = arg /\ n' = n /\ IT' = [IT EXCEPT !["tx"].next = @ + 1, !["tx"].left = @ - 1]
    BY <1>3 DEF Tx_Sent, At, To, Back
  <2>2. Plain("isr") BY <1>0, <2>1 DEF IsrLabel, Starting, InitLabel
  <2>3. h.left - 1 \in Nat BY <2>1 DEF Flow
  <2>4. IT \in [Direction -> Handle] /\ h \in Handle /\ h.next + 1 \in Nat BY Handles DEF Control, Types
  <2>5. IT' = [IT EXCEPT !["tx"] = [h EXCEPT !.next = h.next + 1, !.left = h.left - 1]]
    BY <2>1, <2>4 DEF h, Handle, Direction
  <2>6. [h EXCEPT !.next = h.next + 1, !.left = h.left - 1] \in Handle
        /\ [h EXCEPT !.next = h.next + 1, !.left = h.left - 1].state = h.state
    BY <2>3, <2>4 DEF Handle
  <2>7. IT' \in [Direction -> Handle] /\ \A g \in Direction : IT'[g].state = IT[g].state
    BY <2>4, <2>5, <2>6 DEF h, Direction
  <2>8. Owned' BY <2>1, <2>7 DEF Control, Owned
  <2>9. arg' \in [Thread -> Call] /\ n' \in Nat BY <2>1 DEF Control, Types
  <2> QED BY <2>2, <2>7, <2>8, <2>9, PlainControl DEF Thread
<1>4. CASE Tx_End("isr")
  <2>1. /\ pc["isr"] = "sequence" /\ pc' = [pc EXCEPT !["isr"] = "complete"] /\ bus' = Write("CTR", ctr \ {"IEN"})
        /\ State' = "READY" /\ arg' = arg /\ n' = n /\ IT' = [IT EXCEPT !["tx"].state = "READY"]
        /\ dir("isr") = "tx"
    BY <1>4 DEF Tx_End, InDir, In, At, To, DISABLE_INT
  <2>2. State = BUSY("tx") /\ State # "READY" BY <2>1 DEF Flow, Starting, BUSY
  <2>3. pc["main"] \notin InitLabel BY <2>2 DEF Flow, Alone
  <2>4. CtrNext = ctr /\ ctr' = ctr /\ DeviceTypes' /\ ctr \subseteq CtrBit BY MoveClock DEF DeviceTypes, Control
  <2>5. bus' = <<bus'[1], bus'[2]>> /\ bus'[1] = "CTR" /\ bus'[2] = ctr \ {"IEN"} /\ bus'[2] \subseteq CtrBit
    BY <2>1, <2>4 DEF Write
  <2>6. "tx" \in Direction /\ "READY" \in ItState /\ IT \in [Direction -> Handle]
    BY DEF Direction, ItState, Control, Types
  <2>7. IT' \in [Direction -> Handle] /\ IT'["tx"].state = "READY" /\ \A g \in Direction : g # "tx" => IT'[g] = IT[g]
    BY <2>1, <2>6, SetState
  <2>8. /\ pc' \in [Thread -> MainLabel \cup IsrLabel] /\ pc'["main"] = pc["main"] /\ pc'["isr"] = "complete"
        /\ pc'["main"] \in MainLabel /\ pc'["isr"] \in IsrLabel
    BY <2>1 DEF Control, Types, Thread, IsrLabel
  <2>9. Types' BY <2>1, <2>4, <2>5, <2>7, <2>8 DEF Control, Types
  <2>10. CtrNext' = ctr \ {"IEN"} BY <2>5 DEF CtrNext
  <2>11. Enabled' BY <2>1, <2>3, <2>4, <2>8, <2>10 DEF Control, Enabled, InitLabel
  <2>12. Owned' BY <2>2, <2>7 DEF Control, Owned, BUSY, Direction
  <2> QED BY <2>9, <2>11, <2>12 DEF Control
<1> QED BY <1>1, <1>2, <1>3, <1>4 DEF TransmitSequence, InDir, In

\* The handler's steps of a reception.
LEMMA ReceiveControl ==
  ASSUME Control, Flow, CpuMoves, NEW c \in Bit, DeviceStep(c), ReceiveSequence("isr")
  PROVE  Control'
<1>0. ASSUME NEW from \in IsrLabel \ {"none", "rxDisable"}, NEW to \in IsrLabel, pc["isr"] = from,
             pc' = [pc EXCEPT !["isr"] = to], State' = State, to \notin InitLabel, from \notin InitLabel,
             bus' \in {None, Other} \/ (\E x : bus' = Write("TXR", x)) \/ (\E W \in SUBSET CrBit : bus' = Write("CR", W))
      PROVE  Plain("isr")
  BY <1>0, StepPlain DEF Thread
<1>1. ASSUME NEW from \in {"sequence", "rxTake"}, NEW s \in {"END", "DATA"}, pc["isr"] = from,
             pc' = [pc EXCEPT !["isr"] = "sequence"], bus' = Other, State' = State,
             State = BUSY("rx"), arg' = arg, n' = n, IT' = [IT EXCEPT !["rx"].state = s]
      PROVE  Control'
  <2>1. Plain("isr") BY <1>0, <1>1 DEF IsrLabel, Starting, InitLabel
  <2>2. "rx" \in Direction /\ s \in ItState /\ IT \in [Direction -> Handle]
    BY DEF Direction, ItState, Control, Types
  <2>3. IT' \in [Direction -> Handle] /\ \A g \in Direction : g # "rx" => IT'[g] = IT[g]
    BY <1>1, <2>2, SetState
  <2>4. Owned' BY <1>1, <2>3 DEF Control, Owned
  <2>5. arg' \in [Thread -> Call] /\ n' \in Nat BY <1>1 DEF Control, Types
  <2> QED BY <2>1, <2>3, <2>4, <2>5, PlainControl DEF Thread
<1>2. CASE InDir("isr", "rx", "GET_DATA") /\ Move("isr", "sequence", "sequence", Other, "END")
  <2>1. State = BUSY("rx") BY <1>2 DEF Flow, InDir, In, Starting
  <2> QED BY <1>1, <1>2, <2>1 DEF InDir, In, Move, At, To
<1>3. CASE Rx_Take("isr")
  <2>1. State = BUSY("rx") BY <1>3 DEF Flow, Rx_Take, At
  <2> QED BY <1>1, <1>3, <2>1 DEF Rx_Take, At, To
<1>4. CASE \/ Step("isr", "sequence", "rxTake", Other)
           \/ Step("isr", "sequence", "rxAsked", Write("CR", AskFlags))
           \/ Rx_Stop("isr")
  <2>1. AskFlags \in SUBSET CrBit /\ {"STO"} \in SUBSET CrBit BY DEF AskFlags, If, CrBit, Command
  <2>2. \E from \in {"sequence", "rxStop"}, to \in {"rxTake", "rxAsked", "complete"} :
          pc["isr"] = from /\ pc' = [pc EXCEPT !["isr"] = to]
    BY <1>4 DEF Rx_Stop, Step, At, To
  <2>3. /\ bus' = Other \/ (\E W \in SUBSET CrBit : bus' = Write("CR", W))
        /\ State' = State /\ arg' = arg /\ n' = n /\ IT' = IT
    BY <1>4, <2>1 DEF Rx_Stop, Step, At, To
  <2>4. Plain("isr") BY <1>0, <2>2, <2>3 DEF IsrLabel, Starting, InitLabel
  <2> QED BY <2>3, <2>4, StillControl DEF Thread
<1>5. CASE Rx_Asked("isr")
  <2>1. /\ pc["isr"] = "rxAsked" /\ pc' = [pc EXCEPT !["isr"] = "none"] /\ bus' = None /\ State' = State
        /\ arg' = arg /\ n' = n /\ IT' = [IT EXCEPT !["rx"].state = "GET_DATA", !["rx"].left = @ - 1]
    BY <1>5 DEF Rx_Asked, At, To, Back
  <2>2. Plain("isr") BY <1>0, <2>1 DEF IsrLabel, Starting, InitLabel
  <2>3. r.left - 1 \in Nat /\ State = BUSY("rx") BY <2>1 DEF Flow
  <2>4. IT \in [Direction -> Handle] /\ r \in Handle BY Handles DEF Control, Types
  <2>5. IT' = [IT EXCEPT !["rx"] = [r EXCEPT !.state = "GET_DATA", !.left = r.left - 1]]
    BY <2>1, <2>4 DEF r, Handle, Direction
  <2>6. [r EXCEPT !.state = "GET_DATA", !.left = r.left - 1] \in Handle
    BY <2>3, <2>4 DEF Handle, ItState
  <2>7. IT' \in [Direction -> Handle] /\ IT'["tx"] = IT["tx"]
    BY <2>4, <2>5, <2>6 DEF Direction
  <2>8. Owned' BY <2>1, <2>3, <2>7 DEF Control, Owned, Direction
  <2>9. arg' \in [Thread -> Call] /\ n' \in Nat BY <2>1 DEF Control, Types
  <2> QED BY <2>2, <2>7, <2>8, <2>9, PlainControl DEF Thread
<1>6. CASE Rx_End("isr")
  <2>1. /\ pc["isr"] = "sequence" /\ pc' = [pc EXCEPT !["isr"] = "rxDisable"] /\ bus' = Other
        /\ State' = "READY" /\ arg' = arg /\ n' = n /\ IT' = [IT EXCEPT !["rx"].state = "READY"]
        /\ dir("isr") = "rx"
    BY <1>6 DEF Rx_End, InDir, In, At, To
  <2>2. State = BUSY("rx") /\ State # "READY" BY <2>1 DEF Flow, Starting, BUSY
  <2>3. pc["main"] \notin InitLabel BY <2>2 DEF Flow, Alone
  <2>4. CtrNext = ctr /\ ctr' = ctr /\ DeviceTypes' BY MoveClock DEF Control
  <2>5. bus' = <<bus'[1], bus'[2]>> /\ bus'[1] = "other" BY <2>1 DEF Other
  <2>6. "rx" \in Direction /\ "READY" \in ItState /\ IT \in [Direction -> Handle]
    BY DEF Direction, ItState, Control, Types
  <2>7. IT' \in [Direction -> Handle] /\ IT'["rx"].state = "READY" /\ \A g \in Direction : g # "rx" => IT'[g] = IT[g]
    BY <2>1, <2>6, SetState
  <2>8. /\ pc' \in [Thread -> MainLabel \cup IsrLabel] /\ pc'["main"] = pc["main"] /\ pc'["isr"] = "rxDisable"
        /\ pc'["main"] \in MainLabel /\ pc'["isr"] \in IsrLabel
    BY <2>1 DEF Control, Types, Thread, IsrLabel
  <2>9. Types' BY <2>1, <2>4, <2>5, <2>7, <2>8 DEF Control, Types
  <2>10. CtrNext' = ctr BY <2>4, <2>5 DEF CtrNext
  <2>11. Enabled' BY <2>1, <2>3, <2>4, <2>8, <2>10 DEF Control, Enabled, InitLabel
  <2>12. Owned' BY <2>2, <2>7 DEF Control, Owned, BUSY, Direction
  <2> QED BY <2>9, <2>11, <2>12 DEF Control
<1>7. CASE Step("isr", "rxDisable", "rxStop", Write("CTR", DISABLE_INT))
  <2>1. /\ pc["isr"] = "rxDisable" /\ pc' = [pc EXCEPT !["isr"] = "rxStop"] /\ bus' = Write("CTR", ctr \ {"IEN"})
        /\ State' = State /\ arg' = arg /\ n' = n /\ IT' = IT
    BY <1>7 DEF Step, At, To, DISABLE_INT
  <2>2. State = "READY" /\ pc["main"] \notin InitLabel BY <2>1 DEF Flow, Alone
  <2>3. CtrNext = ctr /\ ctr' = ctr /\ DeviceTypes' /\ ctr \subseteq CtrBit BY MoveClock DEF DeviceTypes, Control
  <2>4. bus' = <<bus'[1], bus'[2]>> /\ bus'[1] = "CTR" /\ bus'[2] = ctr \ {"IEN"} /\ bus'[2] \subseteq CtrBit
    BY <2>1, <2>3 DEF Write
  <2>5. /\ pc' \in [Thread -> MainLabel \cup IsrLabel] /\ pc'["main"] = pc["main"] /\ pc'["isr"] = "rxStop"
        /\ pc'["main"] \in MainLabel /\ pc'["isr"] \in IsrLabel
    BY <2>1 DEF Control, Types, Thread, IsrLabel
  <2>6. Types' BY <2>1, <2>3, <2>4, <2>5 DEF Control, Types
  <2>7. CtrNext' = ctr \ {"IEN"} BY <2>4 DEF CtrNext
  <2>8. Enabled' BY <2>1, <2>2, <2>3, <2>5, <2>7 DEF Control, Enabled, InitLabel
  <2>9. Owned' BY <2>1 DEF Control, Owned
  <2> QED BY <2>6, <2>8, <2>9 DEF Control
<1> QED BY <1>2, <1>3, <1>4, <1>5, <1>6, <1>7 DEF ReceiveSequence

\* The callback: back to the program, or another transfer.
LEMMA CallbackControl ==
  ASSUME Control, Flow, CpuMoves, NEW c \in Bit, DeviceStep(c), Callback("isr")
  PROVE  Control'
<1>1. "isr" \in Thread /\ {"complete", "itEnable", "none"} \subseteq IsrLabel
  BY DEF Thread, IsrLabel
<1>2. pc["isr"] = "complete" BY DEF Callback, Step, At
<1>3. State = "READY" BY <1>2 DEF Flow
<1>4. CASE Step("isr", "complete", Back("isr"), None)
  <2>1. pc' = [pc EXCEPT !["isr"] = "none"] /\ bus' = None /\ State' = State /\ arg' = arg /\ n' = n /\ IT' = IT
    BY <1>4 DEF Step, To, Back
  <2>2. Plain("isr") BY <1>1, <1>2, <2>1, StepPlain DEF InitLabel
  <2> QED BY <1>1, <2>1, <2>2, StillControl
<1>5. ASSUME NEW k \in Call, k.mode = "IT", StartCall("isr", k)
      PROVE  Control'
  <2>1. /\ pc' = [pc EXCEPT !["isr"] = "itEnable"] /\ bus' = None /\ State' = State /\ IT' = IT
        /\ arg' = [arg EXCEPT !["isr"] = k] /\ n' = 0
    BY <1>3, <1>5 DEF StartCall, To
  <2>2. Plain("isr") BY <1>1, <1>2, <2>1, StepPlain DEF InitLabel
  <2>3. arg' \in [Thread -> Call] /\ n' \in Nat /\ IT' \in [Direction -> Handle] BY <2>1 DEF Control, Types
  <2>4. Owned' BY <2>1 DEF Control, Owned
  <2> QED BY <1>1, <2>2, <2>3, <2>4, PlainControl
<1> QED BY <1>4, <1>5 DEF Callback

\* The handler is entered, acknowledges the interrupt and finds out what it is for.
LEMMA HandlerControl ==
  ASSUME Control, Flow, CpuMoves, NEW c \in Bit, DeviceStep(c),
         \/ Interrupted /\ To("isr", "irqAck", None) /\ UNCHANGED <<arg, n, State, IT, buf, calls>>
         \/ IRQ_Ack \/ IRQ_Dispatch
  PROVE  Control'
<1>1. "isr" \in Thread /\ {"irqAck", "irqDispatch", "sequence"} \subseteq IsrLabel
  BY DEF Thread, IsrLabel, Starting
<1>2. CASE Interrupted /\ To("isr", "irqAck", None) /\ UNCHANGED <<arg, n, State, IT, buf, calls>>
  <2>1. /\ pc["isr"] = "none" /\ pc' = [pc EXCEPT !["isr"] = "irqAck"] /\ bus' = None /\ State' = State
        /\ arg' = arg /\ n' = n /\ IT' = IT
    BY <1>2 DEF Interrupted, To
  <2>2. pc["main"] \notin InitLabel BY <1>2, <2>1 DEF Interrupted, Flow, Alone, Control, Enabled
  <2>3. Plain("isr") BY <1>1, <2>1, <2>2 DEF Plain
  <2> QED BY <1>1, <2>1, <2>3, StillControl
<1>3. CASE IRQ_Ack
  <2>1. /\ pc["isr"] = "irqAck" /\ pc' = [pc EXCEPT !["isr"] = "irqDispatch"] /\ bus' = Write("CR", {"IACK"})
        /\ State' = State /\ arg' = arg /\ n' = n /\ IT' = IT
    BY <1>3 DEF IRQ_Ack, Step, At, To
  <2>2. {"IACK"} \in SUBSET CrBit BY DEF CrBit
  <2>3. Plain("isr") BY <1>1, <2>1, <2>2, StepPlain DEF InitLabel
  <2> QED BY <1>1, <2>1, <2>3, StillControl
<1>4. CASE IRQ_Dispatch
  <2>1. pc["isr"] = "irqDispatch" /\ State # "READY" BY <1>4 DEF IRQ_Dispatch, At, Flow
  <2>2. PICK d \in Direction : State = BUSY(d) /\ arg' = [arg EXCEPT !["isr"].dir = d]
    BY <1>4, <2>1 DEF IRQ_Dispatch
  <2>3. pc' = [pc EXCEPT !["isr"] = "sequence"] /\ bus' = None /\ State' = State /\ n' = n /\ IT' = IT
    BY <1>4, <2>1 DEF IRQ_Dispatch, To
  <2>4. Plain("isr") BY <1>1, <2>1, <2>3, StepPlain DEF InitLabel
  <2>5. arg \in [Thread -> Call] BY DEF Control, Types
  <2>6. [arg["isr"] EXCEPT !.dir = d] \in Call BY <1>1, <2>5 DEF Call
  <2>7. arg' = [arg EXCEPT !["isr"] = [arg["isr"] EXCEPT !.dir = d]] BY <1>1, <2>2, <2>5
  <2>8. arg' \in [Thread -> Call] BY <1>1, <2>5, <2>6, <2>7
  <2>9. n' \in Nat /\ IT' \in [Direction -> Handle] BY <2>3 DEF Control, Types
  <2>10. Owned' BY <2>3 DEF Control, Owned
  <2> QED BY <1>1, <2>4, <2>8, <2>9, <2>10, PlainControl
<1> QED BY <1>2, <1>3, <1>4

\* OC_I2C_Init.
LEMMA InitControl ==
  ASSUME Control, Flow, CpuMoves, NEW c \in Bit, DeviceStep(c), pc["main"] \in InitLabel, InitStep
  PROVE  Control'
<1>1. "main" \in Thread /\ InitLabel \cup {"ready"} \subseteq MainLabel BY DEF Thread, MainLabel
<1>2. Alone BY DEF Flow
<1>3. CtrNext = ctr /\ ctr' = ctr /\ DeviceTypes' /\ DeviceTypes /\ Lands("none", {}) BY MoveClock DEF Control
<1>4. ASSUME NEW to \in InitLabel \cup {"ready"}, NEW W \in SUBSET CtrBit,
             pc' = [pc EXCEPT !["main"] = to], bus' = Write("CTR", W),
             State' = State, arg' = arg, n' = n, IT' = IT,
             to = "ready" => "EN" \in W, to \in {"initFlag", "initAck", "initEnable"} => W = {}, "IEN" \notin W
      PROVE  Control'
  <2>1. bus' = <<bus'[1], bus'[2]>> /\ bus'[1] = "CTR" /\ bus'[2] = W BY <1>4 DEF Write
  <2>2. /\ pc' \in [Thread -> MainLabel \cup IsrLabel] /\ pc'["main"] = to /\ pc'["isr"] = pc["isr"]
        /\ pc'["main"] \in MainLabel /\ pc'["isr"] \in IsrLabel
    BY <1>1, <1>4 DEF Control, Types, Thread
  <2>3. Types' BY <1>3, <1>4, <2>1, <2>2 DEF Control, Types
  <2>4. CtrNext' = W BY <2>1 DEF CtrNext
  <2>5. inta' = 0 /\ "IEN" \notin ctr' BY <1>2, <1>3, FlagStep DEF Control, Enabled, Alone, DeviceTypes, Bit
  <2>6. pc'["main"] \notin InitLabel => to = "ready" BY <1>4, <2>2
  <2>7. Enabled' BY <1>2, <1>4, <2>2, <2>4, <2>5, <2>6 DEF Enabled, Alone
  <2>8. Owned' BY <1>4 DEF Control, Owned
  <2> QED BY <2>3, <2>7, <2>8 DEF Control
<1>5. CASE Step("main", "initDisable", "initFlag", Write("CTR", {}))
  <2>1. "initFlag" \in InitLabel /\ {} \in SUBSET CtrBit BY DEF InitLabel
  <2> QED BY <1>4, <1>5, <2>1 DEF Step, To
<1>6. CASE Step("main", "initEnable", "ready", Write("CTR", {"EN"}))
  <2>1. {"EN"} \in SUBSET CtrBit BY DEF CtrBit
  <2> QED BY <1>4, <1>6, <2>1 DEF Step, To
<1>7. CASE \/ Step("main", "init", "initDisable", Other)
           \/ Step("main", "initFlag", IF "IF" \in Status THEN "initAck" ELSE "initEnable", Other)
           \/ Step("main", "initAck", "initEnable", Write("CR", {"IACK"} \cup If(~Acknowledged, "STA")))
  <2>1. {"IACK"} \cup If(~Acknowledged, "STA") \in SUBSET CrBit BY DEF If, CrBit, Command
  <2>2. PICK to \in {"initDisable", "initAck", "initEnable"} :
          /\ pc' = [pc EXCEPT !["main"] = to]
          /\ to \in {"initAck", "initEnable"} => pc["main"] \in {"initFlag", "initAck"}
          /\ pc["main"] \notin {"initDisable", "initEnable"}
    BY <1>7 DEF Step, At, To
  <2>3. /\ bus' = Other \/ (\E W \in SUBSET CrBit : bus' = Write("CR", W))
        /\ State' = State /\ arg' = arg /\ n' = n /\ IT' = IT
    BY <1>7, <2>1 DEF Step, To
  <2>4. to \in MainLabel /\ to \in InitLabel /\ to # "initFlag" /\ pc["main"] # "rxDisable"
    BY <1>1 DEF InitLabel
  <2>5. Plain("main") BY <1>1, <2>2, <2>3, <2>4 DEF Plain
  <2> QED BY <1>1, <2>3, <2>5, StillControl
<1> QED BY <1>5, <1>6, <1>7 DEF InitStep

\* The program calls a transfer.
LEMMA CallControl ==
  ASSUME Control, Flow, CpuMoves, NEW c \in Bit, DeviceStep(c), pc["main"] = "ready", MainCalls
  PROVE  Control'
<1>1. "main" \in Thread /\ {"ready", "byte", "itEnable"} \subseteq MainLabel
  BY DEF Thread, MainLabel, BlockingLabel
<1>2. PICK k \in Call : StartCall("main", k) BY DEF MainCalls
<1>3. PICK to \in {"ready", "byte", "itEnable"} : pc' = [pc EXCEPT !["main"] = to]
  BY <1>2 DEF StartCall, To
<1>4. bus' = None /\ State' = State /\ IT' = IT BY <1>2 DEF StartCall, To
<1>5. Plain("main") BY <1>1, <1>3, <1>4, StepPlain DEF InitLabel
<1>6. n' \in Nat /\ arg' \in [Thread -> Call] /\ IT' \in [Direction -> Handle]
  BY <1>2 DEF StartCall, Control, Types
<1>7. Owned' BY <1>4 DEF Control, Owned
<1> QED BY <1>1, <1>5, <1>6, <1>7, PlainControl

\* The steps of a blocking transfer.
LEMMA BlockingControl ==
  ASSUME Control, Flow, CpuMoves, NEW c \in Bit, DeviceStep(c), pc["main"] \in BlockingLabel, BlockingStep
  PROVE  Control'
<1>1. "main" \in Thread /\ BlockingLabel \cup {"ready"} \subseteq MainLabel BY DEF Thread, MainLabel
<1>2. Flags \in SUBSET CrBit /\ {"STO"} \in SUBSET CrBit /\ {"IACK"} \in SUBSET CrBit
  BY DEF Flags, If, CrBit, Command
<1>3. /\ \E to \in BlockingLabel \cup {"ready"} : pc' = [pc EXCEPT !["main"] = to]
      /\ bus' \in {None, Other} \/ (\E x : bus' = Write("TXR", x)) \/ (\E W \in SUBSET CrBit : bus' = Write("CR", W))
      /\ State' = State /\ arg' = arg /\ (n' = n \/ n' = n + 1) /\ IT' = IT
  <2>1. CASE Result BY <2>1 DEF Result, To, BlockingLabel
  <2>2. CASE \/ Step("main", "byte", "command", Write("TXR", ByteOut))
             \/ Step("main", "byte", AfterCommand, Write("CR", Flags))
             \/ Step("main", "command", AfterCommand, Write("CR", Flags))
             \/ Step("main", "nop", "poll", None)
    BY <1>2, <2>2 DEF Step, To, BlockingLabel, AfterCommand
  <2>3. CASE \/ Step("main", "poll", IF "TIP" \in Status THEN "poll" ELSE "result", Other)
             \/ Step("main", "stop", "iack", Write("CR", {"STO"}))
             \/ Step("main", "iack", "ready", Write("CR", {"IACK"}))
    BY <1>2, <2>3 DEF Step, To, BlockingLabel
  <2> QED BY <2>1, <2>2, <2>3 DEF BlockingStep
<1>4. PICK to \in BlockingLabel \cup {"ready"} : pc' = [pc EXCEPT !["main"] = to] BY <1>3
<1>5. to \in MainLabel /\ to \notin InitLabel BY <1>1 DEF BlockingLabel, InitLabel
<1>6. pc["main"] \notin InitLabel \cup {"rxDisable", "none"} BY DEF BlockingLabel, InitLabel
<1>7. Plain("main") BY <1>1, <1>3, <1>4, <1>5, <1>6, StepPlain
<1>8. n' \in Nat /\ arg' \in [Thread -> Call] /\ IT' \in [Direction -> Handle] BY <1>3 DEF Control, Types
<1>9. Owned' BY <1>3 DEF Control, Owned
<1> QED BY <1>1, <1>7, <1>8, <1>9, PlainControl

\* A step of the core keeps the control register with the handle.
LEMMA ControlMoves ==
  ASSUME Control, Situation, CpuMoves, NEW c \in Bit, DeviceStep(c)
  PROVE  Control'
<1>1. Flow BY FlowHolds
<1>2. "isr" \in Thread /\ "main" \in Thread BY DEF Thread
<1>3. CASE SequenceStep("isr")
  BY <1>1, <1>2, <1>3, EnableControl, AddressControl, TransmitControl, ReceiveControl, CallbackControl DEF SequenceStep
<1>4. CASE SequenceStep("main")
  BY <1>1, <1>2, <1>4, EnableControl, AddressControl, MainStarts DEF SequenceStep
<1>5. CASE \/ Interrupted /\ To("isr", "irqAck", None) /\ UNCHANGED <<arg, n, State, IT, buf, calls>>
           \/ IRQ_Ack \/ IRQ_Dispatch
  BY <1>1, <1>5, HandlerControl
<1>6. CASE \/ pc["main"] \in InitLabel /\ InitStep
           \/ pc["main"] = "ready" /\ MainCalls
           \/ pc["main"] \in BlockingLabel /\ BlockingStep
  BY <1>1, <1>6, InitControl, CallControl, BlockingControl
<1>7. Types BY DEF Control
<1> QED BY <1>3, <1>4, <1>5, <1>6, <1>7, WhoMoves

\* A clock of waiting keeps it too.
LEMMA ControlWaits ==
  ASSUME Control, CpuWaits, NEW c \in Bit, DeviceStep(c)
  PROVE  Control'
<1>1. /\ DeviceTypes /\ Lands(WriteAdr, WriteDat) /\ DeviceTypes' /\ CtrNext' = CtrNext
      /\ bus' = None /\ UNCHANGED <<pc, arg, n, State, IT, buf, calls>>
  BY WaitClock DEF Control
<1>2. Types' BY <1>1 DEF Control, Types, None
<1>3. Owned' BY <1>1 DEF Control, Owned
<1>4. State = "READY" /\ pc["isr"] = "none" => inta' = 0
  BY <1>1, FlagStep DEF Control, Enabled, DeviceTypes, Bit
<1>5. ctr' = CtrNext BY WaitClock DEF Control
<1>6. Enabled' BY <1>1, <1>4, <1>5 DEF Control, Enabled
<1> QED BY <1>2, <1>3, <1>6 DEF Control

------------------------------------------------------------------------------
(***************************************************************************)
(* What a thread does at each of its labels.                               *)
(***************************************************************************)

\* The first steps of a transfer.
LEMMA AtStart ==
  ASSUME NEW t \in Thread, SequenceStep(t)
  PROVE  /\ pc[t] = "itEnable" => IT_Enable(t)
         /\ pc[t] = "itState" => IT_State(t)
         /\ pc[t] = "itFields" => IT_Fields(t)
         /\ pc[t] = "seqStart" => Step(t, "seqStart", "seqStarted", Write("CR", {"STA", "WR"}))
         /\ pc[t] = "seqStarted" => Move(t, "seqStarted", Back(t), None, "ADDRESS")
         /\ pc[t] = "complete" => Callback(t)
<1> DEFINE L == {"itEnable", "itState", "itFields", "seqStart", "seqStarted", "complete"}
<1>1. IT_Enable(t) => pc[t] = "itEnable" BY DEF IT_Enable, At
<1>2. IT_State(t) => pc[t] = "itState" BY DEF IT_State, At
<1>3. IT_Fields(t) => pc[t] = "itFields" BY DEF IT_Fields, At
<1>4. TransmitSequence(t) => pc[t] \notin L BY DEF TransmitSequence, InDir, In, Tx_Sent, Tx_End, Move, Step, At
<1>5. ReceiveSequence(t) => pc[t] \notin L 
  BY DEF ReceiveSequence, InDir, In, Rx_Take, Rx_Asked, Rx_End, Rx_Stop, Move, Step, At
<1>6. Callback(t) => pc[t] = "complete" BY DEF Callback, Step, At
<1>7. AddressSequence(t) =>
        \/ pc[t] = "sequence"
        \/ pc[t] = "seqStart" /\ Step(t, "seqStart", "seqStarted", Write("CR", {"STA", "WR"}))
        \/ pc[t] = "seqStarted" /\ Move(t, "seqStarted", Back(t), None, "ADDRESS")
  BY DEF AddressSequence, In, Move, Step, At
<1> QED BY <1>1, <1>2, <1>3, <1>4, <1>5, <1>6, <1>7 DEF SequenceStep

\* The sequence function, by the direction and the state of the transfer.
LEMMA AtSequence ==
  ASSUME NEW t \in Thread, SequenceStep(t), pc[t] = "sequence"
  PROVE  /\ IT[dir(t)].state = "ADDRESS" => Move(t, "sequence", "sequence", Other, AfterAddress)
         /\ IT[dir(t)].state = "READY" =>
              Step(t, "sequence", "seqStart", Write("TXR", AddressByte(dir(t), IT[dir(t)].dev)))
         /\ dir(t) = "tx" /\ IT["tx"].state = "DATA" =>
              \/ ~Acknowledged /\ Move(t, "sequence", "sequence", Other, "END")
              \/ Acknowledged /\ IT["tx"].left = 1 /\ Move(t, "sequence", "txLast", Other, "END")
              \/ Acknowledged /\ IT["tx"].left # 1 /\ Step(t, "sequence", "txByte", Other)
         /\ dir(t) = "tx" /\ IT["tx"].state = "END" => Tx_End(t)
         /\ dir(t) = "rx" /\ IT["rx"].state = "GET_DATA" =>
              \/ Acknowledged /\ Step(t, "sequence", "rxTake", Other)
              \/ ~Acknowledged /\ Move(t, "sequence", "sequence", Other, "END")
         /\ dir(t) = "rx" /\ IT["rx"].state = "DATA" => Step(t, "sequence", "rxAsked", Write("CR", AskFlags))
         /\ dir(t) = "rx" /\ IT["rx"].state = "END" => Rx_End(t)
<1>1. ~IT_Enable(t) /\ ~IT_State(t) /\ ~IT_Fields(t) /\ ~Callback(t)
  BY DEF IT_Enable, IT_State, IT_Fields, Callback, Step, At
<1>2. AddressSequence(t) =>
        \/ IT[dir(t)].state = "ADDRESS" /\ Move(t, "sequence", "sequence", Other, AfterAddress)
        \/ IT[dir(t)].state = "READY" /\ Step(t, "sequence", "seqStart", Write("TXR", AddressByte(dir(t), IT[dir(t)].dev)))
  BY DEF AddressSequence, In, Move, Step, At
<1>3. TransmitSequence(t) =>
        /\ dir(t) = "tx"
        /\ \/ /\ IT["tx"].state = "DATA"
              /\ \/ ~Acknowledged /\ Move(t, "sequence", "sequence", Other, "END")
                 \/ Acknowledged /\ IT["tx"].left = 1 /\ Move(t, "sequence", "txLast", Other, "END")
                 \/ Acknowledged /\ IT["tx"].left # 1 /\ Step(t, "sequence", "txByte", Other)
           \/ IT["tx"].state = "END" /\ Tx_End(t)
  BY DEF TransmitSequence, InDir, In, Tx_Sent, Tx_End, Step, At
<1>4. ReceiveSequence(t) =>
        /\ dir(t) = "rx"
        /\ \/ /\ IT["rx"].state = "GET_DATA"
              /\ \/ Acknowledged /\ Step(t, "sequence", "rxTake", Other)
                 \/ ~Acknowledged /\ Move(t, "sequence", "sequence", Other, "END")
           \/ IT["rx"].state = "DATA" /\ Step(t, "sequence", "rxAsked", Write("CR", AskFlags))
           \/ IT["rx"].state = "END" /\ Rx_End(t)
  BY DEF ReceiveSequence, InDir, In, Rx_Take, Rx_Asked, Rx_End, Rx_Stop, Step, At
<1> HIDE DEF Acknowledged, AfterAddress, AskFlags
<1> QED BY <1>1, <1>2, <1>3, <1>4 DEF SequenceStep

\* The writes of a transmission.
LEMMA AtSend ==
  ASSUME NEW t \in Thread, SequenceStep(t)
  PROVE  /\ pc[t] = "txByte" => Step(t, "txByte", "txCommand", Write("TXR", IT["tx"].next))
         /\ pc[t] = "txLast" => Step(t, "txLast", "txLastCommand", Write("TXR", IT["tx"].next))
         /\ pc[t] = "txCommand" => Step(t, "txCommand", "txSent", Write("CR", {"WR"}))
         /\ pc[t] = "txLastCommand" => Step(t, "txLastCommand", "txSent", Write("CR", {"WR", "STO"}))
         /\ pc[t] = "txSent" => Tx_Sent(t)
<1> DEFINE L == {"txByte", "txLast", "txCommand", "txLastCommand", "txSent"}
<1>1. IT_Enable(t) \/ IT_State(t) \/ IT_Fields(t) \/ Callback(t) => pc[t] \notin L
  BY DEF IT_Enable, IT_State, IT_Fields, Callback, Step, At
<1>2. AddressSequence(t) => pc[t] \notin L BY DEF AddressSequence, Move, Step, At
<1>3. ReceiveSequence(t) => pc[t] \notin L BY DEF ReceiveSequence, Rx_Take, Rx_Asked, Rx_End, Rx_Stop, Move, Step, At
<1>4. TransmitSequence(t) =>
        \/ pc[t] = "sequence"
        \/ pc[t] = "txByte" /\ Step(t, "txByte", "txCommand", Write("TXR", IT["tx"].next))
        \/ pc[t] = "txLast" /\ Step(t, "txLast", "txLastCommand", Write("TXR", IT["tx"].next))
        \/ pc[t] = "txCommand" /\ Step(t, "txCommand", "txSent", Write("CR", {"WR"}))
        \/ pc[t] = "txLastCommand" /\ Step(t, "txLastCommand", "txSent", Write("CR", {"WR", "STO"}))
        \/ pc[t] = "txSent" /\ Tx_Sent(t)
  BY DEF TransmitSequence, InDir, In, Tx_Sent, Tx_End, Step, At
<1> QED BY <1>1, <1>2, <1>3, <1>4 DEF SequenceStep

\* The steps of a reception.
LEMMA AtRead ==
  ASSUME NEW t \in Thread, SequenceStep(t)
  PROVE  /\ pc[t] = "rxTake" => Rx_Take(t)
         /\ pc[t] = "rxAsked" => Rx_Asked(t)
         /\ pc[t] = "rxDisable" => Step(t, "rxDisable", "rxStop", Write("CTR", DISABLE_INT))
         /\ pc[t] = "rxStop" => Rx_Stop(t)
<1> DEFINE L == {"rxTake", "rxAsked", "rxDisable", "rxStop"}
<1>1. IT_Enable(t) \/ IT_State(t) \/ IT_Fields(t) \/ Callback(t) => pc[t] \notin L
  BY DEF IT_Enable, IT_State, IT_Fields, Callback, Step, At
<1>2. AddressSequence(t) => pc[t] \notin L BY DEF AddressSequence, Move, Step, At
<1>3. TransmitSequence(t) => pc[t] \notin L BY DEF TransmitSequence, InDir, In, Tx_Sent, Tx_End, Move, Step, At
<1>4. ReceiveSequence(t) =>
        \/ pc[t] = "sequence"
        \/ pc[t] = "rxTake" /\ Rx_Take(t)
        \/ pc[t] = "rxAsked" /\ Rx_Asked(t)
        \/ pc[t] = "rxDisable" /\ Step(t, "rxDisable", "rxStop", Write("CTR", DISABLE_INT))
        \/ pc[t] = "rxStop" /\ Rx_Stop(t)
  BY DEF ReceiveSequence, InDir, In, Rx_Take, Rx_Asked, Rx_End, Rx_Stop, Step, At
<1> QED BY <1>1, <1>2, <1>3, <1>4 DEF SequenceStep

\* The steps of a blocking transfer.
LEMMA AtBlocking ==
  ASSUME BlockingStep
  PROVE  /\ pc["main"] = "byte" =>
              \/ Sending /\ Step("main", "byte", "command", Write("TXR", ByteOut))
              \/ ~Sending /\ Step("main", "byte", "nop", Write("CR", Flags))
         /\ pc["main"] = "command" => Step("main", "command", "nop", Write("CR", Flags))
         /\ pc["main"] = "nop" => Step("main", "nop", "poll", None)
         /\ pc["main"] = "poll" => Step("main", "poll", IF "TIP" \in Status THEN "poll" ELSE "result", Other)
         /\ pc["main"] = "result" => Result
         /\ pc["main"] = "stop" => Step("main", "stop", "iack", Write("CR", {"STO"}))
         /\ pc["main"] = "iack" => Step("main", "iack", "ready", Write("CR", {"IACK"}))
<1>1. \/ pc["main"] = "byte" /\ Sending /\ Step("main", "byte", "command", Write("TXR", ByteOut))
      \/ pc["main"] = "byte" /\ ~Sending /\ Step("main", "byte", "nop", Write("CR", Flags))
      \/ pc["main"] = "command" /\ Step("main", "command", "nop", Write("CR", Flags))
      \/ pc["main"] = "nop" /\ Step("main", "nop", "poll", None)
      \/ pc["main"] = "poll" /\ Step("main", "poll", IF "TIP" \in Status THEN "poll" ELSE "result", Other)
      \/ pc["main"] = "result" /\ Result
      \/ pc["main"] = "stop" /\ Step("main", "stop", "iack", Write("CR", {"STO"}))
      \/ pc["main"] = "iack" /\ Step("main", "iack", "ready", Write("CR", {"IACK"}))
  BY DEF BlockingStep, AfterCommand, Result, Step, At
<1> QED BY <1>1

\* A step that only makes an access.
LEMMA Stepped ==
  ASSUME Types, NEW t \in Thread, NEW from, NEW to, NEW access, Step(t, from, to, access)
  PROVE  /\ bus' = access /\ arg' = arg /\ n' = n /\ State' = State /\ IT' = IT /\ buf' = buf
         /\ pc'["main"] = IF t = "main" THEN to ELSE pc["main"]
         /\ pc'["isr"] = IF t = "isr" THEN to ELSE pc["isr"]
BY Goes DEF Step

\* A step that also moves the transfer on.
LEMMA Moved ==
  ASSUME Types, NEW t \in Thread, NEW from, NEW to, NEW access, NEW s \in ItState, Move(t, from, to, access, s)
  PROVE  /\ bus' = access /\ arg' = arg /\ n' = n /\ State' = State /\ buf' = buf
         /\ pc'["main"] = IF t = "main" THEN to ELSE pc["main"]
         /\ pc'["isr"] = IF t = "isr" THEN to ELSE pc["isr"]
         /\ IT'[dir(t)].state = s /\ IT'[dir(t)].dev = IT[dir(t)].dev /\ IT'[dir(t)].next = IT[dir(t)].next
         /\ IT'[dir(t)].left = IT[dir(t)].left /\ IT'[dir(t)].size = IT[dir(t)].size
         /\ \A g \in Direction : g # dir(t) => IT'[g] = IT[g]
<1>1. dir(t) \in Direction /\ IT \in [Direction -> Handle] BY DEF Types, dir, Call
<1>2. IT' = [IT EXCEPT ![dir(t)].state = s] BY DEF Move
<1>3. PICK e \in Direction : e = dir(t) BY <1>1
<1>4. PICK f \in [Direction -> Handle] : f = IT BY <1>1
<1>5. IT' = [f EXCEPT ![e].state = s] BY <1>2, <1>3, <1>4
<1> QED BY <1>3, <1>4, <1>5, SetState, Goes DEF Move

------------------------------------------------------------------------------
(***************************************************************************)
(* The interrupt request.                                                  *)
(***************************************************************************)

\* Who acknowledges an interrupt.
LEMMA WhoAcks ==
  ASSUME Situation, bus[1] = "CR", "IACK" \in bus[2]
  PROVE  pc["isr"] = "irqDispatch" \/ (pc["isr"] = "none" /\ State = "READY")
<1> USE DEF NoWrite, None, Other, Write, If
<1>1. CASE StartsUp \/ Calls BY <1>1 DEF StartsUp, Calls, CallsAddress, CallsSend, CallsRead, Alone
<1>2. CASE Rests BY <1>2 DEF Rests
<1>3. CASE \E d \in Direction : Addressing(d) BY <1>3 DEF Addressing, AddressFrame, Writes, Running, Starting
<1>4. CASE ItSends BY <1>4 DEF ItSends, AckTaken, LastFlags
<1>5. CASE ItReads
  <2>1. \/ NoWrite \/ bus[1] = "CTR"
        \/ pc["isr"] = "rxAsked" /\ bus = Write("CR", {"RD"} \cup If(r.left = 1, "ACK"))
        \/ pc["isr"] \in {"irqAck", "irqDispatch", "sequence"} /\ AckTaken
    BY <1>5 DEF ItReads
  <2> QED BY <2>1 DEF AckTaken
<1> QED BY <1>1, <1>2, <1>3, <1>4, <1>5 DEF Situation

\* After a step of the core.
LEMMA RequestsMoves ==
  ASSUME Control, Requests, Situation, CpuMoves, NEW c \in Bit, DeviceStep(c)
  PROVE  Requests'
<1>1. DeviceTypes /\ Lands("none", {}) BY MoveClock DEF Control
<1>2. "IACK" \notin cr' BY <1>1, CommandStep
<1>3. CASE "IACK" \in cr /\ pc["isr"] = "irqDispatch"
  <2>1. State # "READY" BY <1>3, FlowHolds DEF Flow
  <2>2. IRQ_Dispatch BY <1>3, WhoMoves DEF Control, SequenceLabel, Starting, Interrupted
  <2>3. pc'["isr"] = "sequence" BY <2>1, <2>2, Goes DEF IRQ_Dispatch, Control, Thread
  <2> QED BY <1>2, <2>3 DEF Requests
<1>4. CASE "IACK" \in cr /\ pc["isr"] = "none" /\ State = "READY"
  BY <1>1, <1>2, <1>4, FlagStep DEF Requests, Control, Enabled, DeviceTypes, Bit
<1>5. CASE "IACK" \notin cr
  BY <1>1, <1>2, <1>5, FlagStep DEF Requests
<1> QED BY <1>3, <1>4, <1>5 DEF Requests

\* After a clock of waiting.
LEMMA RequestsWaits ==
  ASSUME Control, Requests, Situation, CpuWaits, NEW c \in Bit, DeviceStep(c)
  PROVE  Requests'
<1>1. /\ DeviceTypes /\ Lands(WriteAdr, WriteDat) /\ bus' = None /\ pc' = pc /\ State' = State
      /\ NoWrite => WriteAdr = "none"
      /\ bus[1] \in {"CTR", "TXR", "CR"} => WriteAdr = bus[1] /\ WriteDat = bus[2]
  BY WaitClock DEF Control
<1>2. pc["isr"] = "none" /\ inta' = 1 => irq_flag' = 1
  BY <1>1, FlagStep DEF Requests, Control, Enabled
<1>3. "IACK" \in cr' => pc["isr"] = "irqDispatch" \/ (pc["isr"] = "none" /\ State = "READY")
  <2>1. CASE "IACK" \in cr BY <2>1 DEF Requests
  <2>2. CASE "IACK" \notin cr
    <3>1. "IACK" \in cr' => WriteAdr = "CR" /\ "IACK" \in WriteDat
      BY <1>1, <2>2, CommandStep
    <3>2. WriteAdr = "CR" => (bus[1] = "CR" /\ "IACK" \in bus[2]) \/ "IACK" \notin WriteDat
      BY DEF WriteAdr, WriteDat
    <3> QED BY <3>1, <3>2, WhoAcks
  <2> QED BY <2>1, <2>2
<1> QED BY <1>1, <1>2, <1>3 DEF Requests

------------------------------------------------------------------------------
(***************************************************************************)
(* The situations, one at a time: where the steps of the core and the      *)
(* clocks of waiting lead from each.                                       *)
(***************************************************************************)

\* The wires between two transfers.
LEMMA BetweenKeeps ==
  ASSUME NEW c \in Bit, DeviceTypes, Between, Ticks(c), NEW adr, NEW dat, Lands(adr, dat), adr # "CR"
  PROVE  /\ Between' /\ (Calm => Calm' /\ Kept)
         /\ (irq_flag = 1 => ack_out = 1 \/ "IACK" \in cr) => (irq_flag' = 1 => ack_out' = 1)
<1>1. irq_flag' = 1 => (cmd_ack = 1 \/ irq_flag = 1) /\ "IACK" \notin cr BY FlagStep
<1>2. CASE Calm
  <2>1. Calm' /\ Kept BY <1>2, CalmKeeps
  <2> QED BY <1>1, <1>2, <2>1 DEF Between, Calm, Kept
<1>3. CASE StopTail /\ ~Calm
  <2>1. StopTail' BY <1>3, TailKeeps
  <2> QED BY <1>1, <1>3, <2>1 DEF Between, StopTail
<1> QED BY <1>2, <1>3 DEF Between

\* The initialisation ends with the driver at rest.
LEMMA StartsUpMoves ==
  ASSUME Control, StartsUp, CpuMoves, NEW c \in Bit, DeviceStep(c)
  PROVE  Situation'
<1>1. bus = None /\ DeviceTypes /\ Ticks(c) /\ Lands("none", {}) BY MoveClock DEF Control
<1>2. Calm' /\ Kept BY <1>1, CalmKeeps DEF StartsUp
<1>3. irq_flag' = 1 => ack_out' = 1 BY <1>1, <1>2, FlagStep DEF StartsUp, Calm, Kept
<1>4. pc["main"] \in InitLabel /\ pc["isr"] = "none" /\ State = "READY" /\ ~Interrupted
  BY DEF StartsUp, Alone, Control, Enabled, Interrupted
<1>5. InitStep
  BY <1>4, WhoMoves DEF Control, SequenceLabel, Starting, BlockingLabel, InitLabel
<1>6. slave' = "idle" BY <1>2 DEF Kept, StartsUp
<1>7. CASE Step("main", "initEnable", "ready", Write("CTR", {"EN"}))
  <2>1. /\ bus' = Write("CTR", {"EN"}) /\ State' = State /\ pc'["main"] = "ready" /\ pc'["isr"] = "none"
    BY <1>4, <1>7, Stepped DEF Control, Thread
  <2>2. bus'[1] = "CTR" BY <2>1 DEF Write
  <2>3. Rests' BY <1>2, <1>3, <1>4, <1>6, <2>1, <2>2 DEF Rests, Between, Freed
  <2> QED BY <2>3 DEF Situation
<1>8. ASSUME NEW from, NEW to \in InitLabel, NEW access, Step("main", from, to, access),
             access = Other \/ access[1] = "CTR" \/ (access[1] = "CR" /\ to = "initEnable")
      PROVE  Situation'
  <2>1. bus' = access /\ State' = State /\ pc'["main"] = to /\ pc'["isr"] = "none"
    BY <1>4, <1>8, Stepped DEF Control, Thread
  <2>2. StartsUp' BY <1>2, <1>3, <1>4, <1>6, <1>8, <2>1 DEF StartsUp, Alone, NoWrite
  <2> QED BY <2>2 DEF Situation
<1>9. CASE \/ Step("main", "init", "initDisable", Other)
           \/ Step("main", "initDisable", "initFlag", Write("CTR", {}))
           \/ Step("main", "initAck", "initEnable", Write("CR", {"IACK"} \cup If(~Acknowledged, "STA")))
  <2>1. {"initDisable", "initFlag", "initEnable"} \subseteq InitLabel BY DEF InitLabel
  <2>2. Write("CTR", {})[1] = "CTR" /\ Write("CR", {"IACK"} \cup If(~Acknowledged, "STA"))[1] = "CR" BY DEF Write
  <2> QED BY <1>8, <1>9, <2>1, <2>2
<1>10. CASE Step("main", "initFlag", IF "IF" \in Status THEN "initAck" ELSE "initEnable", Other)
  <2>1. PICK to \in {"initAck", "initEnable"} : Step("main", "initFlag", to, Other) BY <1>10
  <2>2. to \in InitLabel BY DEF InitLabel
  <2> QED BY <1>8, <2>1, <2>2
<1> QED BY <1>5, <1>7, <1>9, <1>10 DEF InitStep

\* Waiting meanwhile; the acknowledge finds the core disabled.
LEMMA StartsUpWaits ==
  ASSUME Control, StartsUp, CpuWaits, NEW c \in Bit, DeviceStep(c)
  PROVE  Situation'
<1>1. /\ DeviceTypes /\ Ticks(c) /\ Lands(WriteAdr, WriteDat)
      /\ bus' = None /\ pc' = pc /\ State' = State
      /\ NoWrite => WriteAdr = "none"
      /\ bus[1] \in {"CTR", "TXR", "CR"} => WriteAdr = bus[1] /\ WriteDat = bus[2]
  BY WaitClock DEF Control
<1>2. Calm' /\ Kept
  <2>1. CASE WriteAdr # "CR" BY <1>1, <2>1, CalmKeeps DEF StartsUp
  <2>2. CASE WriteAdr = "CR"
    <3>1. bus[1] = "CR" BY <2>2 DEF WriteAdr
    <3>2. pc["main"] = "initEnable" BY <3>1 DEF StartsUp, NoWrite, None, Other
    <3>3. ctr = {} BY <3>1, <3>2 DEF Control, Enabled, CtrNext
    <3>4. cr' = cr BY <1>1, <2>2, <3>3, CommandStep
    <3>5. c_state' = "IDLE" /\ cmd_ack' = 0 /\ rxack' = ack_out' /\ Kept BY <1>1, CalmRests DEF StartsUp
    <3> QED BY <3>4, <3>5 DEF StartsUp, Calm, Cmds
  <2> QED BY <2>1, <2>2
<1>3. irq_flag' = 1 => ack_out' = 1 BY <1>1, <1>2, FlagStep DEF StartsUp, Calm, Kept
<1>4. StartsUp' BY <1>1, <1>2, <1>3 DEF StartsUp, Alone, NoWrite, Kept
<1> QED BY <1>4 DEF Situation

\* At rest: the wires, and the interrupt flag, which only a refused byte leaves set.
LEMMA RestsKeep ==
  ASSUME NEW c \in Bit, DeviceTypes, Rests, Ticks(c), NEW adr, NEW dat, Lands(adr, dat),
         adr # "CR", bus[1] # "CR"
  PROVE  Between' /\ WillBeFree' /\ (irq_flag' = 1 => ack_out' = 1) /\ (Calm => Calm' /\ Kept)
<1>1. bus # Write("CR", {"STO"}) /\ bus # Write("CR", {"IACK"}) BY DEF Write
<1>2. WillBeFree /\ Between /\ (irq_flag = 1 => ack_out = 1 \/ "IACK" \in cr)
  BY <1>1 DEF Rests, Freed, WillBeFree, Acking
<1> QED BY <1>2, FreeStep, BetweenKeeps

\* The interrupt is enabled: the transfer begins.
LEMMA TransferStarts ==
  ASSUME Control, DeviceTypes', Lands("none", {}), CtrNext = ctr,
         NEW t \in Thread, NEW u \in Thread \ {t}, pc[t] = "itEnable",
         pc[u] = IF t = "main" THEN "none" ELSE "ready",
         IT_Enable(t), State = "READY", Between', irq_flag' = 1 => ack_out' = 1
  PROVE  Situation'
<1>1. dir(t) \in Direction BY DEF dir, Control, Types, Call
<1>2. PICK d \in Direction : d = dir(t) BY <1>1
<1>3. /\ bus' = Write("CTR", ctr \cup {"IEN"}) /\ State' = BUSY(d) /\ arg' = arg /\ IT' = IT
      /\ pc'[t] = "itState" /\ pc'[u] = pc[u]
      /\ pc'["main"] = IF t = "main" THEN "itState" ELSE "ready"
      /\ pc'["isr"] = IF t = "isr" THEN "itState" ELSE "none"
  BY <1>2, Goes DEF IT_Enable, ENABLE_INT, Control, Thread
<1>4. bus'[1] = "CTR" /\ "IEN" \in bus'[2] BY <1>3 DEF Write
<1>5. IT[d].state = "READY" BY <1>2 DEF Control, Owned, BUSY
<1>6. inta' = 0
  <2>1. pc["isr"] # "rxDisable" BY DEF Thread
  <2>2. "IEN" \notin ctr BY <2>1 DEF Control, Enabled
  <2> QED BY <2>2, FlagStep DEF Control, Types, Bit
<1>7. AddressFrame(d)'
  <2>1. Running' = "itState" BY <1>3 DEF Running, Thread
  <2>2. Writes(d)' BY <1>4, <2>1 DEF Writes
  <2>3. ~Nobody' BY <1>3 DEF Nobody, Thread
  <2>4. \A v \in Thread : pc'[v] \in Starting => v = t BY <1>3 DEF Thread, Starting
  <2>5. \A v \in Thread : pc'[v] \notin {"seqStart", "seqStarted"} BY <1>3 DEF Thread
  <2>6. pc'["main"] \in {"ready"} \cup Starting /\ pc'["isr"] \in {"none", "irqAck", "irqDispatch"} \cup Starting
    BY <1>3 DEF Starting
  <2>7. arg'[t].dir = d BY <1>2, <1>3 DEF dir
  <2> QED BY <1>3, <1>5, <2>2, <2>3, <2>4, <2>5, <2>6, <2>7 DEF AddressFrame
<1>8. CASE ack_out' = 1
  <2>1. NackAddress(d)' BY <1>8 DEF Between, Calm, StopTail, NackAddress, Cmds, Command
  <2> QED BY <1>7, <2>1 DEF Addressing, Situation
<1>9. CASE Calm' /\ ack_out' = 0
  <2>1. irq_flag' = 0 BY <1>9 DEF DeviceTypes, Bit
  <2>2. Only(t)' BY <1>3 DEF Only, Starting, Thread
  <2>3. Unasked(d)' BY <1>3, <1>5, <1>6, <1>9, <2>1, <2>2 DEF Unasked, Silent
  <2> QED BY <1>7, <2>3 DEF Addressing, Situation
<1> QED BY <1>8, <1>9 DEF Between, StopTail, DeviceTypes, Bit

\* The core leaves the rest by calling a transfer, or stays there.
LEMMA RestsMoves ==
  ASSUME Control, Rests, CpuMoves, NEW c \in Bit, DeviceStep(c)
  PROVE  Situation'
<1>1. bus = None /\ DeviceTypes /\ DeviceTypes' /\ Ticks(c) /\ Lands("none", {}) /\ CtrNext = ctr
  BY MoveClock DEF Control
<1>2. bus[1] # "CR" BY <1>1 DEF None
<1>3. Between' /\ WillBeFree' /\ (irq_flag' = 1 => ack_out' = 1) BY <1>1, <1>2, RestsKeep
<1>4. /\ State = "READY" /\ ~Interrupted
      /\ \/ pc["isr"] = "none" /\ pc["main"] \in {"ready", "itEnable"}
         \/ pc["isr"] \in {"complete", "itEnable"} /\ pc["main"] = "ready"
  BY DEF Rests, Control, Enabled, Interrupted
<1>5. \/ pc["isr"] = "none" /\ pc["main"] = "ready" /\ MainCalls
      \/ pc["isr"] = "none" /\ pc["main"] = "itEnable" /\ SequenceStep("main")
      \/ pc["isr"] = "complete" /\ pc["main"] = "ready" /\ SequenceStep("isr")
      \/ pc["isr"] = "itEnable" /\ pc["main"] = "ready" /\ SequenceStep("isr")
  BY <1>4, WhoMoves DEF Control, SequenceLabel, Starting, BlockingLabel, InitLabel
<1>6. Freed' BY <1>3 DEF Freed, WillBeFree
<1>7. CASE pc["isr"] = "none" /\ pc["main"] = "ready" /\ MainCalls
  <2>1. PICK k \in Call : StartCall("main", k) BY <1>7 DEF MainCalls
  <2>2. /\ State' = State /\ bus' = None /\ n' = 0 /\ arg' = [arg EXCEPT !["main"] = k]
        /\ pc'["main"] = (IF k.mode = "IT" THEN "itEnable" ELSE "byte") /\ pc'["isr"] = "none"
        /\ (k.mode = "blocking" => buf' = <<>>)
    BY <1>4, <1>7, <2>1, Goes DEF StartCall, Control, Thread
  <2>3. CASE k.mode = "IT"
    <3>1. Rests' BY <1>3, <1>4, <1>6, <2>2, <2>3 DEF Rests, NoWrite
    <3> QED BY <3>1 DEF Situation
  <2>4. CASE k.mode = "blocking"
    <3>1. CallsAddress' BY <1>3, <1>4, <2>2, <2>4 DEF CallsAddress, Alone, NoWrite
    <3> QED BY <3>1 DEF Situation, Calls
  <2> QED BY <2>3, <2>4 DEF Call
<1>8. CASE pc["isr"] = "none" /\ pc["main"] = "itEnable" /\ SequenceStep("main")
  <2>1. IT_Enable("main") /\ "main" \in Thread /\ "isr" \in Thread \ {"main"} BY <1>8, AtStart DEF Thread
  <2> QED BY <1>1, <1>3, <1>4, <1>8, <2>1, TransferStarts
<1>9. CASE pc["isr"] = "itEnable" /\ pc["main"] = "ready" /\ SequenceStep("isr")
  <2>1. IT_Enable("isr") /\ "isr" \in Thread /\ "main" \in Thread \ {"isr"} BY <1>9, AtStart DEF Thread
  <2> QED BY <1>1, <1>3, <1>4, <1>9, <2>1, TransferStarts
<1>10. CASE pc["isr"] = "complete" /\ pc["main"] = "ready" /\ SequenceStep("isr")
  <2>1. Callback("isr") BY <1>10, AtStart DEF Thread
  <2>2. /\ State' = State /\ bus' = None /\ pc'["main"] = "ready" /\ pc'["isr"] \in {"none", "itEnable"}
    <3>1. CASE Step("isr", "complete", Back("isr"), None)
      BY <1>10, <3>1, Stepped DEF Control, Thread, Back
    <3>2. ASSUME NEW k \in Call, k.mode = "IT", StartCall("isr", k)
          PROVE  State' = State /\ bus' = None /\ pc'["main"] = "ready" /\ pc'["isr"] = "itEnable"
      BY <1>4, <1>10, <3>2, Goes DEF StartCall, Control, Thread
    <3> QED BY <2>1, <3>1, <3>2 DEF Callback
  <2>3. Rests' BY <1>3, <1>4, <1>6, <2>2 DEF Rests, NoWrite
  <2> QED BY <2>3 DEF Situation
<1> QED BY <1>5, <1>7, <1>8, <1>9, <1>10

\* Waiting at rest: the last write lands, and the STOP may begin or end.
LEMMA RestsWaits ==
  ASSUME Control, Rests, CpuWaits, NEW c \in Bit, DeviceStep(c)
  PROVE  Situation'
<1>1. /\ DeviceTypes /\ Ticks(c) /\ Lands(WriteAdr, WriteDat)
      /\ bus' = None /\ pc' = pc /\ State' = State /\ arg' = arg /\ IT' = IT /\ buf' = buf
      /\ NoWrite => WriteAdr = "none"
      /\ bus[1] \in {"CTR", "TXR", "CR"} => WriteAdr = bus[1] /\ WriteDat = bus[2]
  BY WaitClock DEF Control
<1>2. "EN" \in CtrNext BY DEF Rests, Control, Enabled, InitLabel
<1>3. CASE NoWrite \/ bus[1] = "CTR"
  <2>1. WriteAdr # "CR" /\ bus[1] # "CR" BY <1>1, <1>3 DEF NoWrite, None, Other
  <2>2. Between' /\ WillBeFree' /\ (irq_flag' = 1 => ack_out' = 1) /\ (Calm => Calm' /\ Kept)
    BY <1>1, <2>1, RestsKeep
  <2>3. Calm /\ irq_flag = 0 => irq_flag' = 0 BY <1>1, CalmFlag
  <2>4. Freed' BY <2>2 DEF Freed, WillBeFree
  <2>5. dir("isr")' = dir("isr") BY <1>1 DEF dir
  <2>6. pc["isr"] = "complete" /\ dir("isr") = "tx" =>
          /\ Calm' /\ (refused' \/ got' = Upto(IT'["tx"].size)) /\ (slave' = "idle" \/ refused') /\ irq_flag' = 0
          /\ ~refused' => sel' \in Devices /\ IT'["tx"].dev \in Devices
    BY <1>1, <2>2, <2>3 DEF Rests, Kept
  <2>7. Rests' BY <1>1, <2>2, <2>4, <2>5, <2>6 DEF Rests, NoWrite
  <2> QED BY <2>7 DEF Situation
<1>4. CASE bus = Write("CR", {"IACK"}) /\ pc["main"] = "ready" /\ pc["isr"] = "none"
  <2>1. bus[1] = "CR" /\ bus[2] = {"IACK"} BY <1>4 DEF Write
  <2>2. WriteAdr = "CR" /\ WriteDat = {"IACK"} BY <1>1, <2>1
  <2>3. "EN" \in ctr BY <1>2, <2>1 DEF CtrNext
  <2>4. cr' = {"IACK"} BY <1>1, <2>2, <2>3, CommandStep
  <2>5. Between'
    <3>1. CASE Calm BY <1>1, <2>4, <3>1, CalmRests DEF Between, Calm, Cmds, Command
    <3>2. CASE StopTail BY <1>1, <2>2, <2>3, <3>2, TailKeeps DEF Between
    <3> QED BY <3>1, <3>2 DEF Rests, Between
  <2>6. WillBeFree' BY <1>1, <1>4, FreeStep DEF Rests, Freed, WillBeFree, Write
  <2>7. Freed' BY <2>6 DEF Freed, WillBeFree
  <2>8. Rests' BY <1>1, <1>4, <2>4, <2>5, <2>7 DEF Rests, NoWrite, Acking
  <2> QED BY <2>8 DEF Situation
<1>5. CASE bus = Write("CR", {"STO"}) /\ pc["isr"] = "complete" /\ dir("isr") = "rx" /\ Calm /\ ack_out = 1
  <2>1. bus[1] = "CR" /\ bus[2] = {"STO"} BY <1>5 DEF Write
  <2>2. WriteAdr = "CR" /\ WriteDat = {"STO"} BY <1>1, <2>1
  <2>3. "EN" \in ctr BY <1>2, <2>1 DEF CtrNext
  <2>4. cr' = {"STO"} BY <1>1, <2>2, <2>3, CommandStep
  <2>5. c_state' = "IDLE" /\ cmd_ack' = 0 /\ rxack' = 1 /\ ack_out' = 1 BY <1>1, <1>5, CalmRests DEF Kept
  <2>6. StopTail' BY <2>4, <2>5 DEF StopTail, Cmds, Command
  <2>7. Freed' BY <2>4, <2>5 DEF Freed
  <2>8. dir("isr")' = "rx" BY <1>1, <1>5 DEF dir
  <2>9. Rests' BY <1>1, <1>5, <2>5, <2>6, <2>7, <2>8 DEF Rests, NoWrite, Between
  <2> QED BY <2>9 DEF Situation
<1> QED BY <1>3, <1>4, <1>5 DEF Rests

------------------------------------------------------------------------------
(***************************************************************************)
(* Blocking transfers.                                                     *)
(***************************************************************************)

\* The address bytes of a direction, one for each device.
LEMMA AddressOdd ==
  ASSUME NEW d \in Direction, NEW e \in Devices \cup {0}
  PROVE  AddressByte(d, e) \in Addresses(d)
<1>1. e \in Nat /\ e % 2 = 0 BY DriverAssumption
<1>2. (e + 1) % 2 = 1 BY <1>1
<1> QED BY <1>1, <1>2 DEF AddressByte, Addresses, Odd, Direction

\* Two devices do not share one.
LEMMA AddressOne ==
  ASSUME NEW d \in Direction, NEW e \in Devices, NEW f \in Devices, AddressByte(d, e) = AddressByte(d, f)
  PROVE  e = f
BY DriverAssumption DEF AddressByte

\* While main works on a blocking transfer nobody else makes a step.
LEMMA BlockingGoes ==
  ASSUME Control, Alone, pc["main"] \in BlockingLabel, CpuMoves
  PROVE  BlockingStep
<1>1. ~Interrupted BY DEF Interrupted, Alone, Control, Enabled
<1> QED BY <1>1, WhoMoves DEF Control, Alone, SequenceLabel, Starting, BlockingLabel, InitLabel

\* TIP is down: the command is over.
LEMMA TipDown ==
  ASSUME DeviceTypes, TipUp, "TIP" \notin Status
  PROVE  /\ \A d, X : AddressFly(d, X) => Calm
         /\ \A W, k : ("WR" \in W /\ SendFly(W, k)) => Calm
         /\ \A last, k : ReadFly(last, k) => Calm
<1>1. "RD" \notin cr /\ "WR" \notin cr BY DEF DeviceTypes, TipUp, Status, StatusBit, Bit
<1>2. Cmds # {"STA", "WR"} /\ Cmds # {"RD"} /\ "WR" \notin Cmds BY <1>1 DEF Cmds
<1>3. ASSUME NEW d, NEW X, AddressFly(d, X) PROVE Calm
  BY <1>2, <1>3 DEF AddressFly, AddressBusy
<1>4. ASSUME NEW W, NEW k, "WR" \in W, SendFly(W, k) PROVE Calm
  BY <1>2, <1>4 DEF SendFly, SendBusy
<1>5. ASSUME NEW last, NEW k, ReadFly(last, k) PROVE Calm
  BY <1>2, <1>5 DEF ReadFly
<1> QED BY <1>3, <1>4, <1>5

\* The address byte of a blocking transfer; the answer makes it a transfer of data.
LEMMA CallsAddressMoves ==
  ASSUME Control, CallsAddress, CpuMoves, NEW c \in Bit, DeviceStep(c)
  PROVE  Situation'
<1>1. bus = None /\ DeviceTypes /\ DeviceTypes' /\ Ticks(c) /\ Lands("none", {}) /\ TxrNext = txr /\ txr' = txr
  BY MoveClock DEF Control
<1>2. Alone /\ n = 0 /\ buf = <<>> /\ pc["main"] \in {"byte", "command", "nop", "poll", "result"}
  BY DEF CallsAddress
<1>3. BlockingStep BY <1>2, BlockingGoes DEF BlockingLabel
<1>4. arg["main"] \in Call /\ "main" \in Thread BY DEF Control, Types, Thread
<1>5. c0.dir \in Direction /\ c0.dev \in Devices /\ c0.size \in Nat \ {0} BY <1>4, DriverAssumption DEF c0, Call
<1>6. PICK d \in Direction, e \in Devices : d = c0.dir /\ e = c0.dev BY <1>5
<1>7. PICK X \in SUBSET Addresses(d) : X = {AddressByte(d, e)} BY AddressOdd
<1>8. Sending /\ ByteOut = AddressByte(d, e) /\ Flags = {"STA", "WR"} /\ (Repeats <=> ~Acknowledged) /\ ~LastByte
  BY <1>2, <1>5, <1>6 DEF Sending, ByteOut, Flags, Repeats, LastByte
<1>9. ASSUME NEW to \in BlockingLabel, NEW access, NEW from, Step("main", from, to, access),
             \/ to = "command" /\ access = Write("TXR", ByteOut) /\ Between'
             \/ to = "nop" /\ access = Write("CR", {"STA", "WR"}) /\ Between' /\ txr \in X
             \/ to = "poll" /\ access \in {None, Other} /\ AddressFly(d, X)' /\ TipUp'
             \/ to = "result" /\ access = Other /\ AddressFly(d, X)' /\ Calm'
      PROVE  Situation'
  <2>1. bus' = access /\ Alone' /\ n' = 0 /\ buf' = <<>> /\ c0' = c0 /\ pc'["main"] = to
    BY <1>2, <1>4, <1>9, Stepped DEF Control, Alone, c0
  <2>2. {AddressByte(c0.dir, c0.dev)}' = X BY <1>6, <1>7, <2>1
  <2>3. (c0.dir)' = d BY <1>6, <2>1
  <2>4. access = Write("TXR", ByteOut) => bus'[1] = "TXR" /\ TxrNext' \in X
    BY <1>7, <1>8, <2>1 DEF Write, TxrNext
  <2>5. access \in {None, Other} => NoWrite' BY <2>1 DEF NoWrite
  <2>6. CallsAddress' BY <1>1, <1>9, <2>1, <2>2, <2>3, <2>4, <2>5 DEF CallsAddress
  <2> QED BY <2>6 DEF Situation, Calls
<1>10. CASE pc["main"] = "byte"
  <2>1. Between' BY <1>1, <1>10, BetweenKeeps DEF CallsAddress
  <2> QED BY <1>3, <1>8, <1>9, <1>10, <2>1, AtBlocking DEF BlockingLabel
<1>11. CASE pc["main"] = "command"
  <2>1. Between' BY <1>1, <1>11, BetweenKeeps DEF CallsAddress
  <2>2. txr \in X BY <1>1, <1>6, <1>7, <1>11 DEF CallsAddress
  <2> QED BY <1>3, <1>8, <1>9, <1>11, <2>1, <2>2, AtBlocking DEF BlockingLabel
<1>12. CASE pc["main"] = "nop"
  <2>1. AddressFly(d, X) BY <1>1, <1>6, <1>7, <1>12 DEF CallsAddress, Write, None
  <2>2. AddressFly(d, X)' /\ TipUp' BY <1>1, <2>1, AddressFlyStep, TipStep
  <2> QED BY <1>3, <1>9, <1>12, <2>2, AtBlocking DEF BlockingLabel
<1>13. CASE pc["main"] = "poll"
  <2>1. AddressFly(d, X) /\ TipUp BY <1>6, <1>7, <1>13 DEF CallsAddress
  <2>2. AddressFly(d, X)' /\ TipUp' BY <1>1, <2>1, AddressFlyStep, TipStep
  <2>3. CASE "TIP" \in Status
    <3>1. Step("main", "poll", "poll", Other) BY <1>3, <1>13, <2>3, AtBlocking
    <3> QED BY <1>9, <2>2, <3>1 DEF BlockingLabel
  <2>4. CASE "TIP" \notin Status
    <3>1. Step("main", "poll", "result", Other) BY <1>3, <1>13, <2>4, AtBlocking
    <3>2. Calm BY <1>1, <2>1, <2>4, TipDown
    <3>3. Calm' BY <1>1, <3>2, CalmKeeps
    <3> QED BY <1>9, <2>2, <3>1, <3>3 DEF BlockingLabel
  <2> QED BY <2>3, <2>4
<1>14. CASE pc["main"] = "result"
  <2>1. AddressFly(d, X) /\ Calm BY <1>6, <1>7, <1>14 DEF CallsAddress
  <2>2. Calm' /\ Kept BY <1>1, <2>1, CalmKeeps
  <2>3. Result BY <1>3, <1>14, AtBlocking
  <2>4. bus' = Other /\ arg' = arg /\ State' = State /\ IT' = IT /\ pc'["main"] = "byte" /\ Alone'
    BY <1>2, <1>4, <1>8, <2>3, Goes DEF Result, Control, Alone, Thread
  <2>5. NoWrite' /\ c0' = c0 BY <2>4 DEF NoWrite, c0
  <2>6. CASE Repeats
    <3>1. n' = n /\ buf' = buf BY <2>3, <2>6 DEF Result
    <3>2. CallsAddress' BY <1>2, <2>2, <2>4, <2>5, <3>1 DEF CallsAddress, Between
    <3> QED BY <3>2 DEF Situation, Calls
  <2>7. CASE ~Repeats
    <3>1. n' = 1 /\ buf' = buf BY <1>2, <1>8, <2>3, <2>7 DEF Result
    <3>2. ack_out = 0 BY <1>1, <1>8, <2>1, <2>7 DEF Acknowledged, Status, StatusBit, Calm, DeviceTypes, Bit
    <3>3. Selected(d, X) BY <2>1, <3>2 DEF AddressFly, AddressBusy, Answered, Calm
    <3>4. sel = e BY <1>7, <3>3, AddressOne DEF Selected
    <3>5. CASE d = "tx"
      <4>1. Ended({"WR"}, 0)' /\ sel' = e BY <2>2, <3>2, <3>3, <3>4, <3>5, UptoNone DEF Ended, Kept, Selected
      <4>2. CallsSend' BY <1>5, <1>6, <2>2, <2>4, <2>5, <3>1, <3>5, <4>1 DEF CallsSend
      <4> QED BY <4>2 DEF Situation, Calls
    <3>6. CASE d = "rx"
      <4>1. ack_out' = 0 /\ slave' = "sends" /\ nxt' = 1 BY <2>2, <3>2, <3>3, <3>6 DEF Kept, Selected
      <4>2. CallsRead' BY <1>2, <1>5, <1>6, <2>2, <2>4, <2>5, <3>1, <3>6, <4>1, UptoNone DEF CallsRead
      <4> QED BY <4>2 DEF Situation, Calls
    <3> QED BY <3>5, <3>6 DEF Direction
  <2> QED BY <2>6, <2>7
<1> QED BY <1>2, <1>10, <1>11, <1>12, <1>13, <1>14

\* The same while it waits.
LEMMA CallsAddressWaits ==
  ASSUME Control, CallsAddress, CpuWaits, NEW c \in Bit, DeviceStep(c)
  PROVE  Situation'
<1>1. /\ DeviceTypes /\ Ticks(c) /\ Lands(WriteAdr, WriteDat)
      /\ bus' = None /\ pc' = pc /\ State' = State /\ arg' = arg /\ n' = n /\ buf' = buf /\ TxrNext' = TxrNext
      /\ NoWrite => WriteAdr = "none"
      /\ bus[1] \in {"CTR", "TXR", "CR"} => WriteAdr = bus[1] /\ WriteDat = bus[2]
  BY WaitClock DEF Control
<1>2. "EN" \in CtrNext BY DEF CallsAddress, Control, Enabled, InitLabel
<1>3. arg["main"] \in Call BY DEF Control, Types, Thread
<1>4. c0.dir \in Direction /\ c0.dev \in Devices BY <1>3 DEF c0, Call
<1>5. PICK d \in Direction, e \in Devices : d = c0.dir /\ e = c0.dev BY <1>4
<1>6. PICK X \in SUBSET Addresses(d) : X = {AddressByte(d, e)} BY AddressOdd
<1>7. Alone' /\ n' = 0 /\ buf' = <<>> /\ c0' = c0 BY <1>1 DEF CallsAddress, Alone, c0
<1>8. {AddressByte(c0.dir, c0.dev)}' = X /\ (c0.dir)' = d /\ X = {AddressByte(c0.dir, c0.dev)} BY <1>5, <1>6, <1>7
<1>9. NoWrite' BY <1>1 DEF NoWrite
<1>10. CASE /\ pc["main"] \in {"byte", "command"} /\ (NoWrite \/ bus[1] = "TXR") /\ Between
            /\ (pc["main"] = "command" => TxrNext \in X)
  <2>1. WriteAdr # "CR" BY <1>1, <1>10
  <2>2. Between' BY <1>1, <1>10, <2>1, BetweenKeeps
  <2>3. CallsAddress' BY <1>1, <1>7, <1>8, <1>9, <1>10, <2>2 DEF CallsAddress
  <2> QED BY <2>3 DEF Situation, Calls
<1>11. CASE pc["main"] = "nop" /\ bus = Write("CR", {"STA", "WR"}) /\ txr \in X /\ Between
  <2>1. bus[1] = "CR" /\ bus[2] = {"STA", "WR"} BY <1>11 DEF Write
  <2>2. WriteAdr = "CR" /\ WriteDat = {"STA", "WR"} /\ "EN" \in ctr BY <1>1, <1>2, <2>1 DEF CtrNext
  <2>3. AddressFly(d, X)' BY <1>1, <1>11, <2>2, AddressTakes
  <2>4. CallsAddress' BY <1>1, <1>7, <1>8, <1>11, <2>3 DEF CallsAddress
  <2> QED BY <2>4 DEF Situation, Calls
<1>12. CASE pc["main"] \in {"nop", "poll", "result"} /\ NoWrite /\ AddressFly(d, X) /\ (pc["main"] = "result" => Calm)
  <2>1. WriteAdr = "none" BY <1>1, <1>12
  <2>2. AddressFly(d, X)' /\ TipUp' BY <1>1, <1>12, <2>1, AddressFlyStep, TipStep
  <2>3. Calm => Calm' BY <1>1, <2>1, CalmKeeps
  <2>4. CallsAddress' BY <1>1, <1>7, <1>8, <1>9, <1>12, <2>2, <2>3 DEF CallsAddress
  <2> QED BY <2>4 DEF Situation, Calls
<1>13. NoWrite \/ bus # None BY DEF NoWrite
<1> QED BY <1>8, <1>5, <1>10, <1>11, <1>12, <1>13 DEF CallsAddress

\* A data byte of a blocking transmission, and the end of it.
LEMMA CallsSendMoves ==
  ASSUME Control, CallsSend, CpuMoves, NEW c \in Bit, DeviceStep(c)
  PROVE  Situation'
<1>1. bus = None /\ DeviceTypes /\ DeviceTypes' /\ Ticks(c) /\ Lands("none", {}) /\ TxrNext = txr /\ txr' = txr
  BY MoveClock DEF Control
<1>2. /\ Alone /\ c0.dir = "tx" /\ n \in 1 .. c0.size + 1 /\ sel = c0.dev
      /\ pc["main"] \in {"byte", "command", "nop", "poll", "result", "iack"}
      /\ (pc["main"] # "iack" => n <= c0.size)
  BY DEF CallsSend
<1>3. BlockingStep BY <1>2, BlockingGoes DEF BlockingLabel
<1>4. arg["main"] \in Call /\ "main" \in Thread BY DEF Control, Types, Thread
<1>5. c0.size \in Nat \ {0} BY <1>4, DriverAssumption DEF c0, Call
<1>6. PICK k \in Nat \ {0} : k = n BY <1>2, <1>5
<1>7. PICK W \in {{"WR"}, {"WR", "STO"}} : W = SendFlags(k) BY DEF SendFlags, If
<1>8. Sending /\ ByteOut = k /\ Flags = W /\ ~Repeats /\ (LastByte <=> k = c0.size) /\ "WR" \in W
  BY <1>2, <1>6, <1>7 DEF Sending, ByteOut, Flags, Repeats, LastByte, SendFlags
<1>9. ASSUME NEW to \in BlockingLabel \cup {"ready"}, NEW access, NEW from, Step("main", from, to, access), sel' = sel,
             \/ to = "command" /\ access = Write("TXR", k) /\ Calm' /\ Ended({"WR"}, k - 1)'
             \/ to = "nop" /\ access = Write("CR", W) /\ Calm' /\ Ended({"WR"}, k - 1)' /\ txr = k
             \/ to = "poll" /\ access \in {None, Other} /\ SendFly(W, k)' /\ TipUp'
             \/ to = "result" /\ access = Other /\ SendFly(W, k)' /\ Calm',
             k <= c0.size
      PROVE  Situation'
  <2>1. bus' = access /\ Alone' /\ n' = k /\ c0' = c0 /\ pc'["main"] = to
    BY <1>2, <1>4, <1>6, <1>9, Stepped DEF Control, Alone, c0
  <2>2. SendFlags(k)' = W BY <1>7, <2>1 DEF SendFlags
  <2>3. access = Write("TXR", k) => bus'[1] = "TXR" /\ TxrNext' = k BY <2>1 DEF Write, TxrNext
  <2>4. access \in {None, Other} => NoWrite' BY <2>1 DEF NoWrite
  <2>5. n' \in 1 .. c0.size + 1 BY <1>2, <1>6, <2>1
  <2>6. CallsSend' BY <1>1, <1>2, <1>9, <2>1, <2>2, <2>3, <2>4, <2>5 DEF CallsSend
  <2> QED BY <2>6 DEF Situation, Calls
<1>10. CASE pc["main"] = "byte"
  <2>1. Calm /\ Ended({"WR"}, k - 1) BY <1>6, <1>10 DEF CallsSend
  <2>2. Calm' /\ Ended({"WR"}, k - 1)' /\ sel' = sel BY <1>1, <2>1, CalmKeeps DEF Kept, Ended
  <2>3. Step("main", "byte", "command", Write("TXR", k)) BY <1>3, <1>8, <1>10, AtBlocking
  <2> QED BY <1>2, <1>6, <1>9, <1>10, <2>2, <2>3 DEF BlockingLabel
<1>11. CASE pc["main"] = "command"
  <2>1. Calm /\ Ended({"WR"}, k - 1) /\ txr = k BY <1>1, <1>6, <1>11 DEF CallsSend
  <2>2. Calm' /\ Ended({"WR"}, k - 1)' /\ sel' = sel BY <1>1, <2>1, CalmKeeps DEF Kept, Ended
  <2>3. Step("main", "command", "nop", Write("CR", W)) BY <1>3, <1>8, <1>11, AtBlocking
  <2> QED BY <1>2, <1>6, <1>9, <1>11, <2>1, <2>2, <2>3 DEF BlockingLabel
<1>12. CASE pc["main"] = "nop"
  <2>1. SendFly(W, k) BY <1>1, <1>6, <1>7, <1>12 DEF CallsSend, Write, None
  <2>2. SendFly(W, k)' /\ sel' = sel /\ TipUp' BY <1>1, <2>1, SendFlyStep, TipStep
  <2>3. Step("main", "nop", "poll", None) BY <1>3, <1>12, AtBlocking
  <2> QED BY <1>2, <1>6, <1>9, <1>12, <2>2, <2>3 DEF BlockingLabel
<1>13. CASE pc["main"] = "poll"
  <2>1. SendFly(W, k) /\ TipUp BY <1>6, <1>7, <1>13 DEF CallsSend
  <2>2. SendFly(W, k)' /\ sel' = sel /\ TipUp' BY <1>1, <2>1, SendFlyStep, TipStep
  <2>3. CASE "TIP" \in Status
    <3>1. Step("main", "poll", "poll", Other) BY <1>3, <1>13, <2>3, AtBlocking
    <3> QED BY <1>2, <1>6, <1>9, <1>13, <2>2, <3>1 DEF BlockingLabel
  <2>4. CASE "TIP" \notin Status
    <3>1. Step("main", "poll", "result", Other) BY <1>3, <1>13, <2>4, AtBlocking
    <3>2. Calm BY <1>1, <1>8, <2>1, <2>4, TipDown
    <3>3. Calm' BY <1>1, <3>2, CalmKeeps
    <3> QED BY <1>2, <1>6, <1>9, <1>13, <2>2, <3>1, <3>3 DEF BlockingLabel
  <2> QED BY <2>3, <2>4
<1>14. CASE pc["main"] = "result"
  <2>1. SendFly(W, k) /\ Calm BY <1>6, <1>7, <1>14 DEF CallsSend
  <2>2. Calm' /\ Kept BY <1>1, <2>1, CalmKeeps
  <2>3. Ended(W, k) BY <1>8, <2>1 DEF SendFly, SendBusy, Calm
  <2>4. Ended(W, k)' /\ sel' = sel BY <2>2, <2>3 DEF Kept, Ended
  <2>5. Result BY <1>3, <1>14, AtBlocking
  <2>6. /\ bus' = Other /\ arg' = arg /\ State' = State /\ n' = k + 1 /\ pc'["isr"] = pc["isr"]
        /\ pc'["main"] = IF k # c0.size THEN "byte" ELSE "iack"
    BY <1>2, <1>4, <1>6, <1>8, <2>5, Goes DEF Result, Control, Thread
  <2>7. NoWrite' /\ c0' = c0 /\ Alone' BY <1>2, <2>6 DEF NoWrite, c0, Alone
  <2>8. CASE k # c0.size
    <3>1. W = {"WR"} BY <1>7, <2>8 DEF SendFlags, If
    <3>2. Ended({"WR"}, n - 1)' BY <2>4, <2>6, <3>1
    <3>3. n' <= c0.size /\ n' \in 1 .. c0.size + 1 BY <1>2, <1>5, <1>6, <1>14, <2>6, <2>8
    <3>4. CallsSend' BY <1>2, <2>2, <2>4, <2>6, <2>7, <2>8, <3>2, <3>3 DEF CallsSend
    <3> QED BY <3>4 DEF Situation, Calls
  <2>9. CASE k = c0.size
    <3>1. W = {"WR", "STO"} BY <1>7, <2>9 DEF SendFlags, If
    <3>2. Ended({"WR", "STO"}, c0.size)' BY <2>4, <2>7, <2>9, <3>1
    <3>3. n' = c0.size + 1 /\ n' \in 1 .. c0.size + 1 BY <1>5, <2>6, <2>9
    <3>4. CallsSend' BY <1>2, <2>2, <2>4, <2>6, <2>7, <2>9, <3>2, <3>3 DEF CallsSend
    <3> QED BY <3>4 DEF Situation, Calls
  <2> QED BY <2>8, <2>9
<1>15. CASE pc["main"] = "iack"
  <2>1. Calm /\ Ended({"WR", "STO"}, c0.size) BY <1>15 DEF CallsSend
  <2>2. Calm' /\ Kept BY <1>1, <2>1, CalmKeeps
  <2>3. slave' = "idle" BY <2>1, <2>2 DEF Ended, Kept
  <2>4. Step("main", "iack", "ready", Write("CR", {"IACK"})) BY <1>3, <1>15, AtBlocking
  <2>5. bus' = Write("CR", {"IACK"}) /\ State' = State /\ pc'["main"] = "ready" /\ pc'["isr"] = pc["isr"]
    BY <1>4, <2>4, Stepped DEF Control
  <2>6. Rests' BY <1>2, <2>2, <2>3, <2>5 DEF Rests, Alone, Between, Freed, Acking
  <2> QED BY <2>6 DEF Situation
<1> QED BY <1>2, <1>10, <1>11, <1>12, <1>13, <1>14, <1>15

\* The same while it waits.
LEMMA CallsSendWaits ==
  ASSUME Control, CallsSend, CpuWaits, NEW c \in Bit, DeviceStep(c)
  PROVE  Situation'
<1>1. /\ DeviceTypes /\ Ticks(c) /\ Lands(WriteAdr, WriteDat)
      /\ bus' = None /\ pc' = pc /\ State' = State /\ arg' = arg /\ n' = n /\ TxrNext' = TxrNext
      /\ NoWrite => WriteAdr = "none"
      /\ bus[1] \in {"CTR", "TXR", "CR"} => WriteAdr = bus[1] /\ WriteDat = bus[2]
  BY WaitClock DEF Control
<1>2. "EN" \in CtrNext BY DEF CallsSend, Control, Enabled, InitLabel
<1>3. n \in 1 .. c0.size + 1 /\ c0.size \in Nat
  BY DriverAssumption DEF CallsSend, Control, Types, Thread, c0, Call
<1>4. PICK k \in Nat \ {0} : k = n BY <1>3
<1>5. PICK W \in {{"WR"}, {"WR", "STO"}} : W = SendFlags(k) BY DEF SendFlags, If
<1>6. /\ Alone' /\ n' = k /\ c0' = c0 /\ (c0.dir)' = "tx" /\ NoWrite' /\ SendFlags(k)' = W
      /\ n' \in 1 .. (c0.size)' + 1 /\ (pc'["main"] # "iack" => n' <= (c0.size)')
  BY <1>1, <1>4, <1>5 DEF CallsSend, Alone, c0, NoWrite, SendFlags
<1>7. CASE pc["main"] \in {"byte", "command", "iack"} /\ (NoWrite \/ bus[1] = "TXR")
  <2>1. WriteAdr # "CR" BY <1>1, <1>7
  <2>2. Calm BY <1>7 DEF CallsSend
  <2>3. Calm' /\ Kept BY <1>1, <2>1, <2>2, CalmKeeps
  <2>4. CASE pc["main"] \in {"byte", "command"}
    <3>1. Ended({"WR"}, k - 1)' BY <1>4, <2>3, <2>4 DEF CallsSend, Ended, Kept
    <3>2. CallsSend' BY <1>1, <1>6, <2>3, <2>4, <3>1 DEF CallsSend, Kept
    <3> QED BY <3>2 DEF Situation, Calls
  <2>5. CASE pc["main"] = "iack"
    <3>1. Ended({"WR", "STO"}, c0.size)' BY <1>6, <2>3, <2>5 DEF CallsSend, Ended, Kept
    <3>2. CallsSend' BY <1>1, <1>6, <2>3, <2>5, <3>1 DEF CallsSend, Kept
    <3> QED BY <3>2 DEF Situation, Calls
  <2> QED BY <1>7, <2>4, <2>5
<1>8. CASE pc["main"] = "nop" /\ bus = Write("CR", W)
  <2>1. Calm /\ txr = k /\ Ended({"WR"}, k - 1) BY <1>4, <1>8 DEF CallsSend, SendFly, Write, None
  <2>2. bus[1] = "CR" /\ bus[2] = W BY <1>8 DEF Write
  <2>3. WriteAdr = "CR" /\ WriteDat = W /\ "EN" \in ctr BY <1>1, <1>2, <2>2 DEF CtrNext
  <2>4. SendFly(W, k)' /\ sel' = sel BY <1>1, <2>1, <2>3, SendTakes
  <2>5. CallsSend' BY <1>1, <1>6, <1>8, <2>4 DEF CallsSend
  <2> QED BY <2>5 DEF Situation, Calls
<1>9. CASE pc["main"] \in {"nop", "poll", "result"} /\ NoWrite /\ SendFly(W, k)
  <2>1. WriteAdr = "none" BY <1>1, <1>9
  <2>2. SendFly(W, k)' /\ sel' = sel /\ TipUp' BY <1>1, <1>9, <2>1, SendFlyStep, TipStep
  <2>3. Calm => Calm' BY <1>1, <2>1, CalmKeeps
  <2>4. CallsSend' BY <1>1, <1>6, <1>9, <2>2, <2>3 DEF CallsSend
  <2> QED BY <2>4 DEF Situation, Calls
<1> QED BY <1>4, <1>5, <1>7, <1>8, <1>9 DEF CallsSend, NoWrite

\* A byte of a blocking reception, and the STOP after the last one.
LEMMA CallsReadMoves ==
  ASSUME Control, CallsRead, CpuMoves, NEW c \in Bit, DeviceStep(c)
  PROVE  Situation'
<1>1. bus = None /\ DeviceTypes /\ DeviceTypes' /\ Ticks(c) /\ Lands("none", {})
  BY MoveClock DEF Control
<1>2. /\ Alone /\ c0.dir = "rx" /\ n \in 1 .. c0.size + 1 /\ buf = Upto(n - 1)
      /\ pc["main"] \in {"byte", "nop", "poll", "result", "stop", "iack"}
      /\ (pc["main"] \in {"byte", "nop", "poll", "result"} => n <= c0.size)
  BY DEF CallsRead
<1>3. BlockingStep BY <1>2, BlockingGoes DEF BlockingLabel
<1>4. arg["main"] \in Call /\ "main" \in Thread BY DEF Control, Types, Thread
<1>5. c0.size \in Nat \ {0} BY <1>4, DriverAssumption DEF c0, Call
<1>6. PICK k \in Nat \ {0} : k = n BY <1>2, <1>5
<1>7. PICK last \in BOOLEAN : last <=> k = c0.size
  <2>1. CASE k = c0.size BY <2>1
  <2>2. CASE k # c0.size BY <2>2
  <2> QED BY <2>1, <2>2
<1>8. ~Sending /\ Flags = {"RD"} \cup If(last, "ACK") /\ ~Repeats /\ LastByte = last
  BY <1>2, <1>6, <1>7 DEF Sending, Flags, Repeats, LastByte
<1>9. ASSUME NEW to \in {"nop", "poll", "result"}, NEW access, NEW from, Step("main", from, to, access),
             \/ /\ to = "nop" /\ access = Write("CR", {"RD"} \cup If(last, "ACK"))
                /\ Calm' /\ ack_out' = 0 /\ slave' = "sends" /\ nxt' = k
             \/ to = "poll" /\ access \in {None, Other} /\ ReadFly(last, k)' /\ TipUp'
             \/ to = "result" /\ access = Other /\ Calm' /\ Got(last, k)',
             k <= c0.size
      PROVE  Situation'
  <2>1. bus' = access /\ Alone' /\ n' = k /\ c0' = c0 /\ pc'["main"] = to /\ buf' = buf
    BY <1>2, <1>4, <1>6, <1>9, Stepped DEF Control, Alone, c0
  <2>2. (n = c0.size)' = last BY <1>7, <2>1
  <2>3. access \in {None, Other} => NoWrite' BY <2>1 DEF NoWrite
  <2>4. n' \in 1 .. c0.size + 1 BY <1>2, <1>6, <2>1
  <2>5. buf' = Upto(n' - 1) BY <1>2, <1>6, <2>1
  <2>6. CASE to = "nop"
    BY <1>2, <1>9, <2>1, <2>2, <2>4, <2>5, <2>6 DEF CallsRead, Situation, Calls
  <2>7. CASE to = "poll"
    <3>1. ReadFly(n = c0.size, n)' BY <1>9, <2>1, <2>2, <2>7
    <3>2. CallsRead' BY <1>2, <1>9, <2>1, <2>3, <2>4, <2>5, <2>7, <3>1 DEF CallsRead
    <3> QED BY <3>2 DEF Situation, Calls
  <2>8. CASE to = "result"
    <3>1. Got(n = c0.size, n)' BY <1>9, <2>1, <2>2, <2>8
    <3>2. CallsRead' BY <1>2, <1>9, <2>1, <2>3, <2>4, <2>5, <2>8, <3>1 DEF CallsRead
    <3> QED BY <3>2 DEF Situation, Calls
  <2> QED BY <1>9, <2>6, <2>7, <2>8
<1>10. CASE pc["main"] = "byte"
  <2>1. Calm /\ ack_out = 0 /\ slave = "sends" /\ nxt = k BY <1>6, <1>10 DEF CallsRead
  <2>2. Calm' /\ ack_out' = 0 /\ slave' = "sends" /\ nxt' = k BY <1>1, <2>1, CalmKeeps DEF Kept
  <2>3. Step("main", "byte", "nop", Write("CR", {"RD"} \cup If(last, "ACK"))) BY <1>3, <1>8, <1>10, AtBlocking
  <2> QED BY <1>2, <1>6, <1>9, <1>10, <2>2, <2>3
<1>11. CASE pc["main"] = "nop"
  <2>1. ReadFly(last, k) BY <1>1, <1>6, <1>7, <1>11 DEF CallsRead, Write, None
  <2>2. ReadFly(last, k)' /\ TipUp' BY <1>1, <2>1, ReadFlyStep, TipStep
  <2>3. Step("main", "nop", "poll", None) BY <1>3, <1>11, AtBlocking
  <2> QED BY <1>2, <1>6, <1>9, <1>11, <2>2, <2>3
<1>12. CASE pc["main"] = "poll"
  <2>1. ReadFly(last, k) /\ TipUp BY <1>6, <1>7, <1>12 DEF CallsRead
  <2>2. ReadFly(last, k)' /\ TipUp' BY <1>1, <2>1, ReadFlyStep, TipStep
  <2>3. CASE "TIP" \in Status
    <3>1. Step("main", "poll", "poll", Other) BY <1>3, <1>12, <2>3, AtBlocking
    <3> QED BY <1>2, <1>6, <1>9, <1>12, <2>2, <3>1
  <2>4. CASE "TIP" \notin Status
    <3>1. Step("main", "poll", "result", Other) BY <1>3, <1>12, <2>4, AtBlocking
    <3>2. Calm BY <1>1, <2>1, <2>4, TipDown
    <3>3. Calm' /\ Kept BY <1>1, <3>2, CalmKeeps
    <3>4. Got(last, k)' BY <2>1, <3>2, <3>3 DEF ReadFly, Calm, Kept, Got
    <3> QED BY <1>2, <1>6, <1>9, <1>12, <3>1, <3>3, <3>4
  <2> QED BY <2>3, <2>4
<1>13. CASE pc["main"] = "result"
  <2>1. Calm /\ Got(last, k) BY <1>6, <1>7, <1>13 DEF CallsRead
  <2>2. Calm' /\ Got(last, k)' BY <1>1, <2>1, CalmKeeps DEF Kept, Got
  <2>3. Result BY <1>3, <1>13, AtBlocking
  <2>4. buf' = Upto(k)
    <3>1. buf' = Append(buf, sr) BY <1>8, <2>3 DEF Result
    <3>2. buf = Upto(k - 1) /\ sr = k BY <1>2, <1>6, <2>1 DEF Got
    <3> QED BY <3>1, <3>2, UptoNext
  <2>5. /\ bus' = Other /\ arg' = arg /\ State' = State /\ n' = k + 1 /\ pc'["isr"] = pc["isr"]
        /\ pc'["main"] = IF last THEN "stop" ELSE "byte"
    BY <1>2, <1>4, <1>6, <1>8, <2>3, Goes DEF Result, Control, Thread
  <2>6. NoWrite' /\ c0' = c0 /\ Alone' BY <1>2, <2>5 DEF NoWrite, c0, Alone
  <2>7. n' \in 1 .. (c0.size)' + 1 /\ buf' = Upto(n' - 1) BY <1>2, <1>5, <1>6, <1>13, <2>4, <2>5, <2>6
  <2>8. CASE last
    <3>1. n' = (c0.size)' + 1 /\ ack_out' = 1 BY <1>7, <2>2, <2>5, <2>6, <2>8 DEF Got, One
    <3>2. CallsRead' BY <1>2, <2>2, <2>5, <2>6, <2>7, <2>8, <3>1 DEF CallsRead
    <3> QED BY <3>2 DEF Situation, Calls
  <2>9. CASE ~last
    <3>1. n' <= (c0.size)' BY <1>2, <1>5, <1>6, <1>7, <1>13, <2>5, <2>6, <2>9
    <3>2. ack_out' = 0 /\ slave' = "sends" /\ nxt' = n' BY <2>2, <2>5, <2>9 DEF Got, One
    <3>3. CallsRead' BY <1>2, <2>2, <2>5, <2>6, <2>7, <2>9, <3>1, <3>2 DEF CallsRead
    <3> QED BY <3>3 DEF Situation, Calls
  <2> QED BY <2>8, <2>9
<1>14. CASE pc["main"] = "stop"
  <2>1. Calm /\ ack_out = 1 /\ n = c0.size + 1 BY <1>14 DEF CallsRead
  <2>2. Calm' /\ ack_out' = 1 BY <1>1, <2>1, CalmKeeps DEF Kept
  <2>3. Step("main", "stop", "iack", Write("CR", {"STO"})) BY <1>3, <1>14, AtBlocking
  <2>4. bus' = Write("CR", {"STO"}) /\ Alone' /\ n' = n /\ c0' = c0 /\ pc'["main"] = "iack" /\ buf' = buf
    BY <1>2, <1>4, <2>3, Stepped DEF Control, Alone, c0
  <2>5. CallsRead' BY <1>2, <2>1, <2>2, <2>4 DEF CallsRead
  <2> QED BY <2>5 DEF Situation, Calls
<1>15. CASE pc["main"] = "iack"
  <2>1. StopTail /\ WillBeFree BY <1>1, <1>15 DEF CallsRead, Freed, WillBeFree, Write, None
  <2>2. Between' /\ WillBeFree' BY <1>1, <2>1, BetweenKeeps, FreeStep DEF Between
  <2>3. irq_flag' = 1 => ack_out' = 1 BY <1>1, <2>1, BetweenKeeps DEF Between, StopTail
  <2>4. Step("main", "iack", "ready", Write("CR", {"IACK"})) BY <1>3, <1>15, AtBlocking
  <2>5. bus' = Write("CR", {"IACK"}) /\ State' = State /\ pc'["main"] = "ready" /\ pc'["isr"] = pc["isr"]
    BY <1>4, <2>4, Stepped DEF Control
  <2>6. Freed' BY <2>2 DEF Freed, WillBeFree
  <2>7. Rests' BY <1>2, <2>2, <2>3, <2>5, <2>6 DEF Rests, Alone
  <2> QED BY <2>7 DEF Situation
<1> QED BY <1>2, <1>10, <1>11, <1>12, <1>13, <1>14, <1>15

\* The same while it waits.
LEMMA CallsReadWaits ==
  ASSUME Control, CallsRead, CpuWaits, NEW c \in Bit, DeviceStep(c)
  PROVE  Situation'
<1>1. /\ DeviceTypes /\ Ticks(c) /\ Lands(WriteAdr, WriteDat)
      /\ bus' = None /\ pc' = pc /\ State' = State /\ arg' = arg /\ n' = n /\ buf' = buf
      /\ NoWrite => WriteAdr = "none"
      /\ bus[1] \in {"CTR", "TXR", "CR"} => WriteAdr = bus[1] /\ WriteDat = bus[2]
  BY WaitClock DEF Control
<1>2. "EN" \in CtrNext BY DEF CallsRead, Control, Enabled, InitLabel
<1>3. n \in 1 .. c0.size + 1 /\ c0.size \in Nat
  BY DriverAssumption DEF CallsRead, Control, Types, Thread, c0, Call
<1>4. PICK k \in Nat \ {0} : k = n BY <1>3
<1>5. PICK last \in BOOLEAN : last = (n = c0.size) OBVIOUS
<1>6. /\ Alone' /\ n' = k /\ c0' = c0 /\ (c0.dir)' = "rx" /\ NoWrite' /\ (n = c0.size)' = last
      /\ n' \in 1 .. (c0.size)' + 1 /\ (pc'["main"] \in {"byte", "nop", "poll", "result"} => n' <= (c0.size)')
      /\ buf' = Upto(n' - 1) /\ bus' = None
  BY <1>1, <1>4, <1>5 DEF CallsRead, Alone, c0, NoWrite
<1>7. CASE pc["main"] \in {"byte", "result", "stop"}
  <2>1. WriteAdr # "CR" /\ Calm BY <1>1, <1>7 DEF CallsRead
  <2>2. Calm' /\ Kept BY <1>1, <2>1, CalmKeeps
  <2>3. CASE pc["main"] = "byte"
    <3>1. CallsRead' BY <1>1, <1>6, <2>2, <2>3 DEF CallsRead, Kept
    <3> QED BY <3>1 DEF Situation, Calls
  <2>4. CASE pc["main"] = "result"
    <3>1. Got(last, k) BY <1>4, <1>5, <2>4 DEF CallsRead
    <3>2. Got(last, k)' BY <2>2, <3>1 DEF Got, Kept
    <3>3. Got(n = c0.size, n)' BY <1>6, <3>2
    <3>4. CallsRead' BY <1>1, <1>6, <2>2, <2>4, <3>3 DEF CallsRead
    <3> QED BY <3>4 DEF Situation, Calls
  <2>5. CASE pc["main"] = "stop"
    <3>1. CallsRead' BY <1>1, <1>6, <2>2, <2>5 DEF CallsRead, Kept
    <3> QED BY <3>1 DEF Situation, Calls
  <2> QED BY <1>7, <2>3, <2>4, <2>5
<1>8. CASE pc["main"] = "nop" /\ bus # None
  <2>1. bus = Write("CR", {"RD"} \cup If(last, "ACK")) /\ Calm /\ ack_out = 0 /\ slave = "sends" /\ nxt = k
    BY <1>4, <1>5, <1>8 DEF CallsRead
  <2>2. bus[1] = "CR" /\ bus[2] = {"RD"} \cup If(last, "ACK") BY <2>1 DEF Write
  <2>3. WriteAdr = "CR" /\ WriteDat = {"RD"} \cup If(last, "ACK") /\ "EN" \in ctr BY <1>1, <1>2, <2>2 DEF CtrNext
  <2>4. ReadFly(last, k)' BY <1>1, <2>1, <2>3, ReadTakes
  <2>5. ReadFly(n = c0.size, n)' BY <1>6, <2>4
  <2>6. CallsRead' BY <1>1, <1>6, <1>8, <2>5 DEF CallsRead
  <2> QED BY <2>6 DEF Situation, Calls
<1>9. CASE pc["main"] = "poll" \/ (pc["main"] = "nop" /\ bus = None)
  <2>1. WriteAdr = "none" /\ ReadFly(last, k) BY <1>1, <1>4, <1>5, <1>9 DEF CallsRead, NoWrite, Write, None
  <2>2. ReadFly(last, k)' /\ TipUp' BY <1>1, <2>1, ReadFlyStep, TipStep
  <2>3. ReadFly(n = c0.size, n)' BY <1>6, <2>2
  <2>4. CallsRead' BY <1>1, <1>6, <1>9, <2>2, <2>3 DEF CallsRead
  <2> QED BY <2>4 DEF Situation, Calls
<1>10. CASE pc["main"] = "iack" /\ bus = Write("CR", {"STO"})
  <2>1. Calm /\ ack_out = 1 /\ n = c0.size + 1 BY <1>10 DEF CallsRead, StopTail, Write, None
  <2>2. bus[1] = "CR" /\ bus[2] = {"STO"} BY <1>10 DEF Write
  <2>3. WriteAdr = "CR" /\ WriteDat = {"STO"} /\ "EN" \in ctr BY <1>1, <1>2, <2>2 DEF CtrNext
  <2>4. cr' = {"STO"} BY <1>1, <2>3, CommandStep
  <2>5. c_state' = "IDLE" /\ cmd_ack' = 0 /\ rxack' = 1 /\ ack_out' = 1 BY <1>1, <2>1, CalmRests DEF Kept
  <2>6. StopTail' /\ Freed' BY <2>4, <2>5 DEF StopTail, Freed, Cmds, Command
  <2>7. CallsRead' BY <1>1, <1>6, <1>10, <2>1, <2>6 DEF CallsRead
  <2> QED BY <2>7 DEF Situation, Calls
<1>11. CASE pc["main"] = "iack" /\ bus = None
  <2>1. StopTail /\ WillBeFree /\ n = c0.size + 1 /\ WriteAdr = "none"
    BY <1>1, <1>11 DEF CallsRead, Freed, WillBeFree, Write, None, NoWrite
  <2>2. StopTail' /\ WillBeFree' BY <1>1, <2>1, TailKeeps, FreeStep DEF Between
  <2>3. Freed' BY <2>2 DEF Freed, WillBeFree
  <2>4. CallsRead' BY <1>1, <1>6, <1>11, <2>1, <2>2, <2>3 DEF CallsRead
  <2> QED BY <2>4 DEF Situation, Calls
<1> QED BY <1>7, <1>8, <1>9, <1>10, <1>11 DEF CallsRead

------------------------------------------------------------------------------
(***************************************************************************)
(* The address byte of an interrupt-driven transfer, which main and the    *)
(* handler may both be sending.                                            *)
(***************************************************************************)

\* A thread goes on, the other one stays.
Hops(t, from, to) ==
  /\ pc[t] = from
  /\ pc'["main"] = IF t = "main" THEN to ELSE pc["main"]
  /\ pc'["isr"] = IF t = "isr" THEN to ELSE pc["isr"]

\* The transfer goes on to the state s.
Turns(d, s) ==
  /\ IT'[d].state = s /\ IT'[d].dev = IT[d].dev /\ IT'[d].next = IT[d].next
  /\ IT'[d].left = IT[d].left /\ IT'[d].size = IT[d].size /\ buf' = buf

Turn(t) == t = IF pc["isr"] # "none" THEN "isr" ELSE "main"

\* A step of the core while the address of a transfer d is sent.
Handler(d) ==
  \/ Hops("isr", "none", "irqAck") /\ inta = 1 /\ bus' = None /\ arg' = arg
  \/ Hops("isr", "irqAck", "irqDispatch") /\ bus' = Write("CR", {"IACK"}) /\ arg' = arg
  \/ Hops("isr", "irqDispatch", "sequence") /\ bus' = None /\ arg'["main"] = arg["main"] /\ arg'["isr"].dir = d
  \/ Hops("main", "ready", "ready") /\ pc["isr"] = "none" /\ bus' = None /\ arg' = arg
Starts(t, d) ==
  \/ Hops(t, "itState", "itFields") /\ bus' = Other /\ Turns(d, "READY")
  \/ Hops(t, "itFields", "sequence") /\ bus' = Other /\ Filled(d)' /\ IT'[d].state = IT[d].state
  \/ /\ Hops(t, "sequence", "sequence") /\ IT[d].state = "ADDRESS" /\ bus' = Other
     /\ Turns(d, IF rxack = 1 THEN "READY" ELSE "DATA")
  \/ /\ Hops(t, "sequence", "seqStart") /\ IT[d].state = "READY" /\ Turns(d, "READY")
     /\ \E a \in Addresses(d) : bus' = Write("TXR", a)
  \/ Hops(t, "seqStart", "seqStarted") /\ bus' = Write("CR", {"STA", "WR"}) /\ Turns(d, IT[d].state)
  \/ Hops(t, "seqStarted", Back(t)) /\ bus' = None /\ Turns(d, "ADDRESS")
AddressMove(d) ==
  /\ State' = State
  /\ \/ Handler(d) /\ Turns(d, IT[d].state)
     \/ arg' = arg /\ \E t \in Thread : Turn(t) /\ Starts(t, d)

\* The steps there are.
LEMMA AddressGoes ==
  ASSUME Control, NEW d \in Direction, AddressFrame(d), CpuMoves
  PROVE  AddressMove(d)
<1>1. /\ State = BUSY(d) /\ State # "READY" /\ IT[d].state \in {"READY", "ADDRESS"}
      /\ pc["main"] \in {"ready"} \cup Starting
      /\ pc["isr"] \in {"none", "irqAck", "irqDispatch"} \cup Starting
  BY DEF AddressFrame, BUSY
<1>2. \A e \in Direction : State = BUSY(e) => e = d BY <1>1 DEF BUSY, Direction
<1>3. Types /\ IT \in [Direction -> Handle] /\ IT[d] \in Handle /\ IT[d].dev \in Devices \cup {0}
  BY DEF Control, Types, Handle
<1>4. CASE Interrupted /\ To("isr", "irqAck", None) /\ UNCHANGED <<arg, n, State, IT, buf, calls>>
  BY <1>3, <1>4, Goes DEF Interrupted, AddressMove, Handler, Hops, Turns, Thread
<1>5. CASE IRQ_Ack
  BY <1>3, <1>5, Stepped DEF IRQ_Ack, Step, At, AddressMove, Handler, Hops, Turns, Thread
<1>6. CASE IRQ_Dispatch
  <2>1. arg' = [arg EXCEPT !["isr"].dir = d] /\ To("isr", "sequence", None)
    BY <1>1, <1>2, <1>6 DEF IRQ_Dispatch
  <2>2. arg \in [Thread -> Call] BY DEF Control, Types
  <2>3. arg'["main"] = arg["main"] /\ arg'["isr"].dir = d BY <2>1, <2>2 DEF Thread, Call
  <2>4. State' = State /\ IT' = IT /\ buf' = buf BY <1>6 DEF IRQ_Dispatch
  <2> QED BY <1>3, <1>6, <2>1, <2>3, <2>4, Goes DEF IRQ_Dispatch, At, AddressMove, Handler, Hops, Turns, Thread
<1>7. CASE pc["main"] = "ready" /\ pc["isr"] = "none" /\ MainCalls
  <2>1. PICK k \in Call : StartCall("main", k) BY <1>7 DEF MainCalls
  <2>2. To("main", "ready", None) /\ arg' = arg /\ State' = State /\ IT' = IT /\ buf' = buf
    BY <1>1, <1>7, <2>1 DEF StartCall
  <2> QED BY <1>3, <1>7, <2>2, Goes DEF AddressMove, Handler, Hops, Turns, Thread
<1>8. ASSUME NEW t \in Thread, Turn(t), pc[t] \in SequenceLabel, SequenceStep(t)
      PROVE  AddressMove(d)
  <2>1. pc[t] \in Starting /\ dir(t) = d
    BY <1>1, <1>8 DEF Thread, SequenceLabel, Starting, AddressFrame, dir
  <2>2. ASSUME NEW s \in ItState, NEW from, NEW to, NEW access, Move(t, from, to, access, s)
        PROVE  bus' = access /\ arg' = arg /\ State' = State /\ Hops(t, from, to) /\ Turns(d, s)
    <3>1. /\ bus' = access /\ arg' = arg /\ State' = State /\ buf' = buf
          /\ pc'["main"] = (IF t = "main" THEN to ELSE pc["main"])
          /\ pc'["isr"] = (IF t = "isr" THEN to ELSE pc["isr"])
          /\ IT'[dir(t)].state = s /\ IT'[dir(t)].dev = IT[dir(t)].dev /\ IT'[dir(t)].next = IT[dir(t)].next
          /\ IT'[dir(t)].left = IT[dir(t)].left /\ IT'[dir(t)].size = IT[dir(t)].size
      BY <1>3, <2>2, Moved
    <3>2. Turns(d, s) BY <2>1, <3>1 DEF Turns
    <3>3. pc[t] = from BY <2>2 DEF Move, At
    <3> QED BY <3>1, <3>2, <3>3 DEF Hops
  <2>3. ASSUME NEW from, NEW to, NEW access, Step(t, from, to, access)
        PROVE  bus' = access /\ arg' = arg /\ State' = State /\ Hops(t, from, to) /\ Turns(d, IT[d].state)
    BY <1>3, <2>3, Stepped DEF Hops, Turns, Step, At
  <2>4. CASE pc[t] = "itState"
    <3>1. Move(t, "itState", "itFields", Other, "READY")
      BY <1>8, <2>4, AtStart DEF IT_State, Move
    <3> QED BY <1>8, <2>2, <3>1 DEF ItState, AddressMove, Starts
  <2>5. CASE pc[t] = "itFields"
    <3>1. IT_Fields(t) BY <1>8, <2>5, AtStart
    <3>2. /\ Hops(t, "itFields", "sequence") /\ bus' = Other /\ arg' = arg /\ State' = State
          /\ buf' = IF d = "rx" THEN <<>> ELSE buf
          /\ IT' = [IT EXCEPT ![d] = [state |-> IT[d].state, dev |-> arg[t].dev, next |-> 1,
                                      left |-> arg[t].size, size |-> arg[t].size]]
      BY <1>3, <2>1, <2>5, <3>1, Goes DEF IT_Fields, Hops
    <3>3. IT'[d] = [state |-> IT[d].state, dev |-> arg[t].dev, next |-> 1, left |-> arg[t].size, size |-> arg[t].size]
      BY <1>3, <3>2
    <3>4. arg[t].dev \in Devices /\ arg[t].size \in Sizes BY DEF Control, Types, Call
    <3>5. Filled(d)' /\ IT'[d].state = IT[d].state BY <3>2, <3>3, <3>4 DEF Filled
    <3> QED BY <1>8, <3>2, <3>5 DEF AddressMove, Starts
  <2>6. CASE pc[t] = "sequence" /\ IT[d].state = "ADDRESS"
    <3>1. PICK s \in ItState : s = IF rxack = 1 THEN "READY" ELSE "DATA" BY DEF ItState
    <3>2. AfterAddress = s BY <3>1 DEF AfterAddress, Acknowledged, Status, StatusBit
    <3>3. Move(t, "sequence", "sequence", Other, s) BY <1>8, <2>1, <2>6, <3>2, AtSequence
    <3> QED BY <1>8, <2>2, <2>6, <3>1, <3>3 DEF AddressMove, Starts
  <2>7. CASE pc[t] = "sequence" /\ IT[d].state = "READY"
    <3>1. Step(t, "sequence", "seqStart", Write("TXR", AddressByte(d, IT[d].dev))) BY <1>8, <2>1, <2>7, AtSequence
    <3>2. AddressByte(d, IT[d].dev) \in Addresses(d) BY <1>3, AddressOdd
    <3> QED BY <1>8, <2>3, <2>7, <3>1, <3>2 DEF AddressMove, Starts
  <2>8. CASE pc[t] = "seqStart"
    <3>1. Step(t, "seqStart", "seqStarted", Write("CR", {"STA", "WR"})) BY <1>8, <2>8, AtStart
    <3> QED BY <1>8, <2>3, <3>1 DEF AddressMove, Starts
  <2>9. CASE pc[t] = "seqStarted"
    <3>1. Move(t, "seqStarted", Back(t), None, "ADDRESS") BY <1>8, <2>9, AtStart
    <3> QED BY <1>8, <2>2, <3>1 DEF ItState, AddressMove, Starts
  <2> QED BY <1>1, <2>1, <2>4, <2>5, <2>6, <2>7, <2>8, <2>9 DEF Starting
<1>9. pc["isr"] \in SequenceLabel => Turn("isr") BY DEF Turn, SequenceLabel, Starting
<1>10. pc["isr"] = "none" => Turn("main") BY DEF Turn
<1>11. pc["main"] \notin InitLabel \cup BlockingLabel BY <1>1 DEF Starting, InitLabel, BlockingLabel
<1>12. "main" \in Thread /\ "isr" \in Thread BY DEF Thread
<1> QED BY <1>3, <1>4, <1>5, <1>6, <1>7, <1>8, <1>9, <1>10, <1>11, <1>12, WhoMoves

\* They stay in the frame, unless the transfer goes on to its data.
LEMMA FrameMoves ==
  ASSUME Control, NEW d \in Direction, AddressFrame(d), AddressMove(d), TxrNext = txr, txr' = txr,
         rxack = 1 \/ ~(\E t \in Thread : Turn(t) /\ pc[t] = "sequence" /\ IT[d].state = "ADDRESS")
  PROVE  AddressFrame(d)'
<1>1. /\ State' = BUSY(d) /\ IT[d].state \in {"READY", "ADDRESS"}
      /\ pc["main"] \in {"ready"} \cup Starting
      /\ pc["isr"] \in {"none", "irqAck", "irqDispatch"} \cup Starting
      /\ (pc["main"] \in Starting => arg["main"].dir = d) /\ (pc["isr"] \in Starting => arg["isr"].dir = d)
  BY DEF AddressFrame, AddressMove, Thread
<1>2. ASSUME NEW s, Turns(d, s), Filled(d) PROVE Filled(d)'
  BY <1>2 DEF Turns, Filled
<1>3. CASE Handler(d) /\ Turns(d, IT[d].state)
  <2>1. IT'[d].state = IT[d].state BY <1>3 DEF Turns
  <2>2. /\ pc'["main"] = pc["main"] /\ pc'["isr"] \in {"none", "irqAck", "irqDispatch", "sequence"}
        /\ pc'["isr"] = "none" => pc["isr"] = "none" /\ pc["main"] = "ready"
        /\ pc["isr"] \notin {"itState", "itFields", "seqStart", "seqStarted"}
        /\ arg'["main"] = arg["main"] /\ (pc'["isr"] = "sequence" => arg'["isr"].dir = d)
        /\ bus' = None \/ (bus' = Write("CR", {"IACK"}) /\ pc'["isr"] = "irqDispatch")
    BY <1>3 DEF Handler, Hops
  <2>3. Writes(d)' BY <2>2 DEF Writes, Running, NoWrite, None, Other
  <2>4. Nobody' => IT'[d].state = "ADDRESS" BY <2>1, <2>2 DEF Nobody, AddressFrame
  <2>5. (\A t \in Thread : pc'[t] \notin {"itState", "itFields"}) => Filled(d)'
    BY <1>2, <1>3, <2>2 DEF AddressFrame, Thread
  <2>6. \A t \in Thread : pc'[t] \in {"seqStart", "seqStarted"} => TxrNext' \in Addresses(d)
    <3>1. bus'[1] # "TXR" BY <2>2 DEF None, Write
    <3>2. TxrNext' = TxrNext BY <3>1 DEF TxrNext
    <3> QED BY <2>2, <3>2 DEF AddressFrame, Thread
  <2>7. \A t \in Thread : pc'[t] \in Starting => arg'[t].dir = d
    BY <1>1, <2>2 DEF Thread, Starting
  <2>8. pc'["main"] \in {"ready"} \cup Starting /\ pc'["isr"] \in {"none", "irqAck", "irqDispatch"} \cup Starting
    BY <1>1, <2>2 DEF Starting
  <2> QED BY <1>1, <2>1, <2>3, <2>4, <2>5, <2>6, <2>7, <2>8 DEF AddressFrame
<1>4. ASSUME arg' = arg, NEW t \in Thread, Turn(t), Starts(t, d)
      PROVE  AddressFrame(d)'
  <2>1. PICK to \in Starting \cup {Back(t)} :
          /\ pc[t] \in Starting /\ pc'["main"] = (IF t = "main" THEN to ELSE pc["main"])
          /\ pc'["isr"] = (IF t = "isr" THEN to ELSE pc["isr"])
          /\ to \in Starting \/ (bus' = None /\ IT'[d].state = "ADDRESS")
    BY <1>4 DEF Starts, Hops, Starting, Turns
  <2>2. (t = "main" => pc["isr"] = "none") /\ (t = "isr" => pc["isr"] # "none") BY <1>4 DEF Turn, Thread
  <2>3. pc'["main"] \in {"ready"} \cup Starting /\ pc'["isr"] \in {"none", "irqAck", "irqDispatch"} \cup Starting
    BY <1>1, <2>1 DEF Back, Thread
  <2>4. \A u \in Thread : pc'[u] \in Starting => arg'[u].dir = d
    BY <1>1, <1>4, <2>1 DEF Thread
  <2>5. IT'[d].state \in {"READY", "ADDRESS"}
    BY <1>1, <1>4 DEF Starts, Turns, Hops
  <2>6. Nobody' => IT'[d].state = "ADDRESS"
    BY <2>1 DEF Nobody, Thread, Starting
  <2>7. (\A u \in Thread : pc'[u] \notin {"itState", "itFields"}) => Filled(d)'
    <3>1. CASE Hops(t, "itFields", "sequence") /\ Filled(d)' BY <3>1
    <3>2. CASE Hops(t, "itState", "itFields") BY <3>2 DEF Hops, Thread
    <3>3. CASE \E s : pc[t] \notin {"itState", "itFields"} /\ Turns(d, s)
      <4>1. (\A u \in Thread : pc'[u] \notin {"itState", "itFields"})
              => \A u \in Thread : pc[u] \notin {"itState", "itFields"}
        BY <2>1, <3>3 DEF Thread
      <4> QED BY <1>2, <3>3, <4>1 DEF AddressFrame
    <3> QED BY <1>4, <3>1, <3>2, <3>3 DEF Starts, Hops
  <2>8. Running' = to \/ bus' = None BY <2>1, <2>2 DEF Running, Thread, Starting
  <2>9. Writes(d)'
    <3>1. CASE bus' = None BY <3>1 DEF Writes, NoWrite, None, Other
    <3>2. CASE bus' # None
      <4>1. Running' = to BY <2>8, <3>2
      <4>2. \/ bus' = Other /\ to \in {"itFields", "sequence"}
            \/ to = "seqStart" /\ \E a : bus' = Write("TXR", a)
            \/ to = "seqStarted" /\ bus' = Write("CR", {"STA", "WR"})
        BY <1>4, <2>1, <3>2 DEF Starts, Hops, Thread
      <4> QED BY <4>1, <4>2 DEF Writes, NoWrite, Write
    <3> QED BY <3>1, <3>2
  <2>10. \A u \in Thread : pc'[u] \in {"seqStart", "seqStarted"} => TxrNext' \in Addresses(d)
    <3>1. CASE \E a \in Addresses(d) : bus' = Write("TXR", a) BY <3>1 DEF TxrNext, Write
    <3>2. CASE /\ bus' \in {None, Other, Write("CR", {"STA", "WR"})}
               /\ (to \in {"seqStart", "seqStarted"} => pc[t] = "seqStart")
      <4>1. TxrNext' = TxrNext BY <3>2 DEF TxrNext, None, Other, Write
      <4> QED BY <2>1, <3>2, <4>1 DEF AddressFrame, Thread
    <3> QED BY <1>4, <2>1, <3>1, <3>2 DEF Starts, Hops, Thread, Back
  <2> QED BY <1>1, <2>3, <2>4, <2>5, <2>6, <2>7, <2>9, <2>10 DEF AddressFrame
<1> QED BY <1>3, <1>4 DEF AddressMove

\* An address that was not acknowledged yet, or is not given to the device yet.
LEMMA NackMoves ==
  ASSUME Control, Requests, NEW d \in Direction, AddressFrame(d), NackAddress(d),
         CpuMoves, NEW c \in Bit, DeviceStep(c)
  PROVE  Addressing(d)'
<1>1. DeviceTypes /\ Ticks(c) /\ Lands("none", {}) /\ CtrNext = ctr /\ TxrNext = txr /\ txr' = txr
  BY MoveClock DEF Control
<1>2. AddressMove(d) BY AddressGoes
<1>3. AddressFrame(d)' BY <1>1, <1>2, FrameMoves DEF NackAddress
<1>4. NackAddress(d)' \/ (c_state = "RXACK" /\ c = 1 /\ Answered(d, Addresses(d))')
  BY <1>1, NackStep
<1>5. CASE c_state = "RXACK" /\ c = 1 /\ Answered(d, Addresses(d))'
  <2>1. ~StartsTransfer /\ ~HandlerDue BY <1>5 DEF DeviceStep, ByteOutlasts
  <2>2. Nobody BY <2>1 DEF AddressFrame, StartsTransfer, HandlerDue, Nobody, Starting
  <2>3. "IEN" \in ctr BY <1>1 DEF AddressFrame, BUSY, Control, Enabled
  <2>4. inta # 1 BY <2>1, <2>2, <2>3 DEF HandlerDue, Requests, Nobody
  <2>5. IT[d].state = "ADDRESS" BY <2>2 DEF AddressFrame
  <2>6. pc'["main"] = "ready" /\ pc'["isr"] = "none" /\ bus' = None /\ IT'[d].state = "ADDRESS"
    BY <1>2, <2>2, <2>4, <2>5 DEF AddressMove, Handler, Starts, Turn, Hops, Turns, Nobody, Thread
  <2> QED BY <1>3, <1>5, <2>6 DEF Addressing, JustAnswered, Nobody
<1> QED BY <1>3, <1>4, <1>5 DEF Addressing

\* The same for the first address of a transfer.
LEMMA UnaskedMoves ==
  ASSUME Control, NEW d \in Direction, AddressFrame(d), Unasked(d), CpuMoves, NEW c \in Bit, DeviceStep(c)
  PROVE  Addressing(d)'
<1>1. bus = None /\ DeviceTypes /\ Ticks(c) /\ Lands("none", {}) /\ TxrNext = txr /\ txr' = txr
  BY MoveClock DEF Control
<1>2. AddressMove(d) BY AddressGoes
<1>3. AddressFrame(d)' BY <1>1, <1>2, FrameMoves DEF Unasked
<1>4. Calm' /\ ack_out' = 0 BY <1>1, CalmKeeps DEF Unasked, Kept
<1>5. Silent' BY <1>1, CalmFlag DEF Unasked, Silent
<1>6. PICK t \in Thread : Only(t) /\ pc[t] # "seqStarted" BY <1>1 DEF Unasked
<1>7. inta = 0 /\ IT[d].state = "READY" BY DEF Unasked, Silent
<1>8. Turn(t) /\ \A u \in Thread : Turn(u) => u = t BY <1>6 DEF Only, Turn, Thread, Starting
<1>9. Starts(t, d)
  <2>1. ~Handler(d) BY <1>6, <1>7 DEF Handler, Hops, Only, Thread, Starting
  <2> QED BY <1>2, <1>8, <2>1 DEF AddressMove
<1>10. /\ IT'[d].state = "READY" /\ Only(t)' /\ (pc'[t] = "seqStarted" => bus' # None)
  <2>1. \E to \in Starting : Hops(t, pc[t], to) /\ (to = "seqStarted" => bus' # None) /\ IT'[d].state = "READY"
    BY <1>6, <1>7, <1>9 DEF Starts, Hops, Turns, Starting, Write, None
  <2> QED BY <1>6, <2>1 DEF Hops, Only, Thread
<1>11. Unasked(d)' BY <1>4, <1>5, <1>6, <1>10 DEF Unasked
<1> QED BY <1>3, <1>11 DEF Addressing

\* The address is on its way.
LEMMA AskedMoves ==
  ASSUME Control, NEW d \in Direction, AddressFrame(d), Asked(d), CpuMoves, NEW c \in Bit, DeviceStep(c)
  PROVE  Addressing(d)'
<1>1. DeviceTypes /\ Ticks(c) /\ Lands("none", {}) /\ TxrNext = txr /\ txr' = txr
  BY MoveClock DEF Control
<1>2. AddressMove(d) BY AddressGoes
<1>3. inta = 0 /\ irq_flag = 0 /\ cmd_ack = 0 /\ ack_out = 0 BY DEF Asked, Silent, AddressBusy
<1>4. Silent' /\ rxack' = 0 BY <1>1, <1>3, FlagStep DEF Silent, Bit
<1>5. \/ Nobody /\ IT[d].state = "ADDRESS"
      \/ \E t \in Thread : Only(t) /\ pc[t] = "seqStarted"
  BY DEF Asked
<1>6. ~(\E t \in Thread : Turn(t) /\ pc[t] = "sequence")
  BY <1>5 DEF Nobody, Only, Turn, Thread
<1>7. AddressFrame(d)' BY <1>1, <1>2, <1>6, FrameMoves
<1>8. Nobody' /\ IT'[d].state = "ADDRESS" /\ bus' = None
  <2>1. CASE Nobody /\ IT[d].state = "ADDRESS"
    BY <1>2, <1>3, <2>1 DEF AddressMove, Handler, Starts, Turn, Hops, Turns, Nobody, Thread
  <2>2. CASE \E t \in Thread : Only(t) /\ pc[t] = "seqStarted"
    <3>1. PICK t \in Thread : Only(t) /\ pc[t] = "seqStarted" BY <2>2
    <3>2. \A u \in Thread : Turn(u) => u = t BY <3>1 DEF Only, Turn, Thread, Starting
    <3>3. ~Handler(d) BY <1>3, <3>1 DEF Handler, Hops, Only, Thread, Starting
    <3>4. Starts(t, d) BY <1>2, <3>2, <3>3 DEF AddressMove
    <3>5. Hops(t, "seqStarted", Back(t)) /\ bus' = None /\ Turns(d, "ADDRESS")
      BY <3>1, <3>4 DEF Starts, Hops
    <3> QED BY <3>1, <3>5 DEF Hops, Back, Turns, Only, Nobody, Thread
  <2> QED BY <1>5, <2>1, <2>2
<1>9. (AddressBusy(d, Addresses(d))' /\ ack_out' = ack_out) \/ Answered(d, Addresses(d))'
  BY <1>1, AddressBusyStep DEF Asked
<1>10. Asked(d)' \/ JustAnswered(d)' BY <1>3, <1>4, <1>8, <1>9 DEF Asked, JustAnswered
<1> QED BY <1>7, <1>10 DEF Addressing

\* A calm device that saw no acknowledge.
LEMMA NackCalm ==
  ASSUME NEW d \in Direction, Calm', ack_out' = 1
  PROVE  NackAddress(d)'
BY DEF Calm, NackAddress, Cmds, Command

\* The address has just been answered.
LEMMA JustMoves ==
  ASSUME Control, NEW d \in Direction, AddressFrame(d), JustAnswered(d), CpuMoves, NEW c \in Bit, DeviceStep(c)
  PROVE  Addressing(d)'
<1>1. DeviceTypes /\ DeviceTypes' /\ Ticks(c) /\ Lands("none", {}) /\ TxrNext = txr /\ txr' = txr
  BY MoveClock DEF Control
<1>2. AddressMove(d) BY AddressGoes
<1>3. AddressFrame(d)' BY <1>1, <1>2, FrameMoves DEF JustAnswered, Nobody, Thread
<1>4. Calm' /\ (ack_out' = 0 => Selected(d, Addresses(d))') BY <1>1, AnsweredStep DEF JustAnswered
<1>5. pc'["main"] = "ready" /\ pc'["isr"] \in {"none", "irqAck"} /\ bus' = None /\ IT'[d].state = "ADDRESS"
  BY <1>2 DEF JustAnswered, Nobody, AddressMove, Handler, Starts, Turn, Hops, Turns, Thread
<1>6. AckTaken' BY <1>5 DEF AckTaken
<1>7. ack_out' = 0 => Looks(d)' BY <1>4, <1>5, <1>6 DEF Looks
<1>8. ack_out' = 1 => NackAddress(d)' BY <1>4, NackCalm
<1>9. ack_out' \in Bit BY <1>1 DEF DeviceTypes
<1> QED BY <1>3, <1>7, <1>8, <1>9 DEF Addressing, Bit

\* The handler looks at the answer; it goes on with the data.
LEMMA LooksMoves ==
  ASSUME Control, NEW d \in Direction, AddressFrame(d), Looks(d), CpuMoves, NEW c \in Bit, DeviceStep(c)
  PROVE  Situation'
<1>1. bus = None /\ DeviceTypes /\ DeviceTypes' /\ Ticks(c) /\ Lands("none", {}) /\ TxrNext = txr /\ txr' = txr
  BY MoveClock DEF Control
<1>2. AddressMove(d) BY AddressGoes
<1>3. Calm /\ ack_out = 0 /\ rxack = 0 /\ IT[d].state = "ADDRESS" /\ pc["main"] = "ready"
  BY DEF Looks, Calm
<1>4. Calm' /\ Kept /\ ack_out' = 0 BY <1>1, <1>3, CalmKeeps DEF Kept
<1>5. Selected(d, Addresses(d))' BY <1>4 DEF Looks, Selected, Kept
<1>6. irq_flag = 0 \/ "IACK" \in cr => irq_flag' = 0 BY <1>1, <1>3, CalmFlag
<1>7. CASE pc["isr"] # "sequence"
  <2>1. /\ IT'[d].state = "ADDRESS" /\ pc'["main"] = "ready"
        /\ \/ pc'["isr"] = pc["isr"] /\ pc["isr"] = "none" /\ bus' = None
           \/ pc'["isr"] = "irqAck" /\ bus' = None
           \/ pc'["isr"] = "irqDispatch" /\ bus' = Write("CR", {"IACK"})
           \/ pc["isr"] = "irqDispatch" /\ pc'["isr"] = "sequence" /\ bus' = None
    BY <1>2, <1>3, <1>7 DEF Looks, AddressMove, Handler, Starts, Turn, Hops, Turns, Thread
  <2>2. AddressFrame(d)' BY <1>1, <1>2, <1>3, <1>7, FrameMoves DEF Looks, Turn, Thread
  <2>3. AckTaken' BY <1>1, <1>6, <2>1 DEF Looks, AckTaken, NoWrite, None, Write
  <2>4. Looks(d)' BY <1>4, <1>5, <2>1, <2>3 DEF Looks
  <2> QED BY <2>2, <2>4 DEF Addressing, Situation
<1>8. CASE pc["isr"] = "sequence"
  <2>1. /\ bus' = Other /\ State' = State /\ arg' = arg /\ Turns(d, "DATA")
        /\ pc'["isr"] = "sequence" /\ pc'["main"] = "ready"
    BY <1>2, <1>3, <1>8 DEF AddressMove, Handler, Starts, Turn, Hops, Thread
  <2>2. dir("isr")' = d BY <1>8, <2>1 DEF AddressFrame, Thread, Starting, dir
  <2>3. Filled(d) BY <1>3, <1>8 DEF AddressFrame, Thread
  <2>4. /\ IT'[d].next = 1 /\ IT'[d].left = IT[d].size /\ IT'[d].size = IT[d].size
        /\ IT[d].size \in Nat \ {0} /\ IT'[d].state = "DATA" /\ IT'[d].dev \in Devices /\ buf' = buf
    BY <2>1, <2>3, DriverAssumption DEF Turns, Filled
  <2>5. irq_flag' = 0 BY <1>6, <1>8 DEF Looks, AckTaken
  <2>6. State' = BUSY(d) /\ NoWrite' BY <2>1 DEF AddressFrame, NoWrite
  <2>7. CASE d = "tx"
    <3>1. /\ h'.next = 1 /\ h'.left = h.size /\ h'.size = h.size /\ h'.state = "DATA" /\ h'.dev \in Devices
          /\ h.size \in Nat \ {0}
      BY <2>4, <2>7 DEF h
    <3>2. Ended({"WR"}, 0)' BY <1>4, <1>5, <2>7, UptoNone DEF Selected, Ended
    <3>3. sel' \in Devices BY <1>5 DEF Selected
    <3>4. h'.left = h'.size - h'.next + 1 /\ h'.next - 1 = 0 /\ h'.left >= 1 BY <3>1
    <3>5. Ended({"WR"}, h.next - 1)' BY <3>2, <3>4
    <3>6. ItSends' BY <1>4, <2>1, <2>2, <2>5, <2>6, <2>7, <3>1, <3>3, <3>4, <3>5 DEF ItSends
    <3> QED BY <3>6 DEF Situation
  <2>8. CASE d = "rx"
    <3>1. /\ r'.left = r.size /\ r'.size = r.size /\ r'.state = "DATA" /\ r.size \in Nat \ {0}
      BY <2>4, <2>8 DEF r
    <3>2. Taken' = 0 BY <3>1 DEF Taken
    <3>3. buf' = Upto(0) BY <2>3, <2>4, <2>8, UptoNone DEF Filled
    <3>4. slave' = "sends" /\ nxt' = 1 BY <1>5, <2>8 DEF Selected
    <3>5. ItReads' BY <1>4, <2>1, <2>2, <2>5, <2>6, <2>8, <3>1, <3>2, <3>3, <3>4 DEF ItReads
    <3> QED BY <3>5 DEF Situation
  <2> QED BY <2>7, <2>8 DEF Direction
<1> QED BY <1>7, <1>8

\* All of them.
LEMMA AddressingMoves ==
  ASSUME Control, Requests, NEW d \in Direction, Addressing(d), CpuMoves, NEW c \in Bit, DeviceStep(c)
  PROVE  Situation'
<1>1. AddressFrame(d) BY DEF Addressing
<1>2. CASE Looks(d) BY <1>1, <1>2, LooksMoves
<1>3. CASE NackAddress(d) \/ Unasked(d) \/ Asked(d) \/ JustAnswered(d)
  <2>1. Addressing(d)' BY <1>1, <1>3, NackMoves, UnaskedMoves, AskedMoves, JustMoves
  <2> QED BY <2>1 DEF Situation
<1> QED BY <1>2, <1>3 DEF Addressing

\* While the core waits, nobody moves; the write under way lands.
LEMMA FrameWaits ==
  ASSUME Control, NEW d \in Direction, AddressFrame(d), CpuWaits, NEW c \in Bit, DeviceStep(c)
  PROVE  /\ AddressFrame(d)' /\ bus' = None /\ (Nobody => Nobody') /\ IT' = IT /\ pc' = pc /\ buf' = buf
         /\ State' = State /\ DeviceTypes /\ DeviceTypes' /\ Ticks(c) /\ Lands(WriteAdr, WriteDat)
         /\ \/ bus \in {None, Other} /\ WriteAdr = "none"
            \/ WriteAdr = "CTR"
            \/ WriteAdr = "TXR" /\ WriteDat \in Addresses(d)
            \/ /\ WriteAdr = "CR" /\ WriteDat = {"STA", "WR"} /\ "EN" \in ctr /\ txr \in Addresses(d)
               /\ Running = "seqStarted"
            \/ WriteAdr = "CR" /\ WriteDat = {"IACK"} /\ "EN" \in ctr /\ Running = "irqDispatch"
<1>1. /\ DeviceTypes /\ DeviceTypes' /\ Ticks(c) /\ Lands(WriteAdr, WriteDat)
      /\ bus' = None /\ pc' = pc /\ State' = State /\ arg' = arg /\ IT' = IT /\ buf' = buf /\ TxrNext' = TxrNext
      /\ NoWrite => WriteAdr = "none"
      /\ bus[1] \in {"CTR", "TXR", "CR"} => WriteAdr = bus[1] /\ WriteDat = bus[2]
  BY WaitClock DEF Control
<1>2. Filled(d) => Filled(d)' BY <1>1 DEF Filled
<1>3. Writes(d)' BY <1>1 DEF Writes, NoWrite, None, Other
<1>4. AddressFrame(d)'
  <2>1. Nobody' <=> Nobody BY <1>1 DEF Nobody
  <2> QED BY <1>1, <1>2, <1>3, <2>1 DEF AddressFrame
<1>5. "EN" \in CtrNext BY DEF AddressFrame, Control, Enabled, InitLabel, Starting
<1>6. Running \in {"seqStart", "seqStarted"} => TxrNext \in Addresses(d)
  BY DEF AddressFrame, Running, Thread
<1>7. CASE NoWrite BY <1>1, <1>4, <1>7 DEF NoWrite, Nobody
<1>8. CASE bus[1] = "CTR" BY <1>1, <1>4, <1>8 DEF Nobody
<1>9. CASE Running = "seqStart" /\ bus[1] = "TXR"
  BY <1>1, <1>4, <1>6, <1>9 DEF Nobody, TxrNext
<1>10. CASE Running = "seqStarted" /\ bus = Write("CR", {"STA", "WR"})
  <2>1. bus[1] = "CR" /\ bus[2] = {"STA", "WR"} BY <1>10 DEF Write
  <2> QED BY <1>1, <1>4, <1>5, <1>6, <1>10, <2>1 DEF Nobody, TxrNext, CtrNext
<1>11. CASE Running = "irqDispatch" /\ bus = Write("CR", {"IACK"})
  <2>1. bus[1] = "CR" /\ bus[2] = {"IACK"} BY <1>11 DEF Write
  <2> QED BY <1>1, <1>4, <1>5, <1>11, <2>1 DEF Nobody, CtrNext
<1> QED BY <1>7, <1>8, <1>9, <1>10, <1>11 DEF AddressFrame, Writes

\* An address that was not acknowledged yet, or is not given to the device yet.
LEMMA NackWaits ==
  ASSUME Control, NEW d \in Direction, AddressFrame(d), NackAddress(d), CpuWaits, NEW c \in Bit, DeviceStep(c)
  PROVE  Addressing(d)'
<1>1. /\ AddressFrame(d)' /\ bus' = None /\ (Nobody => Nobody') /\ IT' = IT
      /\ DeviceTypes /\ Ticks(c) /\ Lands(WriteAdr, WriteDat)
      /\ WriteAdr = "TXR" => WriteDat \in Addresses(d)
      /\ WriteAdr = "CR" => "EN" \in ctr /\ (WriteDat = {"IACK"} \/ (WriteDat = {"STA", "WR"} /\ txr \in Addresses(d)))
  BY FrameWaits
<1>2. NackAddress(d)' \/ (c_state = "RXACK" /\ c = 1 /\ Answered(d, Addresses(d))')
  BY <1>1, NackStep
<1>3. CASE c_state = "RXACK" /\ c = 1 /\ Answered(d, Addresses(d))'
  <2>1. ~StartsTransfer /\ ~HandlerDue BY <1>3 DEF DeviceStep, ByteOutlasts
  <2>2. Nobody BY <2>1 DEF AddressFrame, StartsTransfer, HandlerDue, Nobody, Starting
  <2>3. IT[d].state = "ADDRESS" BY <2>2 DEF AddressFrame
  <2> QED BY <1>1, <1>3, <2>2, <2>3 DEF Addressing, JustAnswered
<1> QED BY <1>1, <1>2, <1>3 DEF Addressing

\* The same for the first address of a transfer; its command lands in the end.
LEMMA UnaskedWaits ==
  ASSUME Control, NEW d \in Direction, AddressFrame(d), Unasked(d), CpuWaits, NEW c \in Bit, DeviceStep(c)
  PROVE  Addressing(d)'
<1>1. /\ AddressFrame(d)' /\ bus' = None /\ IT' = IT /\ pc' = pc
      /\ DeviceTypes /\ Ticks(c) /\ Lands(WriteAdr, WriteDat)
      /\ \/ bus \in {None, Other} /\ WriteAdr = "none"
         \/ WriteAdr \in {"CTR", "TXR"}
         \/ /\ WriteAdr = "CR" /\ WriteDat = {"STA", "WR"} /\ "EN" \in ctr /\ txr \in Addresses(d)
            /\ Running = "seqStarted"
         \/ Running = "irqDispatch"
  BY FrameWaits
<1>2. Calm /\ ack_out = 0 /\ Silent /\ IT[d].state = "READY" BY DEF Unasked
<1>3. Silent' BY <1>1, <1>2, CalmFlag DEF Silent
<1>4. PICK t \in Thread : Only(t) /\ (pc[t] = "seqStarted" => bus # None) BY DEF Unasked
<1>5. Only(t)' /\ pc'[t] = pc[t] BY <1>1, <1>4 DEF Only
<1>6. Running = pc[t] BY <1>4 DEF Running, Only, Thread, Starting
<1>7. CASE pc[t] # "seqStarted"
  <2>1. WriteAdr # "CR" BY <1>1, <1>4, <1>6, <1>7 DEF Only, Starting
  <2>2. Calm' /\ ack_out' = 0 BY <1>1, <1>2, <2>1, CalmKeeps DEF Kept
  <2>3. Unasked(d)' BY <1>1, <1>2, <1>3, <1>4, <1>5, <1>7, <2>2 DEF Unasked
  <2> QED BY <1>1, <2>3 DEF Addressing
<1>8. CASE pc[t] = "seqStarted"
  <2>1. bus = Write("CR", {"STA", "WR"})
    BY <1>4, <1>6, <1>8 DEF AddressFrame, Writes, NoWrite
  <2>2. WriteAdr = "CR" BY <2>1 DEF Write, WriteAdr
  <2>3. WriteDat = {"STA", "WR"} /\ "EN" \in ctr /\ txr \in Addresses(d)
    BY <1>1, <1>6, <1>8, <2>2
  <2>4. AddressBusy(d, Addresses(d))' /\ Kept /\ rxack' = ack_out
    BY <1>1, <1>2, <2>2, <2>3, AddressTakes DEF Between
  <2>5. Asked(d)' BY <1>1, <1>2, <1>3, <1>5, <1>8, <2>4 DEF Asked, Kept
  <2> QED BY <1>1, <2>5 DEF Addressing
<1> QED BY <1>7, <1>8

\* The address is on its way.
LEMMA AskedWaits ==
  ASSUME Control, NEW d \in Direction, AddressFrame(d), Asked(d), CpuWaits, NEW c \in Bit, DeviceStep(c)
  PROVE  Addressing(d)'
<1>1. /\ AddressFrame(d)' /\ bus' = None /\ (Nobody => Nobody') /\ IT' = IT /\ pc' = pc
      /\ DeviceTypes /\ Ticks(c) /\ Lands(WriteAdr, WriteDat)
  BY FrameWaits
<1>2. WriteAdr = "none" BY DEF Asked, WriteAdr, None
<1>3. irq_flag = 0 /\ cmd_ack = 0 /\ ack_out = 0 BY DEF Asked, Silent, AddressBusy
<1>4. Silent' /\ rxack' = 0 BY <1>1, <1>3, FlagStep DEF Silent, Bit
<1>5. \/ Nobody' /\ IT'[d].state = "ADDRESS"
      \/ (\E t \in Thread : Only(t) /\ pc[t] = "seqStarted")' /\ IT'[d].state = "READY"
  BY <1>1 DEF Asked, Only
<1>6. CASE AddressBusy(d, Addresses(d))' /\ ack_out' = ack_out
  <2>1. Asked(d)' BY <1>1, <1>3, <1>4, <1>5, <1>6 DEF Asked
  <2> QED BY <1>1, <2>1 DEF Addressing
<1>7. CASE c_state = "RXACK" /\ c = 1 /\ Answered(d, Addresses(d))'
  <2>1. ~StartsTransfer /\ ~HandlerDue BY <1>7 DEF DeviceStep, ByteOutlasts
  <2>2. Nobody BY <2>1 DEF AddressFrame, StartsTransfer, HandlerDue, Nobody, Starting
  <2>3. IT[d].state = "ADDRESS" BY <2>2 DEF AddressFrame
  <2> QED BY <1>1, <1>7, <2>2, <2>3 DEF Addressing, JustAnswered
<1> QED BY <1>1, <1>2, <1>6, <1>7, AddressBusyStep DEF Asked

\* The address has just been answered.
LEMMA JustWaits ==
  ASSUME Control, NEW d \in Direction, AddressFrame(d), JustAnswered(d), CpuWaits, NEW c \in Bit, DeviceStep(c)
  PROVE  Addressing(d)'
<1>1. /\ AddressFrame(d)' /\ bus' = None /\ IT' = IT /\ pc' = pc
      /\ DeviceTypes /\ DeviceTypes' /\ Ticks(c) /\ Lands(WriteAdr, WriteDat)
  BY FrameWaits
<1>2. WriteAdr = "none" BY DEF JustAnswered, WriteAdr, None
<1>3. Calm' /\ (ack_out' = 0 => Selected(d, Addresses(d))') BY <1>1, <1>2, AnsweredStep DEF JustAnswered
<1>4. pc'["main"] = "ready" /\ pc'["isr"] = "none" /\ IT'[d].state = "ADDRESS"
  BY <1>1 DEF JustAnswered, Nobody
<1>5. ack_out' = 0 => Looks(d)' BY <1>3, <1>4 DEF Looks, AckTaken
<1>6. ack_out' = 1 => NackAddress(d)' BY <1>3, NackCalm
<1>7. ack_out' \in Bit BY <1>1 DEF DeviceTypes
<1> QED BY <1>1, <1>5, <1>6, <1>7 DEF Addressing, Bit

\* The handler's acknowledge lands in a calm device.
LEMMA AckWaits ==
  ASSUME NEW c \in Bit, DeviceTypes, Ticks(c), Lands(WriteAdr, WriteDat), Calm, AckTaken,
         pc["isr"] \in {"irqAck", "irqDispatch", "sequence"}, pc' = pc, bus' = None, "EN" \in CtrNext
  PROVE  Calm' /\ Kept /\ AckTaken'
<1>1. irq_flag = 0 \/ "IACK" \in cr => irq_flag' = 0 BY CalmFlag
<1>2. CASE WriteAdr = "CR"
  <2>1. pc["isr"] = "irqDispatch" /\ bus = Write("CR", {"IACK"})
    BY <1>2 DEF AckTaken, WriteAdr, NoWrite, None, Other
  <2>2. WriteDat = {"IACK"} /\ "EN" \in ctr BY <2>1 DEF WriteDat, Write, CtrNext
  <2>3. cr' = {"IACK"} BY <1>2, <2>2, CommandStep
  <2>4. Calm' /\ Kept BY <2>3, CalmRests DEF Calm, Kept, Cmds, Command
  <2> QED BY <2>1, <2>3, <2>4 DEF AckTaken
<1>3. CASE WriteAdr # "CR"
  <2>1. Calm' /\ Kept BY <1>3, CalmKeeps
  <2>2. pc["isr"] = "irqDispatch" => irq_flag' = 0
    BY <1>1, <1>3 DEF AckTaken, WriteAdr, Write
  <2>3. pc["isr"] = "sequence" => irq_flag' = 0 BY <1>1 DEF AckTaken
  <2>4. AckTaken' BY <2>2, <2>3 DEF AckTaken, NoWrite
  <2> QED BY <2>1, <2>4
<1> QED BY <1>2, <1>3

\* The handler looks at the answer.
LEMMA LooksWaits ==
  ASSUME Control, NEW d \in Direction, AddressFrame(d), Looks(d), CpuWaits, NEW c \in Bit, DeviceStep(c)
  PROVE  Addressing(d)'
<1>1. /\ AddressFrame(d)' /\ bus' = None /\ IT' = IT /\ pc' = pc
      /\ DeviceTypes /\ Ticks(c) /\ Lands(WriteAdr, WriteDat)
      /\ WriteAdr = "CR" => Running \in {"seqStarted", "irqDispatch"}
  BY FrameWaits
<1>2. Calm /\ ack_out = 0 /\ Selected(d, Addresses(d)) /\ AckTaken /\ pc["main"] = "ready" BY DEF Looks
<1>3. Calm' /\ Kept /\ AckTaken'
  <2>1. CASE pc["isr"] = "none"
    <3>1. WriteAdr # "CR" BY <1>1, <1>2, <2>1 DEF Running
    <3>2. Calm' /\ Kept BY <1>1, <1>2, <3>1, CalmKeeps
    <3> QED BY <1>1, <2>1, <3>2 DEF AckTaken
  <2>2. CASE pc["isr"] \in {"irqAck", "irqDispatch", "sequence"}
    <3>1. "EN" \in CtrNext BY <1>2 DEF Control, Enabled, InitLabel
    <3> QED BY <1>1, <1>2, <2>2, <3>1, AckWaits
  <2> QED BY <2>1, <2>2 DEF Looks
<1>4. Selected(d, Addresses(d))' BY <1>2, <1>3 DEF Selected, Kept
<1>5. Looks(d)' BY <1>1, <1>2, <1>3, <1>4 DEF Looks, Kept
<1> QED BY <1>1, <1>5 DEF Addressing

\* All of them.
LEMMA AddressingWaits ==
  ASSUME Control, NEW d \in Direction, Addressing(d), CpuWaits, NEW c \in Bit, DeviceStep(c)
  PROVE  Situation'
<1>1. AddressFrame(d) BY DEF Addressing
<1>2. Addressing(d)'
  BY <1>1, NackWaits, UnaskedWaits, AskedWaits, JustWaits, LooksWaits DEF Addressing
<1> QED BY <1>2 DEF Situation

------------------------------------------------------------------------------
(***************************************************************************)
(* The data of an interrupt-driven transmission.                           *)
(***************************************************************************)

\* A step of the core while the handler is not there yet.
LEMMA HandlerGoes ==
  ASSUME Control, NEW d \in Direction, State = BUSY(d), pc["main"] = "ready",
         pc["isr"] \in {"none", "irqAck", "irqDispatch"}, CpuMoves
  PROVE  /\ State' = State /\ IT' = IT /\ buf' = buf /\ pc'["main"] = "ready"
         /\ \/ pc["isr"] = "none" /\ pc'["isr"] = "none" /\ bus' = None
            \/ pc["isr"] = "none" /\ inta = 1 /\ pc'["isr"] = "irqAck" /\ bus' = None
            \/ pc["isr"] = "irqAck" /\ pc'["isr"] = "irqDispatch" /\ bus' = Write("CR", {"IACK"})
            \/ pc["isr"] = "irqDispatch" /\ pc'["isr"] = "sequence" /\ bus' = None /\ dir("isr")' = d
<1>1. Types /\ "isr" \in Thread /\ "main" \in Thread /\ State # "READY" BY DEF Control, Thread, BUSY
<1>2. CASE Interrupted /\ To("isr", "irqAck", None) /\ UNCHANGED <<arg, n, State, IT, buf, calls>>
  BY <1>1, <1>2, Goes DEF Interrupted
<1>3. CASE IRQ_Ack
  BY <1>1, <1>3, Stepped DEF IRQ_Ack, Step, At
<1>4. CASE IRQ_Dispatch
  <2>1. \A e \in Direction : State = BUSY(e) => e = d BY DEF BUSY, Direction
  <2>2. arg' = [arg EXCEPT !["isr"].dir = d] /\ To("isr", "sequence", None) BY <1>1, <1>4, <2>1 DEF IRQ_Dispatch
  <2>3. arg \in [Thread -> Call] BY <1>1 DEF Types
  <2>4. dir("isr")' = d BY <1>1, <2>2, <2>3 DEF dir, Call
  <2> QED BY <1>1, <1>4, <2>2, <2>4, Goes DEF IRQ_Dispatch, At
<1>5. CASE pc["isr"] = "none" /\ MainCalls
  <2>1. PICK k \in Call : StartCall("main", k) BY <1>5 DEF MainCalls
  <2>2. To("main", "ready", None) /\ State' = State /\ IT' = IT /\ buf' = buf BY <1>1, <2>1 DEF StartCall
  <2> QED BY <1>1, <1>5, <2>2, Goes
<1> QED BY <1>1, <1>2, <1>3, <1>4, <1>5, WhoMoves DEF SequenceLabel, Starting, InitLabel, BlockingLabel

\* Its acknowledge takes the flag away.
LEMMA HandlerAcks ==
  ASSUME DeviceTypes, Calm, bus = None, AckTaken, Lands("none", {}),
         \/ pc["isr"] = "irqAck" /\ pc'["isr"] = "irqDispatch" /\ bus' = Write("CR", {"IACK"})
         \/ pc["isr"] = "irqDispatch" /\ pc'["isr"] = "sequence" /\ bus' = None
  PROVE  AckTaken'
<1>1. irq_flag = 0 \/ "IACK" \in cr => irq_flag' = 0 BY CalmFlag
<1>2. pc["isr"] = "irqDispatch" => irq_flag' = 0 BY <1>1 DEF AckTaken, Write, None
<1> QED BY <1>2 DEF AckTaken, NoWrite

\* The handler is called, and looks which transfer it is.
LEMMA SendHandlerMoves ==
  ASSUME Control, ItSends, pc["isr"] \in {"none", "irqAck", "irqDispatch"}, CpuMoves, NEW c \in Bit, DeviceStep(c)
  PROVE  ItSends'
<1>1. bus = None /\ DeviceTypes /\ Ticks(c) /\ Lands("none", {}) BY MoveClock DEF Control
<1>2. State = BUSY("tx") /\ pc["main"] = "ready" /\ "tx" \in Direction BY DEF ItSends, Direction
<1>3. /\ State' = State /\ IT' = IT /\ buf' = buf /\ pc'["main"] = "ready"
      /\ \/ pc["isr"] = "none" /\ pc'["isr"] = "none" /\ bus' = None
         \/ pc["isr"] = "none" /\ inta = 1 /\ pc'["isr"] = "irqAck" /\ bus' = None
         \/ pc["isr"] = "irqAck" /\ pc'["isr"] = "irqDispatch" /\ bus' = Write("CR", {"IACK"})
         \/ pc["isr"] = "irqDispatch" /\ pc'["isr"] = "sequence" /\ bus' = None /\ dir("isr")' = "tx"
  BY <1>1, <1>2, HandlerGoes
<1>4. h' = h BY <1>3 DEF h
<1>5. h.next \in Nat /\ h.left \in Nat /\ h.size \in Nat BY Handles DEF Control
<1>6. h.next >= 2 BY DEF ItSends
<1>7. PICK k \in Nat \ {0} : k = h.next - 1 BY <1>5, <1>6
<1>8. PICK W \in {{"WR"}, {"WR", "STO"}} : W = LastFlags(h.state) BY DEF LastFlags
<1>9. /\ h.left = h.size - h.next + 1 /\ h.dev \in Devices /\ h.state \in {"DATA", "END"}
      /\ IF h.state = "END" THEN h.left = 0 ELSE h.left >= 1
  BY DEF ItSends
<1>10. W = LastFlags(h.state)' /\ k = (h.next - 1)' BY <1>4, <1>7, <1>8
<1>11. CASE pc["isr"] = "none"
  <2>1. SendFly(W, k) /\ Unflagged /\ sel \in Devices BY <1>7, <1>8, <1>11 DEF ItSends
  <2>2. SendFly(W, k)' /\ sel' = sel BY <1>1, <2>1, SendFlyStep
  <2>3. Unflagged' BY <1>1, <2>1, UnflaggedStep
  <2>4. CASE pc'["isr"] = "none" /\ bus' = None
    BY <1>2, <1>3, <1>4, <1>5, <1>6, <1>9, <1>10, <2>1, <2>2, <2>3, <2>4 DEF ItSends
  <2>5. CASE inta = 1 /\ pc'["isr"] = "irqAck" /\ bus' = None
    <3>1. Cmds = {} BY <2>1, <2>5 DEF Unflagged
    <3>2. Calm /\ Ended(W, k) BY <2>1, <3>1 DEF SendFly, SendBusy
    <3>3. Calm' /\ Kept BY <1>1, <3>2, CalmKeeps
    <3>4. Ended(W, k)' BY <3>2, <3>3 DEF Ended, Kept
    <3>5. AckTaken' BY <2>5 DEF AckTaken
    <3> QED BY <1>2, <1>3, <1>4, <1>5, <1>6, <1>9, <1>10, <2>1, <2>2, <2>5, <3>3, <3>4, <3>5 DEF ItSends
  <2> QED BY <1>3, <1>11, <2>4, <2>5
<1>12. CASE pc["isr"] \in {"irqAck", "irqDispatch"}
  <2>1. Calm /\ Ended(W, k) /\ AckTaken /\ sel \in Devices BY <1>7, <1>8, <1>12 DEF ItSends
  <2>2. Calm' /\ Kept BY <1>1, <2>1, CalmKeeps
  <2>3. Ended(W, k)' /\ sel' \in Devices BY <2>1, <2>2 DEF Ended, Kept
  <2>4. AckTaken' BY <1>1, <1>3, <1>12, <2>1, HandlerAcks
  <2>5. CASE pc'["isr"] = "irqDispatch"
    BY <1>2, <1>3, <1>4, <1>5, <1>6, <1>9, <1>10, <2>2, <2>3, <2>4, <2>5 DEF ItSends
  <2>6. CASE pc'["isr"] = "sequence" /\ dir("isr")' = "tx"
    <3>1. NoWrite' /\ irq_flag' = 0 BY <2>4, <2>6 DEF AckTaken
    <3>2. CASE h.state = "END"
      <4>1. W = {"WR", "STO"} /\ h.left = 0 BY <1>8, <1>9, <3>2 DEF LastFlags
      <4>2. k = h.size BY <1>5, <1>7, <1>9, <4>1
      <4>3. refused' \/ (got' = Upto(h.size) /\ slave' = "idle") BY <2>3, <4>1, <4>2 DEF Ended
      <4> QED BY <1>2, <1>3, <1>4, <1>5, <1>6, <1>9, <2>2, <2>3, <2>6, <3>1, <3>2, <4>3 DEF ItSends
    <3>3. CASE h.state = "DATA"
      <4>1. W = {"WR"} /\ h.left >= 1 BY <1>8, <1>9, <3>3 DEF LastFlags
      <4>2. Ended({"WR"}, h.next - 1)' BY <1>10, <2>3, <4>1
      <4> QED BY <1>2, <1>3, <1>4, <1>5, <1>6, <1>9, <2>2, <2>3, <2>6, <3>1, <3>3, <4>1, <4>2 DEF ItSends
    <3> QED BY <1>9, <3>2, <3>3
  <2> QED BY <1>3, <1>12, <2>5, <2>6
<1> QED BY <1>11, <1>12

\* The handler decides what to send, or that the transfer is over.
LEMMA SendSequenceMoves ==
  ASSUME Control, ItSends, pc["isr"] = "sequence", CpuMoves, NEW c \in Bit, DeviceStep(c)
  PROVE  Situation'
<1>1. bus = None /\ DeviceTypes /\ Ticks(c) /\ Lands("none", {}) BY MoveClock DEF Control
<1>2. /\ State = BUSY("tx") /\ pc["main"] = "ready" /\ dir("isr") = "tx" /\ Calm /\ irq_flag = 0
      /\ h.left = h.size - h.next + 1 /\ h.dev \in Devices /\ sel \in Devices /\ h.state \in {"DATA", "END"}
      /\ h.next >= 1
      /\ IF h.state = "END" THEN refused \/ (got = Upto(h.size) /\ slave = "idle")
         ELSE h.left >= 1 /\ Ended({"WR"}, h.next - 1)
  BY DEF ItSends
<1>3. Types /\ "isr" \in Thread /\ h.next \in Nat /\ h.left \in Nat /\ h.size \in Nat BY Handles DEF Control, Thread
<1>4. SequenceStep("isr") BY <1>3, WhoMoves DEF Interrupted
<1>5. Calm' /\ Kept /\ irq_flag' = 0 /\ inta' = 0 BY <1>1, <1>2, CalmKeeps, CalmFlag
<1>6. sel' \in Devices /\ (refused => refused') BY <1>2, <1>5 DEF Kept
<1>7. CASE h.state = "DATA"
  <2>1. Ended({"WR"}, h.next - 1) /\ h.left >= 1 BY <1>2, <1>7
  <2>2. \/ ~Acknowledged /\ Move("isr", "sequence", "sequence", Other, "END")
        \/ Acknowledged /\ IT["tx"].left = 1 /\ Move("isr", "sequence", "txLast", Other, "END")
        \/ Acknowledged /\ IT["tx"].left # 1 /\ Step("isr", "sequence", "txByte", Other)
    BY <1>2, <1>3, <1>4, <1>7, AtSequence DEF h
  <2>3. PICK k : k = h.next - 1 BY <1>3
  <2>4. Ended({"WR"}, k)' BY <1>5, <2>1, <2>3 DEF Ended, Kept
  <2>5. Acknowledged <=> ack_out = 0
    BY <1>1, <1>2 DEF Acknowledged, Status, StatusBit, Calm, DeviceTypes, Bit
  <2>6. ASSUME NEW to, Move("isr", "sequence", to, Other, "END")
        PROVE  /\ State' = State /\ pc'["main"] = "ready" /\ pc'["isr"] = to /\ NoWrite' /\ dir("isr")' = "tx"
               /\ h'.state = "END" /\ h'.next = h.next /\ h'.left = h.left /\ h'.size = h.size /\ h'.dev = h.dev
    <3>1. "END" \in ItState BY DEF ItState
    <3>2. /\ bus' = Other /\ arg' = arg /\ State' = State
          /\ pc'["main"] = (IF "isr" = "main" THEN to ELSE pc["main"])
          /\ pc'["isr"] = (IF "isr" = "isr" THEN to ELSE pc["isr"])
          /\ IT'[dir("isr")].state = "END" /\ IT'[dir("isr")].dev = IT[dir("isr")].dev
          /\ IT'[dir("isr")].next = IT[dir("isr")].next
          /\ IT'[dir("isr")].left = IT[dir("isr")].left /\ IT'[dir("isr")].size = IT[dir("isr")].size
      BY <1>3, <2>6, <3>1, Moved
    <3> QED BY <1>2, <3>2 DEF h, NoWrite, dir
  <2>7. CASE ~Acknowledged /\ Move("isr", "sequence", "sequence", Other, "END")
    <3>1. refused' BY <1>6, <2>1, <2>5, <2>7 DEF Ended
    <3>2. ItSends' BY <1>2, <1>3, <1>5, <1>6, <2>6, <2>7, <3>1 DEF ItSends
    <3> QED BY <3>2 DEF Situation
  <2>8. CASE Acknowledged /\ IT["tx"].left = 1 /\ Move("isr", "sequence", "txLast", Other, "END")
    <3>1. ack_out' = 0 /\ h.left = 1 BY <1>5, <2>5, <2>8 DEF Kept, h
    <3>2. Ended({"WR"}, h.next - 1)' BY <2>3, <2>4, <2>6, <2>8
    <3>3. ItSends' BY <1>2, <1>3, <1>5, <1>6, <2>6, <2>8, <3>1, <3>2 DEF ItSends, Silent
    <3> QED BY <3>3 DEF Situation
  <2>9. CASE Acknowledged /\ IT["tx"].left # 1 /\ Step("isr", "sequence", "txByte", Other)
    <3>1. /\ bus' = Other /\ arg' = arg /\ State' = State /\ IT' = IT
          /\ pc'["main"] = "ready" /\ pc'["isr"] = "txByte"
      BY <1>2, <1>3, <2>9, Stepped
    <3>2. h' = h /\ NoWrite' /\ dir("isr")' = "tx" BY <1>2, <3>1 DEF h, NoWrite, dir
    <3>3. ack_out' = 0 /\ h.left >= 2 BY <1>3, <1>5, <2>1, <2>5, <2>9 DEF Kept, h
    <3>4. Ended({"WR"}, h.next - 1)' BY <2>3, <2>4, <3>2
    <3>5. ItSends' BY <1>2, <1>3, <1>5, <1>6, <1>7, <3>1, <3>2, <3>3, <3>4 DEF ItSends, Silent
    <3> QED BY <3>5 DEF Situation
  <2> QED BY <2>2, <2>7, <2>8, <2>9
<1>8. CASE h.state = "END"
  <2>1. Tx_End("isr") BY <1>2, <1>3, <1>4, <1>8, AtSequence DEF h
  <2>2. /\ bus' = Write("CTR", DISABLE_INT) /\ State' = "READY" /\ arg' = arg
        /\ pc'["main"] = "ready" /\ pc'["isr"] = "complete"
    BY <1>2, <1>3, <2>1, Goes DEF Tx_End
  <2>3. IT' = [IT EXCEPT !["tx"].state = "READY"] BY <2>1 DEF Tx_End
  <2>4. "tx" \in Direction /\ IT \in [Direction -> Handle] /\ "READY" \in ItState
    BY <1>3 DEF Direction, Types, ItState
  <2>5. IT'["tx"].size = IT["tx"].size /\ IT'["tx"].dev = IT["tx"].dev BY <2>3, <2>4, SetState
  <2>6. refused' \/ (got' = Upto(h.size) /\ slave' = "idle") BY <1>2, <1>5, <1>8 DEF Kept
  <2>7. bus'[1] = "CTR" /\ dir("isr")' = "tx" BY <1>2, <2>2 DEF Write, dir
  <2>8. refused' \/ got' = Upto(IT'["tx"].size) BY <2>5, <2>6 DEF h
  <2>9. IT'["tx"].dev \in Devices BY <1>2, <2>5 DEF h
  <2>10. Freed' BY <2>6 DEF Freed
  <2>11. Rests' BY <1>5, <1>6, <2>2, <2>6, <2>7, <2>8, <2>9, <2>10 DEF Rests, Between
  <2> QED BY <2>11 DEF Situation
<1> QED BY <1>2, <1>7, <1>8

\* The handler gives the device a byte.
LEMMA SendWriteMoves ==
  ASSUME Control, ItSends, pc["isr"] \in {"txByte", "txLast", "txCommand", "txLastCommand"},
         CpuMoves, NEW c \in Bit, DeviceStep(c)
  PROVE  ItSends'
<1>1. bus = None /\ DeviceTypes /\ Ticks(c) /\ Lands("none", {}) /\ TxrNext = txr /\ txr' = txr
  BY MoveClock DEF Control
<1>2. /\ State = BUSY("tx") /\ pc["main"] = "ready" /\ dir("isr") = "tx" /\ Calm /\ ack_out = 0 /\ Silent
      /\ h.left = h.size - h.next + 1 /\ h.dev \in Devices /\ sel \in Devices /\ h.next >= 1
      /\ Ended({"WR"}, h.next - 1)
      /\ IF pc["isr"] \in {"txByte", "txCommand"} THEN h.state = "DATA" /\ h.left >= 2 ELSE h.state = "END" /\ h.left = 1
      /\ (pc["isr"] \in {"txCommand", "txLastCommand"} => TxrNext = h.next)
  BY DEF ItSends
<1>3. Types /\ "isr" \in Thread /\ h.next \in Nat /\ h.left \in Nat /\ h.size \in Nat BY Handles DEF Control, Thread
<1>4. SequenceStep("isr") BY <1>3, WhoMoves DEF Interrupted
<1>5. Calm' /\ Kept /\ Silent' BY <1>1, <1>2, CalmKeeps, CalmFlag DEF Silent
<1>6. PICK k : k = h.next - 1 BY <1>3
<1>7. Ended({"WR"}, k)' /\ sel' \in Devices /\ ack_out' = 0 BY <1>2, <1>5, <1>6 DEF Ended, Kept
<1>8. ASSUME NEW to, NEW access, Step("isr", pc["isr"], to, access)
      PROVE  /\ bus' = access /\ State' = State /\ pc'["main"] = "ready" /\ pc'["isr"] = to
             /\ h' = h /\ dir("isr")' = "tx" /\ Ended({"WR"}, h.next - 1)'
  <2>1. /\ bus' = access /\ State' = State /\ IT' = IT /\ arg' = arg
        /\ pc'["main"] = "ready" /\ pc'["isr"] = to
    BY <1>2, <1>3, <1>8, Stepped
  <2> QED BY <1>2, <1>6, <1>7, <2>1 DEF h, dir
<1>9. CASE pc["isr"] \in {"txByte", "txLast"}
  <2>1. PICK to \in {"txCommand", "txLastCommand"} :
          Step("isr", pc["isr"], to, Write("TXR", h.next)) /\ (to = "txCommand" <=> pc["isr"] = "txByte")
    BY <1>3, <1>4, <1>9, AtSend DEF h
  <2>2. /\ bus' = Write("TXR", h.next) /\ State' = State /\ pc'["main"] = "ready" /\ pc'["isr"] = to
        /\ h' = h /\ dir("isr")' = "tx" /\ Ended({"WR"}, h.next - 1)'
    BY <1>8, <2>1
  <2>3. bus'[1] = "TXR" /\ TxrNext' = h.next BY <2>2 DEF Write, TxrNext
  <2>4. IF pc'["isr"] = "txCommand" THEN h.state = "DATA" /\ h.left >= 2 ELSE h.state = "END" /\ h.left = 1
    BY <1>2, <1>9, <2>1, <2>2
  <2> QED BY <1>2, <1>5, <1>7, <2>2, <2>3, <2>4 DEF ItSends
<1>10. CASE pc["isr"] \in {"txCommand", "txLastCommand"}
  <2>1. Step("isr", pc["isr"], "txSent", Write("CR", LastFlags(h.state)))
    BY <1>2, <1>3, <1>4, <1>10, AtSend DEF LastFlags
  <2>2. /\ bus' = Write("CR", LastFlags(h.state)) /\ State' = State /\ pc'["main"] = "ready" /\ pc'["isr"] = "txSent"
        /\ h' = h /\ dir("isr")' = "tx" /\ Ended({"WR"}, h.next - 1)'
    BY <1>8, <2>1
  <2>3. txr' = h.next BY <1>1, <1>2, <1>10
  <2>4. IF h.state = "DATA" THEN h.left >= 2 ELSE h.left = 1 BY <1>2
  <2>5. h.state \in {"DATA", "END"} BY <1>2
  <2> QED BY <1>2, <1>5, <1>7, <2>2, <2>3, <2>4, <2>5 DEF ItSends
<1> QED BY <1>9, <1>10

\* The byte is counted when its command is given.
LEMMA SendSentMoves ==
  ASSUME Control, ItSends, pc["isr"] = "txSent", CpuMoves, NEW c \in Bit, DeviceStep(c)
  PROVE  ItSends'
<1>1. bus = None /\ DeviceTypes /\ Ticks(c) /\ Lands("none", {}) BY MoveClock DEF Control
<1>2. /\ State = BUSY("tx") /\ pc["main"] = "ready" /\ dir("isr") = "tx" /\ h.state \in {"DATA", "END"}
      /\ h.left = h.size - h.next + 1 /\ h.dev \in Devices /\ sel \in Devices /\ h.next >= 1
      /\ IF h.state = "DATA" THEN h.left >= 2 ELSE h.left = 1
  BY DEF ItSends
<1>3. SendFly(LastFlags(h.state), h.next) /\ Unflagged BY <1>1 DEF ItSends, Write, None
<1>4. Types /\ "isr" \in Thread /\ h.next \in Nat /\ h.left \in Nat /\ h.size \in Nat BY Handles DEF Control, Thread
<1>5. SequenceStep("isr") BY <1>4, WhoMoves DEF Interrupted
<1>6. Tx_Sent("isr") BY <1>4, <1>5, AtSend
<1>7. PICK k \in Nat \ {0} : k = h.next BY <1>2, <1>4
<1>8. PICK W \in {{"WR"}, {"WR", "STO"}} : W = LastFlags(h.state) BY DEF LastFlags
<1>9. SendFly(W, k)' /\ sel' = sel BY <1>1, <1>3, <1>7, <1>8, SendFlyStep
<1>10. Unflagged' BY <1>1, <1>3, UnflaggedStep
<1>11. bus' = None /\ State' = State /\ arg' = arg /\ pc'["main"] = "ready" /\ pc'["isr"] = "none"
  BY <1>2, <1>4, <1>6, Goes DEF Tx_Sent, Back
<1>12. IT' = [IT EXCEPT !["tx"].next = @ + 1, !["tx"].left = @ - 1] BY <1>6 DEF Tx_Sent
<1>13. "tx" \in Direction /\ IT \in [Direction -> Handle] BY <1>4 DEF Direction, Types
<1>14. /\ IT'["tx"].next = IT["tx"].next + 1 /\ IT'["tx"].left = IT["tx"].left - 1
       /\ IT'["tx"].size = IT["tx"].size /\ IT'["tx"].state = IT["tx"].state /\ IT'["tx"].dev = IT["tx"].dev
  BY <1>12, <1>13 DEF Handle
<1>15. /\ h'.next = h.next + 1 /\ h'.left = h.left - 1 /\ h'.size = h.size /\ h'.state = h.state /\ h'.dev = h.dev
  BY <1>14 DEF h
<1>16. /\ h'.left = h'.size - h'.next + 1 /\ h'.next >= 2 /\ h'.next - 1 = k
       /\ IF h'.state = "END" THEN h'.left = 0 ELSE h'.left >= 1
  <2>1. PICK left \in Nat, size \in Nat : left = h.left /\ size = h.size BY <1>4
  <2>2. left = size - k + 1 /\ (h.state = "DATA" => left >= 2) /\ (h.state = "END" => left = 1) BY <1>2, <1>7, <2>1
  <2>3. h'.left = left - 1 /\ h'.size = size /\ h'.next = k + 1 BY <1>7, <1>15, <2>1
  <2>4. h'.left = h'.size - h'.next + 1 /\ h'.next >= 2 /\ h'.next - 1 = k
    <3>1. left - 1 = size - (k + 1) + 1 /\ k + 1 >= 2 /\ (k + 1) - 1 = k BY <2>2
    <3> QED BY <2>3, <3>1
  <2>5. CASE h.state = "DATA"
    <3>1. left - 1 >= 1 BY <2>2, <2>5
    <3> QED BY <1>15, <2>3, <2>4, <2>5, <3>1
  <2>6. CASE h.state = "END"
    <3>1. left - 1 = 0 BY <2>2, <2>6
    <3> QED BY <1>15, <2>3, <2>4, <2>6, <3>1
  <2> QED BY <1>2, <2>5, <2>6
<1>17. SendFly(LastFlags(h.state), h.next - 1)' BY <1>8, <1>9, <1>15, <1>16
<1> QED BY <1>2, <1>9, <1>10, <1>11, <1>15, <1>16, <1>17 DEF ItSends

\* All of them.
LEMMA ItSendsMoves ==
  ASSUME Control, ItSends, CpuMoves, NEW c \in Bit, DeviceStep(c)
  PROVE  Situation'
<1>1. pc["isr"] \in {"none", "irqAck", "irqDispatch", "sequence", "txByte", "txLast", "txCommand", "txLastCommand",
                     "txSent"}
  BY DEF ItSends
<1>2. CASE pc["isr"] = "sequence" BY <1>2, SendSequenceMoves
<1>3. CASE pc["isr"] # "sequence"
  <2>1. ItSends' BY <1>1, <1>3, SendHandlerMoves, SendWriteMoves, SendSentMoves
  <2> QED BY <2>1 DEF Situation
<1> QED BY <1>2, <1>3

\* The same while the core waits.
LEMMA ItSendsWaits ==
  ASSUME Control, ItSends, CpuWaits, NEW c \in Bit, DeviceStep(c)
  PROVE  Situation'
<1>1. /\ DeviceTypes /\ Ticks(c) /\ Lands(WriteAdr, WriteDat)
      /\ bus' = None /\ pc' = pc /\ State' = State /\ arg' = arg /\ IT' = IT /\ TxrNext' = TxrNext
      /\ NoWrite => WriteAdr = "none"
      /\ bus[1] \in {"CTR", "TXR", "CR"} => WriteAdr = bus[1] /\ WriteDat = bus[2]
  BY WaitClock DEF Control
<1>2. "EN" \in CtrNext BY DEF ItSends, Control, Enabled, InitLabel
<1>3. h' = h /\ dir("isr")' = dir("isr") /\ NoWrite' BY <1>1 DEF h, dir, NoWrite
<1>4. h.next \in Nat /\ h.left \in Nat /\ h.size \in Nat BY Handles DEF Control
<1>5. PICK W \in {{"WR"}, {"WR", "STO"}} : W = LastFlags(h.state) BY DEF LastFlags
<1>6. W = LastFlags(h.state)' BY <1>3, <1>5
<1> DEFINE Same ==
             /\ State = BUSY("tx") /\ pc["main"] = "ready" /\ h.state \in {"DATA", "END"}
             /\ pc["isr"] \notin {"none", "irqAck", "irqDispatch"} => dir("isr") = "tx"
             /\ h.left = h.size - h.next + 1
             /\ h.dev \in Devices /\ sel \in Devices
             /\ h.next >= IF pc["isr"] \in {"none", "irqAck", "irqDispatch"} THEN 2 ELSE 1
<1>7. Same BY DEF ItSends
<1>8. ASSUME sel' = sel PROVE Same' BY <1>1, <1>3, <1>7, <1>8
<1>9. CASE pc["isr"] = "none"
  <2>1. /\ bus = None /\ SendFly(W, h.next - 1) /\ Unflagged
        /\ IF h.state = "END" THEN h.left = 0 ELSE h.left >= 1
    BY <1>5, <1>9 DEF ItSends
  <2>2. PICK k \in Nat \ {0} : k = h.next - 1 BY <1>4, <1>7, <1>9
  <2>3. WriteAdr = "none" BY <1>1, <2>1 DEF NoWrite
  <2>4. SendFly(W, k)' /\ sel' = sel BY <1>1, <2>1, <2>2, <2>3, SendFlyStep
  <2>5. Unflagged' BY <1>1, <2>1, <2>3, UnflaggedStep
  <2>6. SendFly(LastFlags(h.state), h.next - 1)' BY <1>3, <1>6, <2>2, <2>4
  <2>7. Same' BY <1>8, <2>4
  <2>8. ItSends' BY <1>1, <1>3, <1>9, <2>1, <2>5, <2>6, <2>7 DEF ItSends
  <2> QED BY <2>8 DEF Situation
<1>10. CASE pc["isr"] \in {"irqAck", "irqDispatch"}
  <2>1. /\ Calm /\ Ended(W, h.next - 1) /\ AckTaken
        /\ IF h.state = "END" THEN h.left = 0 ELSE h.left >= 1
    BY <1>5, <1>10 DEF ItSends
  <2>2. PICK k : k = h.next - 1 BY <1>4
  <2>3. Calm' /\ Kept /\ AckTaken' BY <1>1, <1>2, <1>10, <2>1, AckWaits
  <2>4. Ended(W, k)' /\ sel' = sel BY <2>1, <2>2, <2>3 DEF Ended, Kept
  <2>5. Ended(LastFlags(h.state), h.next - 1)' BY <1>3, <1>6, <2>2, <2>4
  <2>6. Same' BY <1>8, <2>4
  <2>7. ItSends' BY <1>1, <1>3, <1>10, <2>1, <2>3, <2>5, <2>6 DEF ItSends
  <2> QED BY <2>7 DEF Situation
<1>11. CASE pc["isr"] = "sequence"
  <2>1. /\ NoWrite /\ Calm /\ irq_flag = 0
        /\ IF h.state = "END" THEN refused \/ (got = Upto(h.size) /\ slave = "idle")
           ELSE h.left >= 1 /\ Ended({"WR"}, h.next - 1)
    BY <1>11 DEF ItSends
  <2>2. PICK k : k = h.next - 1 BY <1>4
  <2>3. Calm' /\ Kept /\ irq_flag' = 0 BY <1>1, <2>1, CalmKeeps, CalmFlag
  <2>4. Same' BY <1>8, <2>3 DEF Kept
  <2>5. CASE h.state = "END"
    <3>1. refused' \/ (got' = Upto(h.size) /\ slave' = "idle") BY <2>1, <2>3, <2>5 DEF Kept
    <3>2. ItSends' BY <1>1, <1>3, <1>11, <2>3, <2>4, <2>5, <3>1 DEF ItSends
    <3> QED BY <3>2 DEF Situation
  <2>6. CASE h.state # "END"
    <3>1. Ended({"WR"}, k)' BY <2>1, <2>2, <2>3, <2>6 DEF Ended, Kept
    <3>2. Ended({"WR"}, h.next - 1)' BY <1>3, <2>2, <3>1
    <3>3. ItSends' BY <1>1, <1>3, <1>11, <2>1, <2>3, <2>4, <2>6, <3>2 DEF ItSends
    <3> QED BY <3>3 DEF Situation
  <2> QED BY <2>5, <2>6
<1>12. CASE pc["isr"] \in {"txByte", "txLast", "txCommand", "txLastCommand"}
  <2>1. /\ Calm /\ ack_out = 0 /\ Ended({"WR"}, h.next - 1) /\ Silent
        /\ IF pc["isr"] \in {"txByte", "txCommand"} THEN h.state = "DATA" /\ h.left >= 2 ELSE h.state = "END" /\ h.left = 1
        /\ IF pc["isr"] \in {"txByte", "txLast"} THEN NoWrite
           ELSE (bus = None \/ bus[1] = "TXR") /\ TxrNext = h.next
    BY <1>12 DEF ItSends
  <2>2. PICK k : k = h.next - 1 BY <1>4
  <2>3. WriteAdr # "CR" BY <1>1, <2>1 DEF NoWrite
  <2>4. Calm' /\ Kept /\ Silent' /\ ack_out' = 0 BY <1>1, <2>1, <2>3, CalmKeeps, CalmFlag DEF Silent, Kept
  <2>5. Ended({"WR"}, k)' BY <2>1, <2>2, <2>4 DEF Ended, Kept
  <2>6. Ended({"WR"}, h.next - 1)' BY <1>3, <2>2, <2>5
  <2>7. Same' BY <1>8, <2>4 DEF Kept
  <2>8. ItSends' BY <1>1, <1>3, <1>12, <2>1, <2>4, <2>6, <2>7 DEF ItSends
  <2> QED BY <2>8 DEF Situation
<1>13. CASE pc["isr"] = "txSent"
  <2>1. PICK k \in Nat \ {0} : k = h.next BY <1>4, <1>7, <1>13
  <2>2. IF h.state = "DATA" THEN h.left >= 2 ELSE h.left = 1 BY <1>13 DEF ItSends
  <2>3. SendFly(W, k)' /\ sel' = sel /\ Unflagged'
    <3>1. CASE bus = Write("CR", W)
      <4>1. txr = k /\ Calm /\ Ended({"WR"}, k - 1) /\ Silent
        BY <1>13, <2>1, <3>1 DEF ItSends, Write, None
      <4>2. bus[1] = "CR" /\ bus[2] = W BY <3>1 DEF Write
      <4>3. WriteAdr = "CR" /\ WriteDat = W /\ "EN" \in ctr BY <1>1, <1>2, <4>2 DEF CtrNext
      <4>4. SendFly(W, k)' /\ sel' = sel BY <1>1, <4>1, <4>3, SendTakes
      <4>5. Unflagged' BY <1>1, <4>1, CalmFlag DEF Silent, Unflagged
      <4> QED BY <4>4, <4>5
    <3>2. CASE bus = None
      <4>1. SendFly(W, k) /\ Unflagged BY <1>5, <1>13, <2>1, <3>2 DEF ItSends, Write, None
      <4>2. WriteAdr = "none" BY <1>1, <3>2 DEF NoWrite
      <4>3. SendFly(W, k)' /\ sel' = sel BY <1>1, <4>1, <4>2, SendFlyStep
      <4>4. Unflagged' BY <1>1, <4>1, <4>2, UnflaggedStep
      <4> QED BY <4>3, <4>4
    <3> QED BY <1>5, <1>13, <3>1, <3>2 DEF ItSends
  <2>4. SendFly(LastFlags(h.state), h.next)' BY <1>3, <1>6, <2>1, <2>3
  <2>5. Same' BY <1>8, <2>3
  <2>6. ItSends' BY <1>1, <1>3, <1>13, <2>2, <2>3, <2>4, <2>5 DEF ItSends
  <2> QED BY <2>6 DEF Situation
<1> QED BY <1>9, <1>10, <1>11, <1>12, <1>13 DEF ItSends

------------------------------------------------------------------------------
(***************************************************************************)
(* The data of an interrupt-driven reception.                              *)
(***************************************************************************)

\* The handler is called, and looks which transfer it is.
LEMMA ReadHandlerMoves ==
  ASSUME Control, ItReads, pc["isr"] \in {"none", "irqAck", "irqDispatch"}, CpuMoves, NEW c \in Bit, DeviceStep(c)
  PROVE  ItReads'
<1>1. bus = None /\ DeviceTypes /\ Ticks(c) /\ Lands("none", {}) BY MoveClock DEF Control
<1>2. /\ State = BUSY("rx") /\ pc["main"] = "ready" /\ r.state = "GET_DATA" /\ buf = Upto(Taken - 1) /\ Taken >= 1
      /\ r.left \in Nat /\ Taken \in Nat /\ "rx" \in Direction
  BY DEF ItReads, Direction
<1>3. /\ State' = State /\ IT' = IT /\ buf' = buf /\ pc'["main"] = "ready"
      /\ \/ pc["isr"] = "none" /\ pc'["isr"] = "none" /\ bus' = None
         \/ pc["isr"] = "none" /\ inta = 1 /\ pc'["isr"] = "irqAck" /\ bus' = None
         \/ pc["isr"] = "irqAck" /\ pc'["isr"] = "irqDispatch" /\ bus' = Write("CR", {"IACK"})
         \/ pc["isr"] = "irqDispatch" /\ pc'["isr"] = "sequence" /\ bus' = None /\ dir("isr")' = "rx"
  BY <1>1, <1>2, HandlerGoes
<1>4. r' = r /\ Taken' = Taken BY <1>3 DEF r, Taken
<1>5. PICK k \in Nat : k = Taken BY <1>2
<1>6. PICK last \in BOOLEAN : last <=> (r.left = 0) OBVIOUS
<1>7. CASE pc["isr"] = "none"
  <2>1. ReadFly(last, k) /\ Unflagged BY <1>5, <1>6, <1>7 DEF ItReads
  <2>2. ReadFly(last, k)' BY <1>1, <2>1, ReadFlyStep
  <2>3. Unflagged' BY <1>1, <2>1, UnflaggedStep
  <2>4. CASE pc'["isr"] = "none" /\ bus' = None
    <3>1. ReadFly(r.left = 0, Taken)' BY <1>4, <1>5, <1>6, <2>2
    <3> QED BY <1>2, <1>3, <1>4, <2>3, <2>4, <3>1 DEF ItReads
  <2>5. CASE inta = 1 /\ pc'["isr"] = "irqAck" /\ bus' = None
    <3>1. Cmds = {} BY <2>1, <2>5 DEF Unflagged
    <3>2. Calm /\ Got(last, k) BY <2>1, <3>1 DEF ReadFly
    <3>3. Calm' /\ Kept BY <1>1, <3>2, CalmKeeps
    <3>4. Got(last, k)' BY <3>2, <3>3 DEF Got, Kept
    <3>5. Got(r.left = 0, Taken)' BY <1>4, <1>5, <1>6, <3>4
    <3>6. AckTaken' BY <2>5 DEF AckTaken
    <3> QED BY <1>2, <1>3, <1>4, <2>5, <3>3, <3>5, <3>6 DEF ItReads
  <2> QED BY <1>3, <1>7, <2>4, <2>5
<1>8. CASE pc["isr"] \in {"irqAck", "irqDispatch"}
  <2>1. Calm /\ Got(last, k) /\ AckTaken BY <1>5, <1>6, <1>8 DEF ItReads
  <2>2. Calm' /\ Kept BY <1>1, <2>1, CalmKeeps
  <2>3. Got(last, k)' BY <2>1, <2>2 DEF Got, Kept
  <2>4. Got(r.left = 0, Taken)' BY <1>4, <1>5, <1>6, <2>3
  <2>5. AckTaken' BY <1>1, <1>3, <1>8, <2>1, HandlerAcks
  <2>6. \/ pc'["isr"] = "irqDispatch"
        \/ pc'["isr"] = "sequence" /\ dir("isr")' = "rx"
    BY <1>3, <1>8
  <2> QED BY <1>2, <1>3, <1>4, <2>2, <2>4, <2>5, <2>6 DEF ItReads
<1> QED BY <1>7, <1>8

\* The handler looks at the byte: it was the last one, or it is taken.
LEMMA ReadLooks ==
  ASSUME Control, ItReads, pc["isr"] = "sequence", r.state = "GET_DATA", CpuMoves, NEW c \in Bit, DeviceStep(c)
  PROVE  ItReads'
<1>1. DeviceTypes /\ Ticks(c) /\ Lands("none", {}) BY MoveClock DEF Control
<1>2. /\ State = BUSY("rx") /\ pc["main"] = "ready" /\ buf = Upto(Taken - 1) /\ Taken >= 1 /\ dir("isr") = "rx"
      /\ r.left \in Nat /\ Taken \in Nat /\ Calm /\ Got(r.left = 0, Taken) /\ AckTaken
  BY DEF ItReads, BUSY
<1>3. Types /\ "isr" \in Thread /\ r.size \in Nat BY Handles DEF Control, Thread
<1>4. SequenceStep("isr") BY <1>3, WhoMoves DEF Interrupted
<1>5. irq_flag = 0 BY DEF ItReads, AckTaken
<1>6. Calm' /\ Kept /\ irq_flag' = 0 /\ inta' = 0 BY <1>1, <1>2, <1>5, CalmKeeps, CalmFlag
<1>7. PICK k \in Nat \ {0} : k = Taken BY <1>2
<1>8. sr' = k /\ nxt' = k + 1 /\ ack_out' = ack_out /\ ack_out = One(r.left = 0)
      /\ slave' = (IF r.left = 0 THEN "deaf" ELSE "sends")
  BY <1>2, <1>6, <1>7 DEF Got, Kept
<1>9. Acknowledged <=> r.left # 0
  BY <1>2, <1>8 DEF Acknowledged, Status, StatusBit, Calm, One
<1>10. \/ Acknowledged /\ Step("isr", "sequence", "rxTake", Other)
       \/ ~Acknowledged /\ Move("isr", "sequence", "sequence", Other, "END")
  BY <1>2, <1>3, <1>4, AtSequence DEF r
<1>11. CASE Acknowledged /\ Step("isr", "sequence", "rxTake", Other)
  <2>1. /\ bus' = Other /\ arg' = arg /\ State' = State /\ IT' = IT /\ buf' = buf
        /\ pc'["main"] = "ready" /\ pc'["isr"] = "rxTake"
    BY <1>2, <1>3, <1>11, Stepped
  <2>2. r' = r /\ Taken' = k /\ NoWrite' /\ dir("isr")' = "rx" BY <1>2, <1>7, <2>1 DEF r, Taken, NoWrite, dir
  <2>3. r.left >= 1 /\ Got(FALSE, k)' BY <1>2, <1>8, <1>9, <1>11 DEF Got, One
  <2>4. Got(FALSE, Taken)' BY <2>2, <2>3
  <2> QED BY <1>2, <1>6, <1>7, <2>1, <2>2, <2>3, <2>4 DEF ItReads, Silent
<1>12. CASE ~Acknowledged /\ Move("isr", "sequence", "sequence", Other, "END")
  <2>1. r.left = 0 /\ ack_out' = 1 BY <1>8, <1>9, <1>12 DEF One
  <2>2. k = r.size BY <1>2, <1>3, <1>7, <2>1 DEF Taken
  <2>3. "END" \in ItState BY DEF ItState
  <2>4. /\ bus' = Other /\ arg' = arg /\ State' = State /\ buf' = buf
        /\ pc'["main"] = (IF "isr" = "main" THEN "sequence" ELSE pc["main"])
        /\ pc'["isr"] = (IF "isr" = "isr" THEN "sequence" ELSE pc["isr"])
        /\ IT'[dir("isr")].state = "END"
        /\ IT'[dir("isr")].left = IT[dir("isr")].left /\ IT'[dir("isr")].size = IT[dir("isr")].size
    BY <1>3, <1>12, <2>3, Moved
  <2>5. /\ r'.state = "END" /\ r'.left = 0 /\ r'.size = k /\ NoWrite' /\ dir("isr")' = "rx"
        /\ pc'["main"] = "ready" /\ pc'["isr"] = "sequence"
    BY <1>2, <2>1, <2>2, <2>4 DEF r, NoWrite, dir
  <2>6. Taken' = k BY <2>5 DEF Taken
  <2>7. buf' = Upto(k - 1) BY <1>2, <1>7, <2>4
  <2>8. buf' = Upto(r'.size - 1) BY <2>5, <2>7
  <2> QED BY <1>2, <1>6, <1>8, <2>1, <2>4, <2>5, <2>6, <2>8 DEF ItReads
<1> QED BY <1>10, <1>11, <1>12

\* It takes the byte, and asks for the next one.
LEMMA ReadTakesMoves ==
  ASSUME Control, ItReads, pc["isr"] = "rxTake", CpuMoves, NEW c \in Bit, DeviceStep(c)
  PROVE  ItReads'
<1>1. DeviceTypes /\ Ticks(c) /\ Lands("none", {}) BY MoveClock DEF Control
<1>2. /\ State = BUSY("rx") /\ pc["main"] = "ready" /\ buf = Upto(Taken - 1) /\ Taken >= 1 /\ dir("isr") = "rx"
      /\ r.left \in Nat /\ r.left >= 1 /\ Taken \in Nat /\ Calm /\ Got(FALSE, Taken) /\ irq_flag = 0
  BY DEF ItReads, Silent
<1>3. Types /\ "isr" \in Thread /\ r.size \in Nat BY Handles DEF Control, Thread
<1>4. Rx_Take("isr") BY <1>3, WhoMoves, AtRead DEF Interrupted
<1>5. Calm' /\ Kept /\ irq_flag' = 0 BY <1>1, <1>2, CalmKeeps, CalmFlag
<1>6. PICK k \in Nat \ {0} : k = Taken BY <1>2
<1>7. buf' = Upto(k) BY <1>2, <1>4, <1>6, UptoNext DEF Rx_Take, Got
<1>8. /\ bus' = Other /\ arg' = arg /\ State' = State /\ pc'["main"] = "ready" /\ pc'["isr"] = "sequence"
      /\ IT' = [IT EXCEPT !["rx"].state = "DATA"]
  BY <1>2, <1>3, <1>4, Goes DEF Rx_Take
<1>9. "rx" \in Direction /\ IT \in [Direction -> Handle] /\ "DATA" \in ItState BY <1>3 DEF Direction, Types, ItState
<1>10. IT'["rx"].state = "DATA" /\ IT'["rx"].left = IT["rx"].left /\ IT'["rx"].size = IT["rx"].size
  BY <1>8, <1>9, SetState
<1>11. r'.state = "DATA" /\ r'.left = r.left /\ Taken' = k /\ NoWrite' /\ dir("isr")' = "rx"
  BY <1>2, <1>6, <1>8, <1>10 DEF r, Taken, NoWrite, dir
<1>12. ack_out' = 0 /\ slave' = "sends" /\ nxt' = k + 1 BY <1>2, <1>5, <1>6 DEF Got, Kept, One
<1> QED BY <1>2, <1>5, <1>6, <1>7, <1>8, <1>11, <1>12 DEF ItReads

\* The command that asks for it.
LEMMA ReadAsksMoves ==
  ASSUME Control, ItReads, pc["isr"] = "sequence", r.state = "DATA", CpuMoves, NEW c \in Bit, DeviceStep(c)
  PROVE  ItReads'
<1>1. DeviceTypes /\ Ticks(c) /\ Lands("none", {}) BY MoveClock DEF Control
<1>2. /\ State = BUSY("rx") /\ pc["main"] = "ready" /\ buf = Upto(Taken) /\ dir("isr") = "rx"
      /\ r.left \in Nat /\ r.left >= 1 /\ Taken \in Nat
      /\ Calm /\ ack_out = 0 /\ slave = "sends" /\ nxt = Taken + 1 /\ irq_flag = 0
  BY DEF ItReads, BUSY
<1>3. Types /\ "isr" \in Thread BY DEF Control, Thread
<1>4. Step("isr", "sequence", "rxAsked", Write("CR", AskFlags)) BY <1>2, <1>3, WhoMoves, AtSequence DEF Interrupted, r
<1>5. Calm' /\ Kept /\ irq_flag' = 0 /\ inta' = 0 BY <1>1, <1>2, CalmKeeps, CalmFlag
<1>6. /\ bus' = Write("CR", {"RD"} \cup If(r.left = 1, "ACK")) /\ arg' = arg /\ State' = State /\ IT' = IT /\ buf' = buf
      /\ pc'["main"] = "ready" /\ pc'["isr"] = "rxAsked"
  BY <1>2, <1>3, <1>4, Stepped DEF AskFlags, r
<1>7. r' = r /\ Taken' = Taken /\ dir("isr")' = "rx" BY <1>2, <1>6 DEF r, Taken, dir
<1> QED BY <1>2, <1>5, <1>6, <1>7 DEF ItReads, Kept, Silent

\* The byte is counted when its command is given.
LEMMA ReadAskedMoves ==
  ASSUME Control, ItReads, pc["isr"] = "rxAsked", CpuMoves, NEW c \in Bit, DeviceStep(c)
  PROVE  ItReads'
<1>1. bus = None /\ DeviceTypes /\ Ticks(c) /\ Lands("none", {}) BY MoveClock DEF Control
<1>2. /\ State = BUSY("rx") /\ pc["main"] = "ready" /\ buf = Upto(Taken) /\ dir("isr") = "rx"
      /\ r.left \in Nat /\ r.left >= 1 /\ Taken \in Nat
      /\ ReadFly(r.left = 1, Taken + 1) /\ Unflagged
  BY <1>1 DEF ItReads, BUSY, Write, None
<1>3. Types /\ "isr" \in Thread /\ r.size \in Nat BY Handles DEF Control, Thread
<1>4. Rx_Asked("isr") BY <1>3, WhoMoves, AtRead DEF Interrupted
<1>5. PICK k \in Nat : k = Taken + 1 BY <1>2
<1>6. PICK last \in BOOLEAN : last <=> (r.left = 1) OBVIOUS
<1>7. ReadFly(last, k)' BY <1>1, <1>2, <1>5, <1>6, ReadFlyStep
<1>8. Unflagged' BY <1>1, <1>2, UnflaggedStep
<1>9. /\ bus' = None /\ arg' = arg /\ State' = State /\ buf' = buf /\ pc'["main"] = "ready" /\ pc'["isr"] = "none"
      /\ IT' = [IT EXCEPT !["rx"].state = "GET_DATA", !["rx"].left = @ - 1]
  BY <1>2, <1>3, <1>4, Goes DEF Rx_Asked, Back
<1>10. "rx" \in Direction /\ IT \in [Direction -> Handle] BY <1>3 DEF Direction, Types
<1>11. IT'["rx"].state = "GET_DATA" /\ IT'["rx"].left = IT["rx"].left - 1 /\ IT'["rx"].size = IT["rx"].size
  BY <1>9, <1>10 DEF Handle
<1>12. r'.state = "GET_DATA" /\ r'.left = r.left - 1 /\ r'.size = r.size BY <1>11 DEF r
<1>13. Taken' = k
  <2>1. PICK left \in Nat, size \in Nat : left = r.left /\ size = r.size BY <1>2, <1>3
  <2>2. k = (size - left) + 1 BY <1>5, <2>1 DEF Taken
  <2>3. size - (left - 1) = (size - left) + 1 BY <2>1
  <2> QED BY <1>12, <2>1, <2>2, <2>3 DEF Taken
<1>14. r'.left \in Nat /\ (r'.left = 0 <=> last)
  <2>1. PICK left \in Nat : left = r.left BY <1>2
  <2>2. left - 1 \in Nat /\ (left - 1 = 0 <=> left = 1) BY <1>2, <2>1
  <2> QED BY <1>6, <1>12, <2>1, <2>2
<1>15. ReadFly(r.left = 0, Taken)' BY <1>7, <1>13, <1>14
<1>16. buf' = Upto(Taken' - 1)
  <2>1. k - 1 = Taken BY <1>2, <1>5
  <2> QED BY <1>2, <1>9, <1>13, <2>1
<1>17. k >= 1 BY <1>2, <1>5
<1> QED BY <1>2, <1>8, <1>9, <1>12, <1>13, <1>14, <1>15, <1>16, <1>17 DEF ItReads

\* The last byte is taken; interrupts are disabled and the bus is released.
LEMMA ReadEnds ==
  ASSUME Control, ItReads, r.state = "END" \/ pc["isr"] \in {"rxDisable", "rxStop"},
         CpuMoves, NEW c \in Bit, DeviceStep(c)
  PROVE  Situation'
<1>1. bus = None /\ DeviceTypes /\ Ticks(c) /\ Lands("none", {}) BY MoveClock DEF Control
<1>2. /\ pc["main"] = "ready" /\ dir("isr") = "rx" /\ r.left \in Nat /\ Taken \in Nat
      /\ Calm /\ ack_out = 1 /\ irq_flag = 0
      /\ \/ /\ r.state = "END" /\ pc["isr"] = "sequence" /\ buf = Upto(r.size - 1) /\ r.size >= 1 /\ sr = r.size
         \/ State = "READY" /\ buf = Upto(r.size) /\ pc["isr"] \in {"rxDisable", "rxStop"}
  BY DEF ItReads
<1>3. Types /\ "isr" \in Thread /\ r.size \in Nat BY Handles DEF Control, Thread
<1>4. SequenceStep("isr") BY <1>2, <1>3, WhoMoves DEF Interrupted
<1>5. Calm' /\ Kept /\ irq_flag' = 0 /\ ack_out' = 1 BY <1>1, <1>2, CalmKeeps, CalmFlag DEF Kept
<1>6. CASE r.state = "END" /\ pc["isr"] = "sequence" /\ buf = Upto(r.size - 1) /\ r.size >= 1 /\ sr = r.size
  <2>1. Rx_End("isr") BY <1>2, <1>3, <1>4, <1>6, AtSequence DEF r
  <2>2. PICK k \in Nat \ {0} : k = r.size BY <1>3, <1>6
  <2>3. buf' = Upto(k) BY <1>6, <2>1, <2>2, UptoNext DEF Rx_End
  <2>4. /\ bus' = Other /\ arg' = arg /\ State' = "READY" /\ pc'["main"] = "ready" /\ pc'["isr"] = "rxDisable"
        /\ IT' = [IT EXCEPT !["rx"].state = "READY"]
    BY <1>2, <1>3, <2>1, Goes DEF Rx_End
  <2>5. "rx" \in Direction /\ IT \in [Direction -> Handle] /\ "READY" \in ItState BY <1>3 DEF Direction, Types, ItState
  <2>6. IT'["rx"].left = IT["rx"].left /\ IT'["rx"].size = IT["rx"].size BY <2>4, <2>5, SetState
  <2>7. r'.left = r.left /\ r'.size = k /\ Taken' = Taken /\ NoWrite' /\ dir("isr")' = "rx"
    BY <1>2, <2>2, <2>4, <2>6 DEF r, Taken, NoWrite, dir
  <2>8. ItReads' BY <1>2, <1>5, <2>3, <2>4, <2>7 DEF ItReads
  <2> QED BY <2>8 DEF Situation
<1>7. CASE State = "READY" /\ buf = Upto(r.size) /\ pc["isr"] = "rxDisable"
  <2>1. Step("isr", "rxDisable", "rxStop", Write("CTR", DISABLE_INT)) BY <1>3, <1>4, <1>7, AtRead
  <2>2. /\ bus' = Write("CTR", DISABLE_INT) /\ arg' = arg /\ State' = State /\ IT' = IT /\ buf' = buf
        /\ pc'["main"] = "ready" /\ pc'["isr"] = "rxStop"
    BY <1>2, <1>3, <2>1, Stepped
  <2>3. bus'[1] = "CTR" /\ r' = r /\ Taken' = Taken /\ dir("isr")' = "rx"
    BY <1>2, <2>2 DEF Write, r, Taken, dir
  <2>4. ItReads' BY <1>2, <1>5, <1>7, <2>2, <2>3 DEF ItReads
  <2> QED BY <2>4 DEF Situation
<1>8. CASE State = "READY" /\ buf = Upto(r.size) /\ pc["isr"] = "rxStop"
  <2>1. Step("isr", "rxStop", "complete", Write("CR", {"STO"})) BY <1>3, <1>4, <1>8, AtRead DEF Rx_Stop
  <2>2. /\ bus' = Write("CR", {"STO"}) /\ arg' = arg /\ State' = State /\ IT' = IT /\ buf' = buf
        /\ pc'["main"] = "ready" /\ pc'["isr"] = "complete"
    BY <1>2, <1>3, <2>1, Stepped
  <2>3. dir("isr")' = "rx" /\ buf' = Upto(IT'["rx"].size) BY <1>2, <1>8, <2>2 DEF dir, r
  <2>4. Freed' BY <2>2 DEF Freed
  <2>5. Rests' BY <1>2, <1>5, <1>8, <2>2, <2>3, <2>4 DEF Rests, Between
  <2> QED BY <2>5 DEF Situation
<1> QED BY <1>2, <1>6, <1>7, <1>8

\* All of them.
LEMMA ItReadsMoves ==
  ASSUME Control, ItReads, CpuMoves, NEW c \in Bit, DeviceStep(c)
  PROVE  Situation'
<1>1. \/ pc["isr"] \in {"none", "irqAck", "irqDispatch"}
      \/ pc["isr"] = "sequence" /\ r.state \in {"GET_DATA", "DATA"}
      \/ pc["isr"] \in {"rxTake", "rxAsked"}
      \/ r.state = "END" \/ pc["isr"] \in {"rxDisable", "rxStop"}
  BY DEF ItReads
<1>2. CASE r.state = "END" \/ pc["isr"] \in {"rxDisable", "rxStop"} BY <1>2, ReadEnds
<1>3. CASE ~(r.state = "END" \/ pc["isr"] \in {"rxDisable", "rxStop"})
  <2>1. ItReads' BY <1>1, <1>3, ReadHandlerMoves, ReadLooks, ReadTakesMoves, ReadAsksMoves, ReadAskedMoves
  <2> QED BY <2>1 DEF Situation
<1> QED BY <1>2, <1>3

\* The same while the core waits.
LEMMA ItReadsWaits ==
  ASSUME Control, ItReads, CpuWaits, NEW c \in Bit, DeviceStep(c)
  PROVE  Situation'
<1>1. /\ DeviceTypes /\ Ticks(c) /\ Lands(WriteAdr, WriteDat)
      /\ bus' = None /\ pc' = pc /\ State' = State /\ arg' = arg /\ IT' = IT /\ buf' = buf
      /\ NoWrite => WriteAdr = "none"
      /\ bus[1] \in {"CTR", "TXR", "CR"} => WriteAdr = bus[1] /\ WriteDat = bus[2]
  BY WaitClock DEF Control
<1>2. "EN" \in CtrNext BY DEF ItReads, Control, Enabled, InitLabel
<1>3. r' = r /\ Taken' = Taken /\ dir("isr")' = dir("isr") /\ NoWrite' BY <1>1 DEF r, Taken, dir, NoWrite
<1>4. r.left \in Nat /\ Taken \in Nat /\ pc["main"] = "ready"
      /\ (pc["isr"] \notin {"none", "irqAck", "irqDispatch"} => dir("isr") = "rx")
  BY DEF ItReads
<1>5. PICK k \in Nat : k = Taken BY <1>4
<1>6. CASE State = BUSY("rx") /\ r.state = "GET_DATA"
  <2>1. buf = Upto(Taken - 1) /\ Taken >= 1 BY <1>6 DEF ItReads, BUSY
  <2>2. PICK last \in BOOLEAN : last <=> (r.left = 0) OBVIOUS
  <2>3. CASE pc["isr"] = "none"
    <3>1. bus = None /\ ReadFly(last, k) /\ Unflagged BY <1>5, <1>6, <2>2, <2>3 DEF ItReads
    <3>2. WriteAdr = "none" BY <1>1, <3>1 DEF NoWrite
    <3>3. ReadFly(last, k)' /\ Unflagged' BY <1>1, <3>1, <3>2, ReadFlyStep, UnflaggedStep
    <3>4. ReadFly(r.left = 0, Taken)' BY <1>3, <1>5, <2>2, <3>3
    <3>5. ItReads' BY <1>1, <1>3, <1>4, <1>6, <2>1, <2>3, <3>3, <3>4 DEF ItReads
    <3> QED BY <3>5 DEF Situation
  <2>4. CASE pc["isr"] \in {"irqAck", "irqDispatch", "sequence"}
    <3>1. Calm /\ Got(last, k) /\ AckTaken BY <1>5, <1>6, <2>2, <2>4 DEF ItReads
    <3>2. Calm' /\ Kept /\ AckTaken' BY <1>1, <1>2, <2>4, <3>1, AckWaits
    <3>3. Got(last, k)' BY <3>1, <3>2 DEF Got, Kept
    <3>4. Got(r.left = 0, Taken)' BY <1>3, <1>5, <2>2, <3>3
    <3>5. ItReads' BY <1>1, <1>3, <1>4, <1>6, <2>1, <2>4, <3>2, <3>4 DEF ItReads
    <3> QED BY <3>5 DEF Situation
  <2>5. CASE pc["isr"] = "rxTake"
    <3>1. NoWrite /\ Calm /\ r.left >= 1 /\ Got(FALSE, k) /\ Silent BY <1>5, <1>6, <2>5 DEF ItReads
    <3>2. Calm' /\ Kept /\ Silent' BY <1>1, <3>1, CalmKeeps, CalmFlag DEF Silent
    <3>3. Got(FALSE, k)' BY <3>1, <3>2 DEF Got, Kept
    <3>4. Got(FALSE, Taken)' BY <1>3, <1>5, <3>3
    <3>5. ItReads' BY <1>1, <1>3, <1>4, <1>6, <2>1, <2>5, <3>1, <3>2, <3>4 DEF ItReads
    <3> QED BY <3>5 DEF Situation
  <2> QED BY <1>6, <2>3, <2>4, <2>5 DEF ItReads, BUSY
<1>7. CASE State = BUSY("rx") /\ r.state = "DATA"
  <2>1. buf = Upto(Taken) /\ r.left >= 1 /\ pc["isr"] \in {"sequence", "rxAsked"} BY <1>7 DEF ItReads, BUSY
  <2>2. PICK last \in BOOLEAN : last <=> (r.left = 1) OBVIOUS
  <2>3. CASE pc["isr"] = "sequence"
    <3>1. NoWrite /\ Calm /\ ack_out = 0 /\ slave = "sends" /\ nxt = Taken + 1 /\ irq_flag = 0
      BY <1>7, <2>3 DEF ItReads, BUSY
    <3>2. Calm' /\ Kept /\ irq_flag' = 0 BY <1>1, <3>1, CalmKeeps, CalmFlag
    <3>3. ItReads' BY <1>1, <1>3, <1>4, <1>7, <2>1, <2>3, <3>1, <3>2 DEF ItReads, Kept
    <3> QED BY <3>3 DEF Situation
  <2>4. CASE pc["isr"] = "rxAsked"
    <3>1. PICK m \in Nat : m = Taken + 1 BY <1>4
    <3>2. PICK B : B = {"RD"} \cup If(last, "ACK") OBVIOUS
    <3>3. B = {"RD"} \cup If(r.left = 1, "ACK") BY <2>2, <3>2 DEF If
    <3>4. ReadFly(last, m)' /\ Unflagged'
      <4>1. CASE bus = Write("CR", B)
        <5>1. Calm /\ slave = "sends" /\ nxt = m /\ Silent
          BY <1>7, <2>4, <3>1, <4>1 DEF ItReads, BUSY, Write, None
        <5>2. bus[1] = "CR" /\ bus[2] = B BY <4>1 DEF Write
        <5>3. WriteAdr = "CR" /\ WriteDat = B /\ "EN" \in ctr BY <1>1, <1>2, <5>2 DEF CtrNext
        <5>4. ReadFly(last, m)' BY <1>1, <3>2, <5>1, <5>3, ReadTakes
        <5>5. Unflagged' BY <1>1, <5>1, CalmFlag DEF Silent, Unflagged
        <5> QED BY <5>4, <5>5
      <4>2. CASE bus = None
        <5>1. ReadFly(last, m) /\ Unflagged BY <1>7, <2>2, <2>4, <3>1, <4>2 DEF ItReads, BUSY, Write, None
        <5>2. WriteAdr = "none" BY <1>1, <4>2 DEF NoWrite
        <5> QED BY <1>1, <5>1, <5>2, ReadFlyStep, UnflaggedStep
      <4> QED BY <1>7, <2>4, <3>3, <4>1, <4>2 DEF ItReads, BUSY
    <3>5. ReadFly(r.left = 1, Taken + 1)' BY <1>3, <2>2, <3>1, <3>4
    <3>6. ItReads' BY <1>1, <1>3, <1>4, <1>7, <2>1, <2>4, <3>4, <3>5 DEF ItReads
    <3> QED BY <3>6 DEF Situation
  <2> QED BY <2>1, <2>3, <2>4
<1>8. CASE State = BUSY("rx") /\ r.state = "END"
  <2>1. /\ buf = Upto(r.size - 1) /\ r.size >= 1
        /\ pc["isr"] = "sequence" /\ NoWrite /\ Calm /\ sr = r.size /\ ack_out = 1 /\ irq_flag = 0
    BY <1>8 DEF ItReads, BUSY
  <2>2. Calm' /\ Kept /\ irq_flag' = 0 BY <1>1, <2>1, CalmKeeps, CalmFlag
  <2>3. ItReads' BY <1>1, <1>3, <1>4, <1>8, <2>1, <2>2 DEF ItReads, Kept
  <2> QED BY <2>3 DEF Situation
<1>9. CASE State = "READY"
  <2>1. /\ buf = Upto(r.size) /\ Calm /\ ack_out = 1 /\ irq_flag = 0
        /\ \/ pc["isr"] = "rxDisable" /\ NoWrite
           \/ pc["isr"] = "rxStop" /\ (bus = None \/ bus[1] = "CTR")
    BY <1>9 DEF ItReads, BUSY
  <2>2. WriteAdr # "CR" BY <1>1, <2>1 DEF NoWrite
  <2>3. Calm' /\ Kept /\ irq_flag' = 0 BY <1>1, <2>1, <2>2, CalmKeeps, CalmFlag
  <2>4. ItReads' BY <1>1, <1>3, <1>4, <1>9, <2>1, <2>3 DEF ItReads, Kept
  <2> QED BY <2>4 DEF Situation
<1> QED BY <1>6, <1>7, <1>8, <1>9 DEF ItReads

------------------------------------------------------------------------------
(***************************************************************************)
(* The invariant holds from the start, when the boot loader left the flag  *)
(* set only with an acknowledge bit of 1, and every step keeps it.         *)
(***************************************************************************)

\* The program comes up after the boot loader, or after reset.
LEMMA InitHolds ==
  ASSUME Init, BOOT_WRITEBACK = FALSE
  PROVE  IInv
<1>1. /\ pc["main"] = "init" /\ pc["isr"] = "none" /\ pc \in [Thread -> MainLabel \cup IsrLabel]
      /\ pc["main"] \in MainLabel /\ pc["isr"] \in IsrLabel /\ pc["main"] \in InitLabel
  BY DEF Init, Thread, MainLabel, InitLabel, IsrLabel
<1>2. arg \in [Thread -> Call]
  <2>1. PICK dev \in Devices, size \in Sizes : TRUE BY DriverAssumption
  <2>2. [mode |-> "IT", dir |-> "tx", dev |-> dev, size |-> size] \in Call BY DEF Call, Direction
  <2>3. (CHOOSE k \in Call : TRUE) \in Call BY <2>2
  <2> QED BY <2>3 DEF Init
<1>3. IT \in [Direction -> Handle] /\ \A d \in Direction : IT[d].state = "READY"
  BY DEF Init, Handle, ItState
<1>4. ctr \in {{}, {"EN"}} /\ irq_flag \in Bit /\ ack_out = irq_flag /\ rxack = ack_out /\ inta = 0 /\ cr = {}
  BY DEF Init, One, Bit
<1>5. DeviceTypes BY <1>4 DEF Init, DeviceTypes, CtrBit, Bit
<1>6. bus = None /\ bus[1] = "none" /\ n = 0 /\ State = "READY" BY DEF Init, None
<1>7. Types BY <1>1, <1>2, <1>3, <1>5, <1>6 DEF Types, None
<1>8. Enabled BY <1>1, <1>4, <1>6 DEF Enabled, CtrNext, InitLabel
<1>9. Owned BY <1>3 DEF Owned
<1>10. Requests BY <1>4 DEF Requests
<1>11. StartsUp BY <1>1, <1>4, <1>6 DEF Init, StartsUp, Alone, NoWrite, Calm, Cmds
<1> QED BY <1>7, <1>8, <1>9, <1>10, <1>11 DEF IInv, Situation

\* Nothing happens.
LEMMA StutterHolds ==
  ASSUME IInv, UNCHANGED vars
  PROVE  IInv'
<1>1. /\ pc' = pc /\ arg' = arg /\ n' = n /\ bus' = bus /\ State' = State /\ IT' = IT /\ buf' = buf
      /\ slave' = slave /\ sel' = sel /\ got' = got /\ nxt' = nxt /\ sda' = sda /\ refused' = refused
      /\ ctr' = ctr /\ txr' = txr /\ cr' = cr /\ tip' = tip /\ rxack' = rxack /\ irq_flag' = irq_flag
      /\ inta' = inta /\ c_state' = c_state /\ sr' = sr /\ ack_out' = ack_out /\ cmd_ack' = cmd_ack
  BY DEF vars, cpuVars, slaveVars, i2cVars
<1>2. Types' /\ Enabled' /\ Owned' /\ Requests'
  BY <1>1 DEF IInv, Types, DeviceTypes, Enabled, Owned, Requests, CtrNext
<1>3. StartsUp => StartsUp' BY <1>1 DEF StartsUp, Alone, NoWrite, Calm, Cmds
<1>4. Rests => Rests'
  BY <1>1 DEF Rests, NoWrite, Calm, Cmds, Between, StopTail, Freed, Acking, dir
<1>5. CallsAddress => CallsAddress'
  BY <1>1 DEF CallsAddress, Alone, NoWrite, Calm, Cmds, Between, StopTail, TxrNext, TipUp, c0,
     AddressFly, AddressBusy, Answered, Selected
<1>6. CallsSend => CallsSend'
  BY <1>1 DEF CallsSend, Alone, NoWrite, Calm, Cmds, TxrNext, TipUp, c0, SendFlags, Ended, SendFly, SendBusy
<1>7. CallsRead => CallsRead'
  BY <1>1 DEF CallsRead, Alone, NoWrite, Calm, Cmds, TipUp, c0, ReadFly, Got, StopTail, Freed
<1>8. ASSUME NEW d \in Direction, Addressing(d) PROVE Addressing(d)'
  <2>1. AddressFrame(d)'
    BY <1>1, <1>8 DEF Addressing, AddressFrame, Nobody, Filled, Writes, Running, NoWrite, TxrNext
  <2>2. NackAddress(d) => NackAddress(d)' BY <1>1 DEF NackAddress, Cmds, Selected
  <2>3. Unasked(d) => Unasked(d)' BY <1>1 DEF Unasked, Calm, Cmds, Silent, Only
  <2>4. Asked(d) => Asked(d)' BY <1>1 DEF Asked, AddressBusy, Selected, Cmds, Silent, Nobody, Only
  <2>5. JustAnswered(d) => JustAnswered(d)' BY <1>1 DEF JustAnswered, Answered, Selected, Nobody
  <2>6. Looks(d) => Looks(d)' BY <1>1 DEF Looks, Calm, Cmds, Selected, AckTaken, NoWrite
  <2> QED BY <1>8, <2>1, <2>2, <2>3, <2>4, <2>5, <2>6 DEF Addressing
<1>9. ASSUME ItSends PROVE ItSends'
  <2>1. CASE pc["isr"] = "none"
    BY <1>1, <1>9, <2>1 DEF ItSends, h, dir, SendFly, SendBusy, Ended, Calm, Cmds, Unflagged
  <2>2. CASE pc["isr"] \in {"irqAck", "irqDispatch"}
    BY <1>1, <1>9, <2>2 DEF ItSends, h, dir, Ended, Calm, Cmds, AckTaken
  <2>3. CASE pc["isr"] = "sequence"
    BY <1>1, <1>9, <2>3 DEF ItSends, h, dir, Ended, Calm, Cmds, NoWrite
  <2>4. CASE pc["isr"] \in {"txByte", "txLast", "txCommand", "txLastCommand"}
    BY <1>1, <1>9, <2>4 DEF ItSends, h, dir, Ended, Calm, Cmds, NoWrite, Silent, TxrNext
  <2>5. CASE pc["isr"] = "txSent"
    BY <1>1, <1>9, <2>5 DEF ItSends, h, dir, SendFly, SendBusy, Ended, Calm, Cmds, Unflagged, Silent
  <2> QED BY <1>9, <2>1, <2>2, <2>3, <2>4, <2>5 DEF ItSends
<1>10. ItReads => ItReads'
  BY <1>1 DEF ItReads, r, Taken, dir, ReadFly, Got, Calm, Cmds, Unflagged, AckTaken, NoWrite, Silent
<1> QED BY <1>2, <1>3, <1>4, <1>5, <1>6, <1>7, <1>8, <1>9, <1>10 DEF IInv, Situation, Calls

\* A step of the core, and a clock of waiting.
LEMMA StepHolds ==
  ASSUME IInv, Next
  PROVE  IInv'
<1>1. Control /\ Requests /\ Situation BY DEF IInv, Control
<1>2. ASSUME NEW c \in Bit, CpuMoves, DeviceStep(c) PROVE IInv'
  <2>1. Control' BY <1>1, <1>2, ControlMoves
  <2>2. Requests' BY <1>1, <1>2, RequestsMoves
  <2>3. Situation'
    BY <1>1, <1>2, StartsUpMoves, RestsMoves, CallsAddressMoves, CallsSendMoves, CallsReadMoves,
       AddressingMoves, ItSendsMoves, ItReadsMoves DEF Situation, Calls
  <2> QED BY <2>1, <2>2, <2>3 DEF IInv, Control
<1>3. ASSUME NEW c \in Bit, CpuWaits, DeviceStep(c) PROVE IInv'
  <2>1. Control' BY <1>1, <1>3, ControlWaits
  <2>2. Requests' BY <1>1, <1>3, RequestsWaits
  <2>3. Situation'
    BY <1>1, <1>3, StartsUpWaits, RestsWaits, CallsAddressWaits, CallsSendWaits, CallsReadWaits,
       AddressingWaits, ItSendsWaits, ItReadsWaits DEF Situation, Calls
  <2> QED BY <2>1, <2>2, <2>3 DEF IInv, Control
<1> QED BY <1>2, <1>3 DEF Next

\* The invariant of the driver.
THEOREM Situations ==
  ASSUME BOOT_WRITEBACK = FALSE
  PROVE  Spec => []IInv
<1>1. Init => IInv BY InitHolds
<1>2. IInv /\ [Next]_vars => IInv' BY StutterHolds, StepHolds
<1> QED BY <1>1, <1>2, PTL DEF Spec

------------------------------------------------------------------------------
(***************************************************************************)
(* What it says of the driver.                                             *)
(***************************************************************************)

\* A command is over when its result is looked at.
LEMMA HasResult ==
  ASSUME IInv
  PROVE  ResultIsFinal
<1>1. pc["main"] = "result" => Calls
  BY DEF IInv, Situation, StartsUp, Rests, Addressing, AddressFrame, ItSends, ItReads, Starting, InitLabel
<1>2. pc["main"] = "result" /\ Calls => Calm BY DEF Calls, CallsAddress, CallsSend, CallsRead
<1> QED BY <1>1, <1>2 DEF ResultIsFinal, Calm, Cmds

\* Where a transfer is complete.
LEMMA AtComplete ==
  ASSUME IInv, NEW t \in Thread, pc[t] = "complete", State = "READY"
  PROVE  t = "isr" /\ Rests
<1>1. t = "isr" BY DEF IInv, Types, Thread, MainLabel, InitLabel, BlockingLabel, Starting
<1>2. Rests
  BY <1>1 DEF IInv, Situation, StartsUp, Alone, Calls, CallsAddress, CallsSend, CallsRead, Addressing, AddressFrame,
     BUSY, ItSends, ItReads, Direction
<1> QED BY <1>1, <1>2

\* Where a blocking transfer is over.
LEMMA AtCallsEnd ==
  ASSUME IInv, pc["main"] \in {"stop", "iack"}
  PROVE  CallsSend \/ CallsRead
BY DEF IInv, Situation, StartsUp, Rests, Addressing, AddressFrame, ItSends, ItReads, Starting, InitLabel,
   Calls, CallsAddress

\* What was sent has arrived.
LEMMA HasSent ==
  ASSUME IInv
  PROVE  TransmitDelivers
<1>1. ASSUME pc["main"] = "iack", c0.dir = "tx", ~refused
      PROVE  sel = c0.dev /\ got = Upto(c0.size)
  <2>1. CallsSend BY <1>1, AtCallsEnd DEF CallsRead
  <2> QED BY <1>1, <2>1 DEF CallsSend, Ended
<1>2. ASSUME NEW t \in Thread, pc[t] = "complete", dir(t) = "tx", State = "READY", ~refused
      PROVE  got = Upto(IT["tx"].size)
  <2>1. t = "isr" /\ Rests BY <1>2, AtComplete
  <2> QED BY <1>2, <2>1 DEF Rests
<1> QED BY <1>1, <1>2 DEF TransmitDelivers

\* What was received is in the buffer.
LEMMA HasReceived ==
  ASSUME IInv
  PROVE  ReceiveDelivers
<1>1. ASSUME pc["main"] = "stop" PROVE buf = Upto(c0.size)
  <2>1. CallsRead BY <1>1, AtCallsEnd DEF CallsSend
  <2>2. buf = Upto(n - 1) /\ n = c0.size + 1 /\ c0.size \in Nat
    BY <1>1, <2>1, DriverAssumption DEF CallsRead, IInv, Types, c0, Call, Thread
  <2> QED BY <2>2
<1>2. ASSUME NEW t \in Thread, pc[t] = "complete", dir(t) = "rx" PROVE buf = Upto(IT["rx"].size)
  <2>1. t = "isr" BY <1>2 DEF IInv, Types, Thread, MainLabel, InitLabel, BlockingLabel, Starting
  <2>2. State = "READY"
    BY <1>2, <2>1, FlowHolds DEF IInv, Control, Flow
  <2>3. Rests BY <1>2, <2>2, AtComplete
  <2> QED BY <1>2, <2>1, <2>3 DEF Rests
<1> QED BY <1>1, <1>2 DEF ReceiveDelivers

\* The bus is free.
LEMMA HasReleased ==
  ASSUME IInv
  PROVE  BusReleased
<1>1. AtRest => Rests
  BY DEF AtRest, IInv, Situation, StartsUp, Calls, CallsAddress, CallsSend, CallsRead, Addressing, AddressFrame,
     BUSY, ItSends, ItReads, Direction, InitLabel
<1>2. AtRest /\ Rests => slave = "idle" \/ refused
  BY DEF AtRest, Rests, Freed, NoAccess, None, Write
<1> QED BY <1>1, <1>2 DEF BusReleased

\* The device that got the bytes is one of the driver's.
LEMMA HasReached ==
  ASSUME IInv, \A d, e \in Devices : d = e
  PROVE  ReachesDevice
<1>1. ASSUME NEW t \in Thread, pc[t] = "complete", dir(t) = "tx", State = "READY", ~refused
      PROVE  sel = IT["tx"].dev
  <2>1. t = "isr" /\ Rests BY <1>1, AtComplete
  <2>2. sel \in Devices /\ IT["tx"].dev \in Devices BY <1>1, <2>1 DEF Rests
  <2> QED BY <2>2
<1> QED BY <1>1 DEF ReachesDevice

(***************************************************************************)
(* The boot loader is built without write-back: it then leaves the         *)
(* interrupt flag set only after a byte that it did not acknowledge.       *)
(***************************************************************************)

\* When a blocking transfer looks at the acknowledge or at the byte it received,
\* its command is over: the nop before the poll covers the clock TIP is late.
THEOREM ResultFinal ==
  ASSUME BOOT_WRITEBACK = FALSE
  PROVE  Spec => []ResultIsFinal
<1>1. Spec => []IInv BY Situations
<1>2. IInv => ResultIsFinal BY HasResult
<1> QED BY <1>1, <1>2, PTL

\* A transmission that ends has given all its bytes, once and in order, to a
\* device, unless one was refused: whatever the interrupts do meanwhile.
THEOREM TransmitCorrect ==
  ASSUME BOOT_WRITEBACK = FALSE
  PROVE  Spec => []TransmitDelivers
<1>1. Spec => []IInv BY Situations
<1>2. IInv => TransmitDelivers BY HasSent
<1> QED BY <1>1, <1>2, PTL

\* A reception that ends has all the bytes in its buffer, in order.
THEOREM ReceiveCorrect ==
  ASSUME BOOT_WRITEBACK = FALSE
  PROVE  Spec => []ReceiveDelivers
<1>1. Spec => []IInv BY Situations
<1>2. IInv => ReceiveDelivers BY HasReceived
<1> QED BY <1>1, <1>2, PTL

\* At rest the wires are free, unless a data byte was refused.
THEOREM ReleaseCorrect ==
  ASSUME BOOT_WRITEBACK = FALSE
  PROVE  Spec => []BusReleased
<1>1. Spec => []IInv BY Situations
<1>2. IInv => BusReleased BY HasReleased
<1> QED BY <1>1, <1>2, PTL

\* With one device, the transmission reaches the one it names.
THEOREM ReachesTheOnlyDevice ==
  ASSUME BOOT_WRITEBACK = FALSE, \A d, e \in Devices : d = e
  PROVE  Spec => []ReachesDevice
<1>1. Spec => []IInv BY Situations
<1>2. IInv => ReachesDevice BY HasReached
<1> QED BY <1>1, <1>2, PTL
===============================================================================
