------------------------------ MODULE I2cMaster ------------------------------
(***************************************************************************)
(* The OpenCores I2C master (i2c_master_top.v, i2c_master_byte_ctrl.v) one *)
(* clock cycle at a time.  The bit controller is abstracted to one phase   *)
(* per START, byte, acknowledge bit and STOP; how many cycles a phase      *)
(* lasts (prescaler, clock stretching) is left open by the input core_ack, *)
(* which is 1 in the cycle that ends a phase.                              *)
(*                                                                         *)
(* The module is a component of a synchronous design: I2cStep fixes the    *)
(* next value of every register below from their present values and from   *)
(* the wires it is given, and a composition conjoins it with the steps of  *)
(* the other components.                                                   *)
(*                                                                         *)
(* There is one master on the bus, so arbitration is never lost.           *)
(***************************************************************************)
EXTENDS Naturals

CONSTANT Byte          \* the values of a data byte

ASSUME ByteAssumption == 0 \in Byte

VARIABLES
  ctr,                 \* control register: subset of {"EN", "IEN"}
  txr,                 \* transmit register
  cr,                  \* command register: the set of its bits that are 1
  tip, rxack,          \* status bits, registered copies of cr and ack_out
  irq_flag, inta,      \* interrupt flag, and the request it raises with IEN
  c_state,             \* byte controller state, see Phase
  sr,                  \* shift register: the byte sent, then the byte received
  ack_out,             \* acknowledge bit seen at the end of the last byte
  cmd_ack              \* "done": 1 for the cycle after a command completes

i2cVars == <<ctr, txr, cr, tip, rxack, irq_flag, inta, c_state, sr, ack_out, cmd_ack>>

Bit == {0, 1}
Command == {"STA", "STO", "RD", "WR"}          \* cr[7:4]
CrBit == Command \cup {"ACK", "IACK"}
CtrBit == {"EN", "IEN"}
WriteAddress == {"none", "CTR", "TXR", "CR"}

(***************************************************************************)
(* ST_ACK is two phases here: after a byte that was sent the master reads  *)
(* the slave's acknowledge (RXACK), after one it received it drives its    *)
(* own, cr[3] (TXACK).                                                     *)
(***************************************************************************)
Phase == {"START", "READ", "WRITE", "RXACK", "TXACK", "STOP"}

I2cTypeOK ==
  /\ ctr \in SUBSET CtrBit
  /\ txr \in Byte
  /\ cr \in SUBSET CrBit
  /\ tip \in Bit /\ rxack \in Bit
  /\ irq_flag \in Bit /\ inta \in Bit
  /\ c_state \in Phase \cup {"IDLE"}
  /\ sr \in Byte
  /\ ack_out \in Bit /\ cmd_ack \in Bit

I2cInit ==
  /\ ctr = {} /\ txr = 0 /\ cr = {}
  /\ tip = 0 /\ rxack = 0 /\ irq_flag = 0 /\ inta = 0
  /\ c_state = "IDLE" /\ sr = 0 /\ ack_out = 0 /\ cmd_ack = 0

I2cReset ==
  /\ ctr' = {} /\ txr' = 0 /\ cr' = {}
  /\ tip' = 0 /\ rxack' = 0 /\ irq_flag' = 0 /\ inta' = 0
  /\ c_state' = "IDLE" /\ sr' = 0 /\ ack_out' = 0 /\ cmd_ack' = 0

One(p) == IF p THEN 1 ELSE 0

(***************************************************************************)
(* The status register: the bits the bootloader polls.                     *)
(***************************************************************************)
StatusBit == {"RXACK", "TIP", "IF"}

Status == {b \in StatusBit : \/ b = "RXACK" /\ rxack = 1
                             \/ b = "TIP" /\ tip = 1
                             \/ b = "IF" /\ irq_flag = 1}

(***************************************************************************)
(* A write access lands in the cycle that acknowledges it.  Any access,    *)
(* to whatever register, hides a command completing in the same cycle; and *)
(* a command is taken only while the core is enabled.                      *)
(***************************************************************************)
WriteRegisters(wadr, wdat) ==
  /\ ctr' = IF wadr = "CTR" THEN wdat ELSE ctr
  /\ txr' = IF wadr = "TXR" THEN wdat ELSE txr

TakesCommand(wadr) == wadr = "CR" /\ "EN" \in ctr

CommandRegister(wadr, wdat) ==
  \/ TakesCommand(wadr) /\ cr' = wdat
  \/ wadr # "none" /\ ~TakesCommand(wadr) /\ cr' = cr
  \/ wadr = "none" /\ cmd_ack = 1 /\ cr' = cr \ (Command \cup {"IACK"})
  \/ wadr = "none" /\ cmd_ack = 0 /\ cr' = cr \ {"IACK"}

StatusRegisters ==
  /\ tip' = One(cr \cap {"RD", "WR"} # {})
  /\ rxack' = ack_out
  /\ irq_flag' = One((cmd_ack = 1 \/ irq_flag = 1) /\ "IACK" \notin cr)
  /\ inta' = One(irq_flag = 1 /\ "IEN" \in ctr)

(***************************************************************************)
(* The byte controller.                                                    *)
(***************************************************************************)
Go == cr \cap {"RD", "WR", "STO"} # {} /\ cmd_ack = 0

Rest ==
  /\ c_state = "IDLE" /\ ~Go
  /\ cmd_ack' = 0
  /\ UNCHANGED <<c_state, sr, ack_out>>

FirstPhase ==
  IF "STA" \in cr THEN "START"
  ELSE IF "RD" \in cr THEN "READ"
  ELSE IF "WR" \in cr THEN "WRITE" ELSE "STOP"

BeginCommand ==
  /\ c_state = "IDLE" /\ Go
  /\ c_state' = FirstPhase
  /\ sr' = txr
  /\ cmd_ack' = 0
  /\ UNCHANGED ack_out

WaitPhase(core_ack) ==
  /\ c_state # "IDLE" /\ core_ack = 0
  /\ cmd_ack' = 0
  /\ UNCHANGED <<c_state, sr, ack_out>>

EndStart(core_ack) ==
  /\ c_state = "START" /\ core_ack = 1
  /\ c_state' = IF "RD" \in cr THEN "READ" ELSE "WRITE"
  /\ sr' = txr
  /\ cmd_ack' = 0
  /\ UNCHANGED ack_out

EndWrite(core_ack) ==
  /\ c_state = "WRITE" /\ core_ack = 1
  /\ c_state' = "RXACK"
  /\ cmd_ack' = 0
  /\ UNCHANGED <<sr, ack_out>>

EndRead(core_ack, rx) ==
  /\ c_state = "READ" /\ core_ack = 1
  /\ c_state' = "TXACK"
  /\ sr' = rx
  /\ cmd_ack' = 0
  /\ UNCHANGED ack_out

AckIn == One("ACK" \in cr)

EndAck(core_ack, sda) ==
  /\ c_state \in {"RXACK", "TXACK"} /\ core_ack = 1
  /\ c_state' = IF "STO" \in cr THEN "STOP" ELSE "IDLE"
  /\ cmd_ack' = One("STO" \notin cr)
  /\ ack_out' = IF c_state = "TXACK" THEN AckIn ELSE sda
  /\ UNCHANGED sr

EndStop(core_ack) ==
  /\ c_state = "STOP" /\ core_ack = 1
  /\ c_state' = "IDLE"
  /\ cmd_ack' = 1
  /\ UNCHANGED <<sr, ack_out>>

ByteController(core_ack, rx, sda) ==
  \/ Rest
  \/ BeginCommand
  \/ WaitPhase(core_ack)
  \/ EndStart(core_ack)
  \/ EndWrite(core_ack)
  \/ EndRead(core_ack, rx)
  \/ EndAck(core_ack, sda)
  \/ EndStop(core_ack)

(***************************************************************************)
(* What a slave sees of the phase that ends in this cycle.                 *)
(***************************************************************************)
BusEvent(core_ack) ==
  IF core_ack = 0 THEN "none"
  ELSE IF c_state = "START" THEN "start"
  ELSE IF c_state = "WRITE" THEN "byte"
  ELSE IF c_state = "TXACK" THEN (IF AckIn = 1 THEN "nack" ELSE "ack")
  ELSE IF c_state = "STOP" THEN "stop" ELSE "none"

I2cStep(core_ack, rx, sda, wadr, wdat) ==
  /\ ByteController(core_ack, rx, sda)
  /\ WriteRegisters(wadr, wdat)
  /\ CommandRegister(wadr, wdat)
  /\ StatusRegisters
==============================================================================
