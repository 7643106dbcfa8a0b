------------------------------- MODULE Eeprom --------------------------------
(***************************************************************************)
(* The 24CS512 boot EEPROM, byte by byte, as its simulation model          *)
(* (tb/misc/24CS512.sv) behaves for EEPROM accesses: device address, two   *)
(* address bytes, page writes that commit after a STOP and keep the device *)
(* deaf for the write cycle, sequential reads.                             *)
(***************************************************************************)
EXTENDS Naturals

CONSTANTS
  Radix,               \* 256 in the code: byte values are 0 .. Radix-1
  PageBytes,           \* bytes of a write page (128 in the code)
  EepromBytes,         \* bytes of the device (2^16 in the code)
  EEPROM_ADDR_PLUS_W_BIT, EEPROM_ADDR_PLUS_R_BIT,
  EepromInit           \* contents at power-on, the boot image included

EepByte == 0 .. Radix - 1
EepAddr == 0 .. EepromBytes - 1
PageOffset == 0 .. PageBytes - 1

ASSUME EepromAssumption ==
  /\ Radix \in Nat \ {0} /\ PageBytes \in Nat \ {0} /\ EepromBytes \in Nat \ {0}
  /\ EepromBytes % PageBytes = 0 /\ EepromBytes <= Radix * Radix
  /\ EEPROM_ADDR_PLUS_W_BIT \in EepByte
  /\ EEPROM_ADDR_PLUS_R_BIT \in EepByte
  /\ EEPROM_ADDR_PLUS_W_BIT # EEPROM_ADDR_PLUS_R_BIT
  /\ EepromInit \in [EepAddr -> EepByte]

VARIABLES
  ee_st,               \* what the next byte is: see EepState
  ee_ptr,              \* AddressPointer
  ee_buf,              \* PageBuffer, defined where BufferWrFlags is set
  ee_act,              \* WriteActive
  ee_mem,              \* MemoryBlock
  ee_sda               \* acknowledge bit it drives after a received byte

eeVars == <<ee_st, ee_ptr, ee_buf, ee_act, ee_mem, ee_sda>>

EepState == {"off", "ctrl", "adhi", "adlo", "data", "read"}

EepTypeOK ==
  /\ ee_st \in EepState
  /\ ee_ptr \in EepAddr
  /\ DOMAIN ee_buf \subseteq PageOffset
  /\ \A o \in DOMAIN ee_buf : ee_buf[o] \in EepByte
  /\ ee_act \in {0, 1}
  /\ ee_mem \in [EepAddr -> EepByte]
  /\ ee_sda \in {0, 1}

NoBytes == [o \in {} |-> 0]

(***************************************************************************)
(* The microcontroller may come out of reset at any time: the EEPROM can   *)
(* be in the middle of a write cycle or of a command that was cut short.   *)
(***************************************************************************)
EepInit ==
  /\ ee_st \in EepState \ {"read"}
  /\ ee_act \in {0, 1}
  /\ ee_ptr = 0 /\ ee_buf = NoBytes /\ ee_sda = 1
  /\ ee_mem = EepromInit

(***************************************************************************)
(* Bytes received.  ee_sda = 0 acknowledges.                               *)
(***************************************************************************)
RecvControl(b) ==
  /\ ee_st = "ctrl"
  /\ \/ /\ ee_act = 0 /\ b = EEPROM_ADDR_PLUS_W_BIT
        /\ ee_st' = "adhi" /\ ee_sda' = 0 /\ ee_buf' = NoBytes
     \/ /\ ee_act = 0 /\ b = EEPROM_ADDR_PLUS_R_BIT
        /\ ee_st' = "read" /\ ee_sda' = 0 /\ UNCHANGED ee_buf
     \/ /\ ee_act = 1 \/ b \notin {EEPROM_ADDR_PLUS_W_BIT, EEPROM_ADDR_PLUS_R_BIT}
        /\ ee_st' = "off" /\ ee_sda' = 1 /\ UNCHANGED ee_buf
  /\ UNCHANGED ee_ptr

RecvAddress(b) ==
  /\ \/ /\ ee_st = "adhi" /\ ee_st' = "adlo"
        /\ ee_ptr' = (b * Radix + (ee_ptr % Radix)) % EepromBytes
     \/ /\ ee_st = "adlo" /\ ee_st' = "data"
        /\ ee_ptr' = ((ee_ptr \div Radix) * Radix + b) % EepromBytes
  /\ ee_sda' = 0
  /\ UNCHANGED ee_buf

PageBase == ee_ptr - (ee_ptr % PageBytes)

RecvData(b) ==
  /\ ee_st = "data"
  /\ LET at == ee_ptr % PageBytes IN
       /\ ee_buf' = [o \in DOMAIN ee_buf \cup {at} |-> IF o = at THEN b ELSE ee_buf[o]]
       /\ ee_ptr' = PageBase + ((at + 1) % PageBytes)
  /\ ee_sda' = 0
  /\ UNCHANGED ee_st

RecvIgnored ==
  /\ ee_st \in {"off", "read"}
  /\ ee_sda' = 1
  /\ UNCHANGED <<ee_st, ee_ptr, ee_buf>>

RecvByte(b) == RecvControl(b) \/ RecvAddress(b) \/ RecvData(b) \/ RecvIgnored

(***************************************************************************)
(* The byte it puts on the bus when the master reads.  A line nobody       *)
(* drives reads as all ones.                                               *)
(***************************************************************************)
EepTx == IF ee_st = "read" THEN ee_mem[ee_ptr] ELSE Radix - 1

MasterAck(ev) ==
  /\ \/ /\ ee_st = "read"
        /\ ee_ptr' = (ee_ptr + 1) % EepromBytes
        /\ ee_st' = IF ev = "nack" THEN "off" ELSE "read"
     \/ ee_st # "read" /\ UNCHANGED <<ee_st, ee_ptr>>
  /\ UNCHANGED <<ee_buf, ee_sda>>

(***************************************************************************)
(* A STOP after at least one data byte starts the write cycle, at the end  *)
(* of which the bytes received land in the page.                           *)
(***************************************************************************)
StopCommits == ee_st = "data" /\ DOMAIN ee_buf # {}

CommitPage ==
  [a \in EepAddr |->
     IF a - (a % PageBytes) = PageBase /\ (a % PageBytes) \in DOMAIN ee_buf
     THEN ee_buf[a % PageBytes] ELSE ee_mem[a]]

EepStep(ev, b, wr_done) ==
  /\ \/ ev = "none" /\ UNCHANGED <<ee_st, ee_ptr, ee_buf, ee_sda>>
     \/ ev = "start" /\ ee_st' = "ctrl" /\ UNCHANGED <<ee_ptr, ee_buf, ee_sda>>
     \/ ev = "byte" /\ RecvByte(b)
     \/ ev \in {"ack", "nack"} /\ MasterAck(ev)
     \/ ev = "stop" /\ ee_st' = "off" /\ UNCHANGED <<ee_ptr, ee_buf, ee_sda>>
  /\ \/ /\ ee_act = 1 /\ wr_done = 1
        /\ ee_act' = 0 /\ ee_mem' = CommitPage
     \/ /\ ee_act = 1 /\ wr_done = 0
        /\ UNCHANGED <<ee_act, ee_mem>>
     \/ /\ ee_act = 0
        /\ ee_act' = IF ev = "stop" /\ StopCommits THEN 1 ELSE 0
        /\ UNCHANGED ee_mem
==============================================================================
