----------------------------- MODULE Bootloader ------------------------------
(***************************************************************************)
(* The three-layer boot loader, cycle by cycle: bootloader_top (which word *)
(* or byte is next), i2c_access_fsm (the register accesses of one byte),   *)
(* wb_access_fsm (one Wishbone access), with the slaves they reach: the    *)
(* I2C master, the EEPROM behind it, and the instruction and data SRAM.    *)
(* It is the build without BOOT_SKIP; BOOT_WRITEBACK is a constant.        *)
(*                                                                         *)
(* The design is synchronous, so a clock edge is one action, the           *)
(* conjunction of the steps of the components.  The core is held in reset  *)
(* until the end, so the boot loader has the bus to itself and the         *)
(* interconnect passes its signals through.                                *)
(***************************************************************************)
EXTENDS I2cMaster, Eeprom

CONSTANTS
  BOOT_WRITEBACK,              \* write the image back to the EEPROM after loading it
  IMEM_SIZE, DMEM_SIZE,        \* bytes
  IMEM_BASE_ADDR, DMEM_BASE_ADDR,
  EEPROM_READ_ADDR, EEPROM_WRITE_ADDR,
  SramInit,                    \* what the SRAM powers up with
  MaxResets                    \* bound on the resets in a behaviour

TOTAL == IMEM_SIZE + DMEM_SIZE
PageWords == PageBytes \div 4
Lane == 0 .. 3
Word == [Lane -> Byte]
WordAligned(S) == {a \in S : a % 4 = 0}
SramAddr == WordAligned(IMEM_BASE_ADDR .. IMEM_BASE_ADDR + IMEM_SIZE - 1)
              \cup WordAligned(DMEM_BASE_ADDR .. DMEM_BASE_ADDR + DMEM_SIZE - 1)

ASSUME BootAssumption ==
  /\ BOOT_WRITEBACK \in BOOLEAN
  /\ Byte = EepByte
  /\ IMEM_SIZE \in Nat \ {0} /\ IMEM_SIZE % 4 = 0
  /\ DMEM_SIZE \in Nat \ {0} /\ DMEM_SIZE % 4 = 0
  /\ IMEM_BASE_ADDR \in Nat /\ IMEM_BASE_ADDR % 4 = 0
  /\ DMEM_BASE_ADDR \in Nat /\ DMEM_BASE_ADDR % 4 = 0
  /\ IMEM_BASE_ADDR + IMEM_SIZE <= DMEM_BASE_ADDR
  /\ EEPROM_READ_ADDR \in EepAddr
  /\ EEPROM_WRITE_ADDR \in EepAddr
  /\ PageBytes % 4 = 0
  /\ SramInit \in [SramAddr -> Word]
  /\ MaxResets \in Nat

(***************************************************************************)
(* How boot_defs.svh lays out the EEPROM: the image fits, the copy that    *)
(* the write-back makes is page-aligned, a whole number of pages, fits and *)
(* does not overlap the image.                                             *)
(***************************************************************************)
ASSUME LayoutAssumption ==
  /\ EEPROM_READ_ADDR + TOTAL <= EepromBytes
  /\ EepromBytes % Radix = 0
  /\ BOOT_WRITEBACK =>
       /\ EEPROM_WRITE_ADDR % PageBytes = 0 /\ TOTAL % PageBytes = 0
       /\ EEPROM_WRITE_ADDR + TOTAL <= EepromBytes
       /\ \/ EEPROM_READ_ADDR + TOTAL <= EEPROM_WRITE_ADDR
          \/ EEPROM_WRITE_ADDR + TOTAL <= EEPROM_READ_ADDR

VARIABLES
  top,                         \* bootloader_top.state
  mem_index, addr_pointer, page_buffer_index, data_word, rst_core_n,
  fsm,                         \* i2c_access_fsm.state
  wb,                          \* wb_access_fsm.state
  rd_sr, rd_byte, rd_word,     \* rdata: the last status, RXR and SRAM read
  i2c_ack, sram_ack,           \* the slaves' Wishbone acknowledges
  sram,
  resets                       \* resets so far

topVars == <<top, mem_index, addr_pointer, page_buffer_index, data_word, rst_core_n>>
wbVars == <<wb, rd_sr, rd_byte, rd_word, i2c_ack, sram_ack>>
vars == <<topVars, fsm, wbVars, sram, resets, i2cVars, eeVars>>

ReadByteState == <<"READ_DATA_BYTE0", "READ_DATA_BYTE1", "READ_DATA_BYTE2", "READ_DATA_BYTE3">>
WriteByteState == <<"WRITE_DATA_BYTE0", "WRITE_DATA_BYTE1", "WRITE_DATA_BYTE2", "WRITE_DATA_BYTE3">>
ReadData == {ReadByteState[k] : k \in 1 .. 4}
WriteData == {WriteByteState[k] : k \in 1 .. 4}
TopState ==
  {"WRITE_SLAVE_ADDR_W_BIT", "WRITE_WORD_ADDR_BYTE0", "WRITE_WORD_ADDR_BYTE1",
   "WRITE_SLAVE_ADDR_R_BIT", "WRITE_MEM", "READ_MEM", "BOOT_FINISH"} \cup ReadData \cup WriteData
FsmState ==
  {"I2C_ENABLE", "IDLE", "WRITE_TXR", "WRITE_CR_FOR_WRITE_OP", "WRITE_CR_FOR_READ_OP", "POLL_TIP",
   "READ_ACK", "READ_TXR", "WRITE_CR_STOP_READ_OP", "SRAM_WRITE", "SRAM_READ", "DONE_STATE"}
WbState == {"IDLE", "ISSUE", "WAIT_ACK", "DONE"}

(***************************************************************************)
(* bootloader_top: the request it makes in each state.                     *)
(***************************************************************************)
start == top # "BOOT_FINISH"
we == top \notin ReadData \cup {"READ_MEM"}
sram_access == top \in {"WRITE_MEM", "READ_MEM"}
last_read_TooLate == mem_index = TOTAL
last_read == mem_index = TOTAL - 4
page_full == page_buffer_index = PageWords - 1
generate_STA == top \in {"WRITE_SLAVE_ADDR_W_BIT", "WRITE_SLAVE_ADDR_R_BIT"}
generate_NACK_Dropped == FALSE
generate_NACK == top = "READ_DATA_BYTE3" /\ last_read
generate_STO_Dropped == FALSE
generate_STO == top = "WRITE_DATA_BYTE3" /\ page_full

mem_addr == IF mem_index < IMEM_SIZE THEN IMEM_BASE_ADDR + mem_index
                                     ELSE DMEM_BASE_ADDR + mem_index - IMEM_SIZE

w_byte ==
  IF top = "WRITE_SLAVE_ADDR_W_BIT" THEN EEPROM_ADDR_PLUS_W_BIT
  ELSE IF top = "WRITE_SLAVE_ADDR_R_BIT" THEN EEPROM_ADDR_PLUS_R_BIT
  ELSE IF top = "WRITE_WORD_ADDR_BYTE0" THEN addr_pointer \div Radix
  ELSE IF top = "WRITE_WORD_ADDR_BYTE1" THEN addr_pointer % Radix
  ELSE IF top = "WRITE_DATA_BYTE0" THEN data_word[0]
  ELSE IF top = "WRITE_DATA_BYTE1" THEN data_word[1]
  ELSE IF top = "WRITE_DATA_BYTE2" THEN data_word[2] ELSE data_word[3]

(***************************************************************************)
(* bootloader_top: its transitions, taken when i2c_access_fsm is done.     *)
(***************************************************************************)
done_PerAccess == wb = "DONE"
done == fsm = "DONE_STATE"

GoTo(from, to) == top = from /\ done /\ top' = to

SlaveAddrW ==
  /\ GoTo("WRITE_SLAVE_ADDR_W_BIT", "WRITE_WORD_ADDR_BYTE0")
  /\ UNCHANGED <<mem_index, addr_pointer, page_buffer_index, data_word, rst_core_n>>

WordAddr0 ==
  /\ GoTo("WRITE_WORD_ADDR_BYTE0", "WRITE_WORD_ADDR_BYTE1")
  /\ UNCHANGED <<mem_index, addr_pointer, page_buffer_index, data_word, rst_core_n>>

WordAddr1 ==
  /\ GoTo("WRITE_WORD_ADDR_BYTE1",
          IF mem_index > 0 THEN "READ_MEM" ELSE "WRITE_SLAVE_ADDR_R_BIT")
  /\ mem_index' = IF mem_index = TOTAL THEN 0 ELSE mem_index
  /\ UNCHANGED <<addr_pointer, page_buffer_index, data_word, rst_core_n>>

SlaveAddrR ==
  /\ GoTo("WRITE_SLAVE_ADDR_R_BIT", "READ_DATA_BYTE0")
  /\ UNCHANGED <<mem_index, addr_pointer, page_buffer_index, data_word, rst_core_n>>

ReadDataByte_BigEndian ==
  \E k \in Lane :
    /\ GoTo(ReadByteState[k + 1], IF k = 3 THEN "WRITE_MEM" ELSE ReadByteState[k + 2])
    /\ data_word' = [data_word EXCEPT ![3 - k] = rd_byte]
    /\ UNCHANGED <<mem_index, addr_pointer, page_buffer_index, rst_core_n>>
ReadDataByte ==
  \E k \in Lane :
    /\ GoTo(ReadByteState[k + 1], IF k = 3 THEN "WRITE_MEM" ELSE ReadByteState[k + 2])
    /\ data_word' = [data_word EXCEPT ![k] = rd_byte]
    /\ UNCHANGED <<mem_index, addr_pointer, page_buffer_index, rst_core_n>>

AfterLastRead == IF BOOT_WRITEBACK THEN "WRITE_SLAVE_ADDR_W_BIT" ELSE "BOOT_FINISH"

WriteMem ==
  /\ GoTo("WRITE_MEM", IF last_read THEN AfterLastRead ELSE "READ_DATA_BYTE0")
  /\ mem_index' = mem_index + 4
  /\ addr_pointer' = EEPROM_WRITE_ADDR
  /\ UNCHANGED <<page_buffer_index, data_word, rst_core_n>>

ReadMem ==
  /\ GoTo("READ_MEM", "WRITE_DATA_BYTE0")
  /\ mem_index' = mem_index + 4
  /\ data_word' = rd_word
  /\ UNCHANGED <<addr_pointer, page_buffer_index, rst_core_n>>

WriteDataByte ==
  \E k \in 0 .. 2 :
    /\ GoTo(WriteByteState[k + 1], WriteByteState[k + 2])
    /\ UNCHANGED <<mem_index, addr_pointer, page_buffer_index, data_word, rst_core_n>>

NextPage_SkipsOne == (addr_pointer + 2 * PageBytes) % (Radix * Radix)
NextPage == (addr_pointer + PageBytes) % (Radix * Radix)

LastDataByte ==
  /\ \/ /\ mem_index = TOTAL
        /\ GoTo("WRITE_DATA_BYTE3", "BOOT_FINISH")
        /\ UNCHANGED <<addr_pointer, page_buffer_index>>
     \/ /\ mem_index # TOTAL /\ page_full
        /\ GoTo("WRITE_DATA_BYTE3", "WRITE_SLAVE_ADDR_W_BIT")
        /\ page_buffer_index' = 0
        /\ addr_pointer' = NextPage
     \/ /\ mem_index # TOTAL /\ ~page_full
        /\ GoTo("WRITE_DATA_BYTE3", "READ_MEM")
        /\ page_buffer_index' = page_buffer_index + 1
        /\ UNCHANGED addr_pointer
  /\ UNCHANGED <<mem_index, data_word, rst_core_n>>

Finish ==
  /\ top = "BOOT_FINISH"
  /\ rst_core_n' = 1
  /\ UNCHANGED <<top, mem_index, addr_pointer, page_buffer_index, data_word>>

TopHold ==
  /\ top # "BOOT_FINISH" /\ ~done
  /\ UNCHANGED topVars

TopStep ==
  \/ SlaveAddrW \/ WordAddr0 \/ WordAddr1 \/ SlaveAddrR
  \/ ReadDataByte \/ WriteMem
  \/ ReadMem \/ WriteDataByte \/ LastDataByte
  \/ Finish \/ TopHold

(***************************************************************************)
(* i2c_access_fsm: one byte over I2C, or one SRAM access, as a series of   *)
(* Wishbone accesses.  A status read that shows RXACK repeats the byte.    *)
(***************************************************************************)
wb_done == wb = "DONE"

Access(from, to) == fsm = from /\ wb_done /\ fsm' = to

StartByte ==
  /\ fsm = "IDLE" /\ start
  /\ \/ sram_access /\ fsm' = IF we THEN "SRAM_WRITE" ELSE "SRAM_READ"
     \/ ~sram_access /\ fsm' = IF we THEN "WRITE_TXR" ELSE "WRITE_CR_FOR_READ_OP"

PollTip_Once == Access("POLL_TIP", IF we THEN "READ_ACK" ELSE "READ_TXR")
PollTip ==
  \/ "TIP" \in rd_sr /\ Access("POLL_TIP", "POLL_TIP")
  \/ "TIP" \notin rd_sr /\ Access("POLL_TIP", IF we THEN "READ_ACK" ELSE "READ_TXR")

CheckAck_Ignored == Access("READ_ACK", "DONE_STATE")
CheckAck_NoResend ==
  \/ "RXACK" \in rd_sr /\ Access("READ_ACK", "POLL_TIP")
  \/ "RXACK" \notin rd_sr /\ Access("READ_ACK", "DONE_STATE")
CheckAck ==
  \/ "RXACK" \in rd_sr /\ Access("READ_ACK", "WRITE_TXR")
  \/ "RXACK" \notin rd_sr /\ Access("READ_ACK", "DONE_STATE")

FsmHold ==
  /\ \/ fsm = "IDLE" /\ ~start
     \/ fsm \notin {"IDLE", "DONE_STATE"} /\ ~wb_done
  /\ UNCHANGED fsm

FsmStep ==
  \/ Access("I2C_ENABLE", "IDLE")
  \/ StartByte
  \/ Access("WRITE_TXR", "WRITE_CR_FOR_WRITE_OP")
  \/ Access("WRITE_CR_FOR_WRITE_OP", "POLL_TIP")
  \/ Access("WRITE_CR_FOR_READ_OP", "POLL_TIP")
  \/ PollTip
  \/ CheckAck
  \/ Access("READ_TXR", "DONE_STATE")
  \/ last_read /\ Access("SRAM_WRITE", "WRITE_CR_STOP_READ_OP")
  \/ ~last_read /\ Access("SRAM_WRITE", "DONE_STATE")
  \/ Access("WRITE_CR_STOP_READ_OP", "DONE_STATE")
  \/ Access("SRAM_READ", "DONE_STATE")
  \/ fsm = "DONE_STATE" /\ fsm' = "IDLE"
  \/ FsmHold

(***************************************************************************)
(* The register (or the SRAM) an access is for, and what it writes.        *)
(***************************************************************************)
WriteCommand ==
  {"WRITE_CR_FOR_WRITE_OP", "WRITE_CR_FOR_READ_OP", "WRITE_CR_STOP_READ_OP"}

wb_addr ==
  IF fsm = "I2C_ENABLE" THEN "CTR"
  ELSE IF fsm = "WRITE_TXR" THEN "TXR"
  ELSE IF fsm \in WriteCommand THEN "CR"
  ELSE IF fsm \in {"POLL_TIP", "READ_ACK"} THEN "SR"
  ELSE IF fsm = "READ_TXR" THEN "RXR" ELSE "SRAM"

wb_we == fsm \in {"I2C_ENABLE", "WRITE_TXR", "SRAM_WRITE"} \cup WriteCommand

Flag(p, b) == IF p THEN {b} ELSE {}

command ==
  IF fsm = "WRITE_CR_FOR_WRITE_OP"
  THEN {"WR"} \cup Flag(generate_STA, "STA") \cup Flag(generate_STO, "STO")
  ELSE IF fsm = "WRITE_CR_FOR_READ_OP" THEN {"RD"} \cup Flag(generate_NACK, "ACK")
  ELSE {"STO"}

(***************************************************************************)
(* wb_access_fsm: strobe and cycle are high in ISSUE and in WAIT_ACK.      *)
(* rdata is what the slave holds in the first of the two cycles; nothing   *)
(* looks at it before DONE.                                                *)
(***************************************************************************)
stb == wb \in {"ISSUE", "WAIT_ACK"}
ack == i2c_ack = 1 \/ sram_ack = 1
to_sram == wb_addr = "SRAM"

WbStep ==
  \/ wb = "IDLE" /\ fsm \notin {"IDLE", "DONE_STATE"} /\ wb' = "ISSUE"
  \/ wb = "IDLE" /\ fsm \in {"IDLE", "DONE_STATE"} /\ UNCHANGED wb
  \/ wb = "ISSUE" /\ wb' = "WAIT_ACK"
  \/ wb = "WAIT_ACK" /\ ack /\ wb' = "DONE"
  \/ wb = "WAIT_ACK" /\ ~ack /\ UNCHANGED wb
  \/ wb = "DONE" /\ wb' = "IDLE"

Sampled(a) == wb = "ISSUE" /\ ~wb_we /\ wb_addr = a

ReadData_Step ==
  /\ rd_sr' = IF Sampled("SR") THEN Status ELSE rd_sr
  /\ rd_byte' = IF Sampled("RXR") THEN sr ELSE rd_byte
  /\ rd_word' = IF Sampled("SRAM") THEN sram[mem_addr] ELSE rd_word

(***************************************************************************)
(* The slaves.  The SRAM acknowledges every strobe and takes a write in    *)
(* each strobed cycle; the I2C master acknowledges every other cycle and   *)
(* takes the write in the cycle of its acknowledge.                        *)
(***************************************************************************)
SramStep ==
  /\ sram_ack' = One(stb /\ to_sram)
  /\ sram' = IF stb /\ to_sram /\ wb_we THEN [sram EXCEPT ![mem_addr] = data_word] ELSE sram

I2cAckStep == i2c_ack' = One(stb /\ ~to_sram /\ i2c_ack = 0)

i2c_wadr == IF stb /\ ~to_sram /\ wb_we /\ i2c_ack = 1 THEN wb_addr ELSE "none"
i2c_wdat == IF i2c_wadr = "CTR" THEN {"EN"} ELSE IF i2c_wadr = "TXR" THEN w_byte ELSE command

(***************************************************************************)
(* One clock edge.  core_ack ends an I2C phase, wr_done the EEPROM's write *)
(* cycle: both come from the time those take, which is left open.          *)
(***************************************************************************)
Clock(core_ack, wr_done) ==
  /\ TopStep
  /\ FsmStep
  /\ WbStep
  /\ ReadData_Step
  /\ SramStep
  /\ I2cAckStep
  /\ I2cStep(core_ack, EepTx, ee_sda, i2c_wadr, i2c_wdat)
  /\ EepStep(BusEvent(core_ack), sr, wr_done)
  /\ UNCHANGED resets

(***************************************************************************)
(* Reset.  The EEPROM has no reset line: it keeps its state, and may take  *)
(* the release of SDA for a STOP.  A reset while the EEPROM may drive SDA  *)
(* is a bit-level matter and is left out: it drives data from the          *)
(* acknowledge of a read control byte to the master's not-acknowledge, and *)
(* it drives the acknowledge of a byte it takes.                           *)
(***************************************************************************)
MasterInit ==
  /\ top = "WRITE_SLAVE_ADDR_W_BIT"
  /\ mem_index = 0 /\ rst_core_n = 0 /\ page_buffer_index = 0
  /\ data_word = [k \in Lane |-> 0]
  /\ addr_pointer = EEPROM_READ_ADDR
  /\ fsm = "I2C_ENABLE" /\ wb = "IDLE"
  /\ rd_sr \in SUBSET StatusBit /\ rd_byte = 0 /\ rd_word = [k \in Lane |-> 0]
  /\ i2c_ack = 0 /\ sram_ack = 0
  /\ I2cInit

MasterReset ==
  /\ top' = "WRITE_SLAVE_ADDR_W_BIT"
  /\ mem_index' = 0 /\ rst_core_n' = 0 /\ page_buffer_index' = 0
  /\ data_word' = [k \in Lane |-> 0]
  /\ addr_pointer' = EEPROM_READ_ADDR
  /\ fsm' = "I2C_ENABLE" /\ wb' = "IDLE"
  /\ UNCHANGED rd_sr /\ rd_byte' = 0 /\ rd_word' = [k \in Lane |-> 0]
  /\ i2c_ack' = 0 /\ sram_ack' = 0
  /\ I2cReset

Init ==
  /\ MasterInit
  /\ EepInit
  /\ sram = SramInit
  /\ resets = 0

EepDrivesSda == ee_st = "read" \/ (c_state = "RXACK" /\ ee_sda = 0)

Reset ==
  /\ resets < MaxResets /\ resets' = resets + 1
  /\ ~EepDrivesSda
  /\ MasterReset
  /\ UNCHANGED sram
  /\ \E ev \in {"none", "stop"} : EepStep(ev, 0, 0)

Next == Reset \/ \E core_ack, wr_done \in Bit : Clock(core_ack, wr_done)

(***************************************************************************)
(* The clock runs, an I2C phase lasts a bounded number of cycles and so    *)
(* does the EEPROM's write cycle.                                          *)
(***************************************************************************)
PhaseEnds == c_state # "IDLE" /\ \E wr_done \in Bit : Clock(1, wr_done)
WriteCycleEnds == ee_act = 1 /\ \E core_ack \in Bit : Clock(core_ack, 1)

Spec == Init /\ [][Next]_vars
FairSpec ==
  /\ Spec
  /\ WF_vars(\E core_ack, wr_done \in Bit : Clock(core_ack, wr_done))
  /\ WF_vars(PhaseEnds)
  /\ WF_vars(WriteCycleEnds)

------------------------------------------------------------------------------
(***************************************************************************)
(* Every register stays in its range: in particular mem_index and so the   *)
(* SRAM addresses never run past the memories, whatever the EEPROM answers.*)
(***************************************************************************)
TypeOK ==
  /\ top \in TopState /\ fsm \in FsmState /\ wb \in WbState
  /\ mem_index \in WordAligned(0 .. TOTAL)
  /\ addr_pointer \in 0 .. Radix * Radix - 1
  /\ page_buffer_index \in 0 .. PageWords - 1
  /\ data_word \in Word /\ rst_core_n \in Bit
  /\ rd_sr \in SUBSET StatusBit /\ rd_byte \in Byte /\ rd_word \in Word
  /\ i2c_ack \in Bit /\ sram_ack \in Bit
  /\ sram \in [SramAddr -> Word]
  /\ resets \in 0 .. MaxResets
  /\ I2cTypeOK /\ EepTypeOK

(***************************************************************************)
(* The word of the boot image that belongs at an SRAM address.             *)
(***************************************************************************)
ImageIndex(a) == IF a < IMEM_BASE_ADDR + IMEM_SIZE THEN a - IMEM_BASE_ADDR
                                                   ELSE a - DMEM_BASE_ADDR + IMEM_SIZE
ImageByte(i) == EepromInit[EEPROM_READ_ADDR + i]
Image == [a \in SramAddr |-> [k \in Lane |-> ImageByte(ImageIndex(a) + k)]]

(***************************************************************************)
(* The core comes out of reset only when both memories hold the image, all *)
(* of it and every byte in its place, however often the EEPROM did not     *)
(* acknowledge, whatever the I2C phases lasted and wherever an earlier     *)
(* boot was cut off by a reset.                                            *)
(***************************************************************************)
CoreStartsWithImage == rst_core_n = 1 => sram = Image

(***************************************************************************)
(* Once i2c_access_fsm has stopped polling TIP and looks at the acknowledge*)
(* or at the received byte, the command it wrote is over: TIP rises late   *)
(* (two cycles after the command register is written), but not after the   *)
(* first poll samples it.                                                  *)
(***************************************************************************)
PollOutlastsCommand ==
  fsm \in {"READ_ACK", "READ_TXR"} =>
    c_state = "IDLE" /\ cr \cap Command = {} /\ rxack = ack_out

(***************************************************************************)
(* Between two bytes the boot loader and the EEPROM agree on what comes    *)
(* next and at which address.  This is what a command lost in the I2C      *)
(* master would break: the first address byte of the write-back is written *)
(* while the STOP of the read may still be running, whose completion wipes *)
(* it, and only the stale not-acknowledge makes the boot loader send it    *)
(* again.                                                                  *)
(***************************************************************************)
EepromInStep ==
  fsm = "IDLE" =>
    /\ top = "WRITE_WORD_ADDR_BYTE0" => ee_st = "adhi"
    /\ top = "WRITE_WORD_ADDR_BYTE1" =>
         ee_st = "adlo" /\ ee_ptr \div Radix = (addr_pointer \div Radix) % (EepromBytes \div Radix)
    /\ top = "WRITE_SLAVE_ADDR_R_BIT" => ee_st = "data" /\ ee_ptr = EEPROM_READ_ADDR
    /\ \A k \in Lane : top = ReadByteState[k + 1] =>
         ee_st = "read" /\ ee_ptr = EEPROM_READ_ADDR + mem_index + k
    /\ top = "READ_MEM" => ee_st = "data" /\ ee_ptr = EEPROM_WRITE_ADDR + mem_index
    /\ \A k \in Lane : top = WriteByteState[k + 1] =>
         ee_st = "data" /\ ee_ptr = EEPROM_WRITE_ADDR + mem_index - 4 + k

(***************************************************************************)
(* When the core starts, the boot loader is off the bus for good and no    *)
(* acknowledge of its last access is outstanding.                          *)
(***************************************************************************)
BusFreeWhenReleased ==
  rst_core_n = 1 => fsm = "IDLE" /\ wb = "IDLE" /\ ~ack

(***************************************************************************)
(* The write-back never touches the image it was loaded from, not even     *)
(* when a reset cuts a page write short.                                   *)
(***************************************************************************)
ImageIntact == \A i \in 0 .. TOTAL - 1 : ee_mem[EEPROM_READ_ADDR + i] = ImageByte(i)

(***************************************************************************)
(* When a boot with write-back is over and the EEPROM is ready again, its  *)
(* copy is complete: every page was committed, the last one included.      *)
(***************************************************************************)
WriteBackComplete ==
  BOOT_WRITEBACK /\ top = "BOOT_FINISH" /\ ee_act = 0 =>
    \A i \in 0 .. TOTAL - 1 : ee_mem[EEPROM_WRITE_ADDR + i] = ImageByte(i)

(***************************************************************************)
(* The boot loader implements BootSpec.                                    *)
(***************************************************************************)
Abstract == INSTANCE BootSpec WITH
  Addr <- SramAddr, PowerUp <- SramInit, mem <- sram, released <- rst_core_n
ImplementsBootSpec == Abstract!Spec

(***************************************************************************)
(* The core does start, for good, once resets stop: retries of unanswered  *)
(* bytes end, no poll waits forever.                                       *)
(***************************************************************************)
Boots == <>[](rst_core_n = 1)
==============================================================================
