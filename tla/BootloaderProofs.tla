-------------------------- MODULE BootloaderProofs ---------------------------
(***************************************************************************)
(* Proofs about the boot loader, for memories, pages and EEPROMs of any    *)
(* size and any image.                                                     *)
(***************************************************************************)
EXTENDS Bootloader, TLAPS

------------------------------------------------------------------------------
(***************************************************************************)
(* Arithmetic: remainders, quotients and page addresses.                   *)
(***************************************************************************)

\* A remainder is below its divisor: the address pointers wrap, they never overflow.
LEMMA ModRange ==
  ASSUME NEW x \in Nat, NEW n \in Nat \ {0}
  PROVE  x % n \in 0 .. n - 1 /\ x % n <= x /\ x \div n \in Nat
OBVIOUS

\* The high byte of a two-byte address is a byte.
LEMMA HighByte ==
  ASSUME NEW n \in Nat \ {0}, NEW x \in 0 .. n * n - 1
  PROVE  x \div n \in 0 .. n - 1
<1>1. x \in Nat /\ n * n \in Nat OBVIOUS
<1> DEFINE q == x \div n
<1>2. q \in Nat /\ q * n <= x BY <1>1
<1>3. ~(q >= n)
  <2> SUFFICES ASSUME q >= n PROVE FALSE OBVIOUS
  <2>1. q * n >= n * n BY <1>2
  <2> QED BY <2>1, <1>1, <1>2
<1> QED BY <1>2, <1>3

\* The page an address lies in ends inside the device.
LEMMA PageInside ==
  ASSUME NEW p \in Nat \ {0}, NEW e \in Nat \ {0}, e % p = 0, NEW x \in 0 .. e - 1,
         NEW o \in 0 .. p - 1
  PROVE  x - (x % p) + o \in 0 .. e - 1
<1> DEFINE q == x \div p
           m == e \div p
<1>1. q \in Nat /\ x = q * p + (x % p) /\ x % p \in 0 .. p - 1 OBVIOUS
<1>2. m \in Nat /\ e = m * p OBVIOUS
<1>3. q + 1 <= m
  <2> SUFFICES ASSUME m <= q PROVE FALSE BY <1>1, <1>2
  <2>1. m * p <= q * p BY <1>1, <1>2
  <2> QED BY <2>1, <1>1, <1>2
<1>4. (q + 1) * p <= m * p BY <1>1, <1>2, <1>3
<1>5. (q + 1) * p = q * p + p BY <1>1
<1>6. q * p \in Nat BY <1>1
<1> HIDE DEF q, m
<1> QED BY <1>1, <1>2, <1>4, <1>5, <1>6

\* The next multiple of four does not overshoot a multiple of four.
LEMMA NextAligned ==
  ASSUME NEW x \in Nat, NEW t \in Nat, x % 4 = 0, t % 4 = 0, x < t
  PROVE  x + 4 <= t /\ (x + 4) % 4 = 0
OBVIOUS

------------------------------------------------------------------------------
(***************************************************************************)
(* Components keep their types whatever their neighbours drive.            *)
(***************************************************************************)

\* A clock cycle of the I2C master keeps its registers in range.
LEMMA I2cType ==
  ASSUME I2cTypeOK, NEW core_ack, NEW rx \in Byte, NEW sda \in Bit, NEW wadr, NEW wdat,
         wadr = "CTR" => wdat \in SUBSET CtrBit,
         wadr = "TXR" => wdat \in Byte,
         wadr = "CR"  => wdat \in SUBSET CrBit,
         I2cStep(core_ack, rx, sda, wadr, wdat)
  PROVE  I2cTypeOK'
<1>1. ctr' \in SUBSET CtrBit /\ txr' \in Byte
  BY DEF I2cTypeOK, I2cStep, WriteRegisters
<1>2. cr' \in SUBSET CrBit
  BY DEF I2cTypeOK, I2cStep, CommandRegister, TakesCommand
<1>3. tip' \in Bit /\ rxack' \in Bit /\ irq_flag' \in Bit /\ inta' \in Bit
  BY DEF I2cTypeOK, I2cStep, StatusRegisters, One, Bit
<1>4. /\ c_state' \in Phase \cup {"IDLE"} /\ sr' \in Byte
      /\ ack_out' \in Bit /\ cmd_ack' \in Bit
  BY DEF I2cTypeOK, I2cStep, ByteController, Rest, BeginCommand, WaitPhase, EndStart, EndWrite,
         EndRead, EndAck, EndStop, FirstPhase, AckIn, Phase, One, Bit
<1> QED BY <1>1, <1>2, <1>3, <1>4 DEF I2cTypeOK

\* Any byte or bus event keeps the EEPROM's state in range.
LEMMA EepType ==
  ASSUME EepTypeOK, NEW ev, NEW b \in EepByte, NEW wr_done, EepStep(ev, b, wr_done)
  PROVE  EepTypeOK'
<1> DEFINE at == ee_ptr % PageBytes
<1>0. /\ ee_ptr \in Nat /\ b \in Nat
      /\ Radix \in Nat \ {0} /\ PageBytes \in Nat \ {0} /\ EepromBytes \in Nat \ {0}
  BY EepromAssumption DEF EepTypeOK, EepByte, EepAddr
<1>1. at \in 0 .. PageBytes - 1 /\ (at + 1) % PageBytes \in 0 .. PageBytes - 1
  <2>1. at \in 0 .. PageBytes - 1 BY <1>0, ModRange
  <2>2. at + 1 \in Nat BY <2>1
  <2> QED BY <1>0, <2>1, <2>2, ModRange
<1>2. ee_st' \in EepState /\ ee_sda' \in {0, 1} /\ ee_act' \in {0, 1}
  BY DEF EepTypeOK, EepStep, RecvByte, RecvControl, RecvAddress, RecvData, RecvIgnored, MasterAck,
         EepState
<1>3. ee_mem' \in [EepAddr -> EepByte]
  <2>1. CASE ee_mem' = CommitPage
    <3>1. \A a \in EepAddr : (a % PageBytes) \in DOMAIN ee_buf => ee_buf[a % PageBytes] \in EepByte
      BY DEF EepTypeOK
    <3> QED BY <2>1, <3>1 DEF EepTypeOK, CommitPage
  <2>2. CASE UNCHANGED ee_mem BY <2>2 DEF EepTypeOK
  <2> QED BY <2>1, <2>2 DEF EepStep
<1>4. ee_ptr' \in EepAddr
  <2>1. CASE UNCHANGED ee_ptr BY <2>1 DEF EepTypeOK
  <2>2. CASE RecvAddress(b)
    <3>1. ee_ptr % Radix \in Nat /\ ee_ptr \div Radix \in Nat BY <1>0, ModRange
    <3>2. /\ b * Radix + (ee_ptr % Radix) \in Nat
          /\ (ee_ptr \div Radix) * Radix + b \in Nat
      BY <1>0, <3>1
    <3> QED BY <1>0, <2>2, <3>2, ModRange DEF RecvAddress, EepAddr
  <2>3. CASE RecvData(b)
    BY <2>3, <1>0, <1>1, PageInside, EepromAssumption DEF RecvData, PageBase, EepTypeOK, EepAddr
  <2>4. CASE ee_ptr' = (ee_ptr + 1) % EepromBytes
    <3>1. ee_ptr + 1 \in Nat BY <1>0
    <3> QED BY <1>0, <2>4, <3>1, ModRange DEF EepAddr
  <2> QED BY <2>1, <2>2, <2>3, <2>4 DEF EepStep, RecvByte, RecvControl, RecvIgnored, MasterAck
<1>5. DOMAIN ee_buf' \subseteq PageOffset /\ \A o \in DOMAIN ee_buf' : ee_buf'[o] \in EepByte
  <2>1. CASE UNCHANGED ee_buf BY <2>1 DEF EepTypeOK
  <2>2. CASE ee_buf' = NoBytes BY <2>2 DEF NoBytes
  <2>3. CASE RecvData(b)
    BY <2>3, <1>1 DEF RecvData, EepTypeOK, PageOffset
  <2> QED BY <2>1, <2>2, <2>3 DEF EepStep, RecvByte, RecvControl, RecvAddress, RecvIgnored, MasterAck
<1> QED BY <1>2, <1>3, <1>4, <1>5 DEF EepTypeOK

------------------------------------------------------------------------------
(***************************************************************************)
(* The inductive invariant behind the type invariant: the word counter is  *)
(* below the end of memory in every state that uses it as an address, and  *)
(* the three machines hand over to one another in lock step.               *)
(***************************************************************************)
IndexInRange ==
  /\ top = "WRITE_SLAVE_ADDR_R_BIT" => mem_index = 0
  /\ top \in ReadData \cup {"WRITE_MEM", "READ_MEM"} => mem_index < TOTAL

Handshake ==
  /\ fsm \in {"IDLE", "DONE_STATE"} => wb = "IDLE"
  /\ wb \in {"IDLE", "ISSUE"} => i2c_ack = 0 /\ sram_ack = 0
  /\ wb = "WAIT_ACK" => i2c_ack = One(~to_sram) /\ sram_ack = One(to_sram)
  /\ wb = "DONE" => i2c_ack = 0
  /\ fsm = "SRAM_WRITE" => top = "WRITE_MEM"
  /\ fsm = "SRAM_READ" => top = "READ_MEM"
  /\ top = "BOOT_FINISH" => fsm = "IDLE"
  /\ rst_core_n = 1 => top = "BOOT_FINISH"

ControlInv == TypeOK /\ IndexInRange /\ Handshake

\* The boot loader starts, and restarts after a reset, in a state of the invariant.
LEMMA MasterInitControl ==
  ASSUME MasterInit, resets \in 0 .. MaxResets, sram \in [SramAddr -> Word], EepTypeOK
  PROVE  ControlInv
<1> USE BootAssumption, EepromAssumption, ByteAssumption
<1>1. /\ top \in TopState /\ fsm \in FsmState /\ wb \in WbState
      /\ rst_core_n \in Bit /\ i2c_ack \in Bit /\ sram_ack \in Bit /\ rd_sr \in SUBSET StatusBit
  BY DEF MasterInit, TopState, FsmState, WbState, Bit
<1>2. data_word \in Word /\ rd_byte \in Byte /\ rd_word \in Word
  BY DEF MasterInit, Word
<1>3. mem_index \in WordAligned(0 .. TOTAL)
  BY DEF MasterInit, WordAligned, TOTAL
<1>4. addr_pointer \in 0 .. Radix * Radix - 1
  BY DEF MasterInit, EepAddr
<1>5. page_buffer_index \in 0 .. PageWords - 1
  BY DEF MasterInit, PageWords
<1>6. I2cTypeOK
  BY DEF MasterInit, I2cInit, I2cTypeOK, Bit
<1>7. IndexInRange /\ Handshake
  BY DEF MasterInit, IndexInRange, Handshake, ReadData, ReadByteState
<1> QED BY <1>1, <1>2, <1>3, <1>4, <1>5, <1>6, <1>7 DEF ControlInv, TypeOK

\* What i2c_access_fsm puts on the data bus is fit for the register it is written to.
LEMMA WriteDataType ==
  ASSUME TypeOK
  PROVE  /\ i2c_wadr = "CTR" => i2c_wdat \in SUBSET CtrBit
         /\ i2c_wadr = "TXR" => i2c_wdat \in Byte
         /\ i2c_wadr = "CR"  => i2c_wdat \in SUBSET CrBit
<1> USE BootAssumption, EepromAssumption
<1>1. w_byte \in Byte
  <2>1. addr_pointer \div Radix \in EepByte BY HighByte DEF TypeOK, EepByte
  <2>2. addr_pointer % Radix \in EepByte
    <3>1. addr_pointer \in Nat BY DEF TypeOK
    <3> QED BY <3>1, ModRange DEF EepByte
  <2>3. \A k \in Lane : data_word[k] \in Byte BY DEF TypeOK, Word
  <2> QED BY <2>1, <2>2, <2>3 DEF w_byte, Lane
<1>2. command \in SUBSET CrBit
  BY DEF command, Flag, CrBit, Command
<1> QED BY <1>1, <1>2 DEF i2c_wdat, CtrBit

\* The SRAM is addressed only inside its memories.
LEMMA MemAddrInSram ==
  ASSUME TypeOK, mem_index < TOTAL
  PROVE  mem_addr \in SramAddr
BY BootAssumption DEF TypeOK, mem_addr, SramAddr, WordAligned, TOTAL

\* One clock edge of bootloader_top keeps its registers in range.
LEMMA TopType ==
  ASSUME ControlInv, TopStep
  PROVE  /\ top' \in TopState /\ rst_core_n' \in Bit /\ data_word' \in Word
         /\ mem_index' \in WordAligned(0 .. TOTAL)
         /\ addr_pointer' \in 0 .. Radix * Radix - 1
         /\ page_buffer_index' \in 0 .. PageWords - 1
         /\ IndexInRange'
<1> USE BootAssumption, EepromAssumption DEF ControlInv
<1> USE DEF GoTo
<1>0. /\ mem_index \in Nat /\ mem_index % 4 = 0 /\ mem_index <= TOTAL
      /\ TOTAL \in Nat \ {0} /\ TOTAL % 4 = 0
  BY DEF TypeOK, WordAligned, TOTAL
<1>a. \A i \in Nat : i % 4 = 0 /\ i <= TOTAL => i \in WordAligned(0 .. TOTAL)
  BY <1>0 DEF WordAligned
<1>b. EEPROM_WRITE_ADDR \in 0 .. Radix * Radix - 1
  BY DEF EepAddr
<1>c. rd_byte \in Byte /\ rd_word \in Word /\ data_word \in Word BY DEF TypeOK
<1>1. CASE SlaveAddrW \/ WordAddr0
  BY <1>1 DEF SlaveAddrW, WordAddr0, TypeOK, TopState, IndexInRange, ReadData, ReadByteState
<1>2. CASE WordAddr1
  BY <1>2, <1>0, <1>a DEF WordAddr1, TypeOK, TopState, IndexInRange, ReadData, ReadByteState
<1>3. CASE SlaveAddrR
  BY <1>3, <1>0 DEF SlaveAddrR, TypeOK, TopState, IndexInRange, ReadData, ReadByteState
<1>4. CASE ReadDataByte
  <2> PICK k \in Lane : /\ GoTo(ReadByteState[k + 1], IF k = 3 THEN "WRITE_MEM" ELSE ReadByteState[k + 2])
                        /\ data_word' = [data_word EXCEPT ![k] = rd_byte]
                        /\ UNCHANGED <<mem_index, addr_pointer, page_buffer_index, rst_core_n>>
    BY <1>4 DEF ReadDataByte
  <2>1. data_word' \in Word BY <1>c DEF Word
  <2>2. top \in ReadData /\ top' \in ReadData \cup {"WRITE_MEM"}
    BY DEF Lane, ReadData, ReadByteState
  <2> QED BY <2>1, <2>2, <1>0 DEF TypeOK, TopState, IndexInRange, ReadData, ReadByteState
<1>5. CASE WriteMem
  <2>1. mem_index < TOTAL BY <1>5 DEF WriteMem, IndexInRange
  <2>2. mem_index + 4 <= TOTAL /\ (mem_index + 4) % 4 = 0 BY <2>1, <1>0, NextAligned
  <2>3. mem_index' \in WordAligned(0 .. TOTAL) BY <1>5, <2>2, <1>0, <1>a DEF WriteMem
  <2>4. ~last_read => mem_index + 4 < TOTAL BY <2>2, <1>0 DEF last_read
  <2> QED BY <1>5, <2>3, <2>4, <1>0, <1>b
        DEF WriteMem, AfterLastRead, TypeOK, TopState, IndexInRange, ReadData, ReadByteState
<1>6. CASE ReadMem
  <2>1. mem_index < TOTAL BY <1>6 DEF ReadMem, IndexInRange
  <2>2. mem_index + 4 <= TOTAL /\ (mem_index + 4) % 4 = 0 BY <2>1, <1>0, NextAligned
  <2>3. mem_index' \in WordAligned(0 .. TOTAL) BY <1>6, <2>2, <1>0, <1>a DEF ReadMem
  <2> QED BY <1>6, <2>3, <1>c
        DEF ReadMem, TypeOK, TopState, IndexInRange, ReadData, ReadByteState, WriteData, WriteByteState
<1>7. CASE WriteDataByte
  <2>1. top' \in WriteData /\ UNCHANGED <<mem_index, addr_pointer, page_buffer_index, data_word, rst_core_n>>
    BY <1>7 DEF WriteDataByte, WriteData, WriteByteState
  <2> QED BY <2>1 DEF TypeOK, TopState, IndexInRange, ReadData, ReadByteState, WriteData, WriteByteState
<1>8. CASE LastDataByte
  <2>1. addr_pointer' \in 0 .. Radix * Radix - 1
    <3>1. addr_pointer + PageBytes \in Nat /\ Radix * Radix \in Nat \ {0} BY DEF TypeOK
    <3> QED BY <1>8, <3>1, ModRange DEF LastDataByte, NextPage, TypeOK
  <2>2. page_buffer_index' \in 0 .. PageWords - 1
    <3>1. PageWords \in Nat \ {0} BY DEF PageWords
    <3>2. page_buffer_index \in 0 .. PageWords - 1 BY DEF TypeOK
    <3>3. \/ page_buffer_index' \in {0, page_buffer_index}
          \/ page_buffer_index # PageWords - 1 /\ page_buffer_index' = page_buffer_index + 1
      BY <1>8 DEF LastDataByte, page_full
    <3> HIDE DEF PageWords
    <3> QED BY <3>1, <3>2, <3>3
  <2>3. /\ UNCHANGED <<mem_index, data_word, rst_core_n>>
        /\ \/ top' \in {"BOOT_FINISH", "WRITE_SLAVE_ADDR_W_BIT"}
           \/ top' = "READ_MEM" /\ mem_index # TOTAL
    BY <1>8 DEF LastDataByte
  <2> QED BY <2>1, <2>2, <2>3, <1>0 DEF TypeOK, TopState, IndexInRange, ReadData, ReadByteState
<1>9. CASE Finish \/ TopHold
  BY <1>9 DEF Finish, TopHold, topVars, TypeOK, IndexInRange, Bit
<1> QED BY <1>1, <1>2, <1>3, <1>4, <1>5, <1>6, <1>7, <1>8, <1>9 DEF TopStep

\* The two lower machines and the slaves' acknowledges stay in lock step.
LEMMA HandshakeStep ==
  ASSUME ControlInv, TopStep, FsmStep, WbStep, SramStep, I2cAckStep
  PROVE  /\ fsm' \in FsmState /\ wb' \in WbState /\ i2c_ack' \in Bit /\ sram_ack' \in Bit
         /\ Handshake'
<1> USE DEF ControlInv
<1>1. fsm' \in FsmState
  BY DEF TypeOK, FsmStep, PollTip, CheckAck, Access, StartByte, FsmHold, FsmState
<1>2. wb' \in WbState
  BY DEF TypeOK, WbStep, WbState
<1>3. i2c_ack' \in Bit /\ sram_ack' \in Bit
  BY DEF SramStep, I2cAckStep, One, Bit
<1>4. (fsm \in {"IDLE", "DONE_STATE"} => wb = "IDLE")'
  BY DEF Handshake, FsmStep, PollTip, CheckAck, Access, StartByte, FsmHold, WbStep, wb_done
<1>5. (wb \in {"IDLE", "ISSUE"} => i2c_ack = 0 /\ sram_ack = 0)'
  BY DEF Handshake, WbStep, SramStep, I2cAckStep, stb, One, TypeOK, WbState, ack
<1>6. wb' = "WAIT_ACK" => wb = "ISSUE" /\ UNCHANGED fsm
  BY DEF Handshake, WbStep, FsmStep, PollTip, CheckAck, Access, StartByte, FsmHold, wb_done, ack, One
<1>7. (wb = "WAIT_ACK" => i2c_ack = One(~to_sram) /\ sram_ack = One(to_sram))'
  BY <1>6 DEF Handshake, SramStep, I2cAckStep, stb, One, to_sram, wb_addr
<1>8. (wb = "DONE" => i2c_ack = 0)'
  BY DEF Handshake, WbStep, I2cAckStep, stb, One, ack
<1>9. (fsm = "SRAM_WRITE" => top = "WRITE_MEM")' /\ (fsm = "SRAM_READ" => top = "READ_MEM")'
  BY DEF Handshake, FsmStep, PollTip, CheckAck, Access, StartByte, FsmHold, TopStep, TopHold, topVars, done, GoTo, Finish,
         SlaveAddrW, WordAddr0, WordAddr1, SlaveAddrR, ReadDataByte, WriteMem, ReadMem, WriteDataByte,
         LastDataByte, sram_access, we, ReadData, ReadByteState
<1>10. (top = "BOOT_FINISH" => fsm = "IDLE")' /\ (rst_core_n = 1 => top = "BOOT_FINISH")'
  BY DEF Handshake, FsmStep, PollTip, CheckAck, Access, StartByte, FsmHold, start, TopStep, TopHold, topVars, done, GoTo, Finish,
         SlaveAddrW, WordAddr0, WordAddr1, SlaveAddrR, ReadDataByte, WriteMem, ReadMem, WriteDataByte,
         LastDataByte
<1> QED BY <1>1, <1>2, <1>3, <1>4, <1>5, <1>7, <1>8, <1>9, <1>10 DEF Handshake

\* A clock edge that writes the SRAM writes a word, inside its memories.
LEMMA SramType ==
  ASSUME ControlInv, SramStep
  PROVE  sram' \in [SramAddr -> Word]
<1>1. sram \in [SramAddr -> Word] /\ data_word \in Word
  BY DEF ControlInv, TypeOK
<1>2. CASE stb /\ to_sram /\ wb_we
  <2>1. wb # "IDLE" /\ fsm \notin {"IDLE", "DONE_STATE"}
    BY <1>2 DEF stb, ControlInv, Handshake
  <2>2. fsm = "SRAM_WRITE"
    BY <1>2, <2>1 DEF to_sram, wb_addr, wb_we, WriteCommand, ControlInv, TypeOK, FsmState
  <2>3. mem_index < TOTAL
    BY <2>2 DEF ControlInv, Handshake, IndexInRange
  <2> QED BY <1>1, <1>2, <2>3, MemAddrInSram DEF SramStep, ControlInv
<1>3. CASE ~(stb /\ to_sram /\ wb_we)
  BY <1>1, <1>3 DEF SramStep
<1> QED BY <1>2, <1>3

\* What wb_access_fsm samples from a slave is a status, a byte or a word.
LEMMA ReadDataType ==
  ASSUME ControlInv, ReadData_Step
  PROVE  rd_sr' \in SUBSET StatusBit /\ rd_byte' \in Byte /\ rd_word' \in Word
<1>1. rd_sr' \in SUBSET StatusBit /\ rd_byte' \in Byte
  BY DEF ControlInv, TypeOK, I2cTypeOK, ReadData_Step, Status
<1>2. CASE Sampled("SRAM")
  <2>1. fsm = "SRAM_READ"
    BY <1>2 DEF Sampled, wb_addr, wb_we, WriteCommand, ControlInv, TypeOK, FsmState, Handshake
  <2>2. mem_index < TOTAL
    BY <2>1 DEF ControlInv, Handshake, IndexInRange
  <2>3. sram[mem_addr] \in Word
    BY <2>2, MemAddrInSram DEF ControlInv, TypeOK
  <2> QED BY <1>1, <1>2, <2>3 DEF ReadData_Step
<1>3. CASE ~Sampled("SRAM")
  BY <1>1, <1>3 DEF ReadData_Step, ControlInv, TypeOK
<1> QED BY <1>2, <1>3

------------------------------------------------------------------------------
(***************************************************************************)
(* The steps of the whole system.                                          *)
(***************************************************************************)

\* A clock edge keeps the invariant.
LEMMA ClockControl ==
  ASSUME ControlInv, NEW core_ack \in Bit, NEW wr_done \in Bit, Clock(core_ack, wr_done)
  PROVE  ControlInv'
<1> USE DEF Clock
<1>1. /\ top' \in TopState /\ rst_core_n' \in Bit /\ data_word' \in Word
      /\ mem_index' \in WordAligned(0 .. TOTAL)
      /\ addr_pointer' \in 0 .. Radix * Radix - 1
      /\ page_buffer_index' \in 0 .. PageWords - 1
      /\ IndexInRange'
  BY TopType
<1>2. /\ fsm' \in FsmState /\ wb' \in WbState /\ i2c_ack' \in Bit /\ sram_ack' \in Bit
      /\ Handshake'
  BY HandshakeStep
<1>3. sram' \in [SramAddr -> Word] BY SramType
<1>4. rd_sr' \in SUBSET StatusBit /\ rd_byte' \in Byte /\ rd_word' \in Word BY ReadDataType
<1>5. EepTx \in Byte /\ ee_sda \in Bit /\ sr \in EepByte
  BY BootAssumption, EepromAssumption
     DEF ControlInv, TypeOK, EepTypeOK, I2cTypeOK, EepTx, EepByte, Bit
<1>6. I2cTypeOK'
  BY <1>5, WriteDataType, I2cType DEF ControlInv, TypeOK
<1>7. EepTypeOK'
  BY <1>5, EepType DEF ControlInv, TypeOK
<1>8. resets' \in 0 .. MaxResets BY DEF ControlInv, TypeOK
<1> QED BY <1>1, <1>2, <1>3, <1>4, <1>6, <1>7, <1>8 DEF ControlInv, TypeOK

\* A reset, whatever it interrupts, restores the invariant.
LEMMA ResetControl ==
  ASSUME ControlInv, Reset
  PROVE  ControlInv'
<1> USE BootAssumption, EepromAssumption, ByteAssumption
<1>1. /\ top' \in TopState /\ fsm' \in FsmState /\ wb' \in WbState
      /\ rst_core_n' \in Bit /\ i2c_ack' \in Bit /\ sram_ack' \in Bit /\ rd_sr' \in SUBSET StatusBit
  BY DEF Reset, MasterReset, ControlInv, TypeOK, TopState, FsmState, WbState, Bit
<1>2. data_word' \in Word /\ rd_byte' \in Byte /\ rd_word' \in Word
  BY DEF Reset, MasterReset, Word
<1>3. mem_index' \in WordAligned(0 .. TOTAL)
  BY DEF Reset, MasterReset, WordAligned, TOTAL
<1>4. addr_pointer' \in 0 .. Radix * Radix - 1
  BY DEF Reset, MasterReset, EepAddr
<1>5. page_buffer_index' \in 0 .. PageWords - 1
  BY DEF Reset, MasterReset, PageWords
<1>6. I2cTypeOK'
  BY DEF Reset, MasterReset, I2cReset, I2cTypeOK, Bit
<1>7. EepTypeOK'
  <2>1. PICK ev \in {"none", "stop"} : EepStep(ev, 0, 0) BY DEF Reset
  <2>2. EepTypeOK /\ 0 \in EepByte BY DEF ControlInv, TypeOK, EepByte
  <2> QED BY <2>1, <2>2, EepType
<1>8. IndexInRange' /\ Handshake'
  BY DEF Reset, MasterReset, IndexInRange, Handshake, ReadData, ReadByteState
<1>9. resets' \in 0 .. MaxResets /\ sram' \in [SramAddr -> Word]
  BY DEF Reset, ControlInv, TypeOK
<1> QED BY <1>1, <1>2, <1>3, <1>4, <1>5, <1>6, <1>7, <1>8, <1>9 DEF ControlInv, TypeOK

\* Power-up establishes the invariant.
LEMMA InitControl == Init => ControlInv
<1> SUFFICES ASSUME Init PROVE ControlInv OBVIOUS
<1>1. resets \in 0 .. MaxResets /\ sram \in [SramAddr -> Word]
  BY BootAssumption DEF Init
<1>2. EepTypeOK
  BY EepromAssumption DEF Init, EepInit, EepTypeOK, EepState, EepAddr, NoBytes
<1> QED BY <1>1, <1>2, MasterInitControl DEF Init

\* ControlInv is an invariant of the boot loader: the type invariant, the range of the word
\* counter in the states that address memory with it, and the lock step of the three state
\* machines with the acknowledges of the slaves.
THEOREM ControlInvariant == Spec => []ControlInv
<1>1. Init => ControlInv BY InitControl
<1>2. ControlInv /\ [Next]_vars => ControlInv'
  <2> SUFFICES ASSUME ControlInv, [Next]_vars PROVE ControlInv' OBVIOUS
  <2>1. CASE Reset BY <2>1, ResetControl
  <2>2. CASE \E core_ack, wr_done \in Bit : Clock(core_ack, wr_done) BY <2>2, ClockControl
  <2>3. CASE UNCHANGED vars
    BY <2>3 DEF ControlInv, TypeOK, IndexInRange, Handshake, I2cTypeOK, EepTypeOK, to_sram, wb_addr,
                vars, topVars, wbVars, i2cVars, eeVars
  <2> QED BY <2>1, <2>2, <2>3 DEF Next
<1> QED BY <1>1, <1>2, PTL DEF Spec

\* Every register stays in its range for memories, pages and EEPROMs of any size: mem_index never
\* runs past the memories and every SRAM address lies inside them, whatever the EEPROM answers
\* and wherever a reset strikes.
THEOREM TypeCorrect == Spec => []TypeOK
<1>1. ControlInv => TypeOK BY DEF ControlInv
<1> QED BY <1>1, ControlInvariant, PTL

\* When the core comes out of reset the boot loader is off the bus, with no acknowledge outstanding
\* that the core could take for its own.
THEOREM BusFree == Spec => []BusFreeWhenReleased
<1>1. ControlInv => BusFreeWhenReleased
  BY DEF ControlInv, Handshake, BusFreeWhenReleased, ack
<1> QED BY <1>1, ControlInvariant, PTL

------------------------------------------------------------------------------
(***************************************************************************)
(* The I2C master under i2c_access_fsm.  It is quiet, or carries out the   *)
(* command of the byte under way (Cmd), or the STOP that ends the read.    *)
(* Nobody waits for that STOP, so it may still run, or even run again      *)
(* because a register access hid its completion, while the next byte is    *)
(* being written; a command written then is lost (Late).                   *)
(***************************************************************************)
Cmd ==
  IF we THEN {"WR"} \cup Flag(generate_STA, "STA") \cup Flag(generate_STO, "STO")
        ELSE {"RD"} \cup Flag(generate_NACK, "ACK")

Quiet == c_state = "IDLE" /\ cmd_ack = 0 /\ cr \cap Command = {}
Stopping == c_state \in {"IDLE", "STOP"} /\ cr = {"STO"}
Written == c_state = "IDLE" /\ cmd_ack = 0 /\ cr = Cmd
Busy == (c_state # "IDLE" \/ cmd_ack = 1) /\ cr = Cmd
Late == c_state = "STOP" \/ (c_state = "IDLE" /\ cmd_ack = 1)

ReadEnding == top = "WRITE_MEM" /\ last_read
ReadEnded == top \in {"WRITE_SLAVE_ADDR_W_BIT", "BOOT_FINISH"} /\ mem_index = TOTAL

EngineInv ==
  /\ cmd_ack = 1 => c_state = "IDLE"
  /\ c_state = "IDLE" /\ cmd_ack = 0 => rxack = ack_out
  /\ "IACK" \notin cr
  /\ c_state = "START" => "STA" \in cr
  /\ c_state \in {"READ", "TXACK"} => "RD" \in cr
  /\ c_state \in {"WRITE", "RXACK"} => "WR" \in cr
  /\ c_state = "STOP" => "STO" \in cr \/ ReadEnded
  /\ fsm # "I2C_ENABLE" \/ wb = "DONE" => "EN" \in ctr

\* Which byte i2c_access_fsm can be busy with in each of its states.
FsmTop ==
  /\ fsm \in {"WRITE_TXR", "WRITE_CR_FOR_WRITE_OP", "READ_ACK"} => we /\ ~sram_access
  /\ fsm \in {"WRITE_CR_FOR_READ_OP", "READ_TXR"} => ~we /\ ~sram_access
  /\ fsm = "POLL_TIP" => ~sram_access
  /\ fsm = "WRITE_CR_STOP_READ_OP" => ReadEnding
  /\ fsm = "I2C_ENABLE" => top = "WRITE_SLAVE_ADDR_W_BIT" /\ mem_index = 0

\* How far the I2C master is in each state of i2c_access_fsm.
CommandInv ==
  /\ fsm \in {"I2C_ENABLE", "SRAM_WRITE", "SRAM_READ", "READ_ACK", "READ_TXR"} => Quiet
  /\ fsm \in {"IDLE", "WRITE_TXR"} => Quiet \/ (Stopping /\ ReadEnded)
  /\ fsm = "DONE_STATE" => Quiet \/ (Stopping /\ ReadEnding)
  /\ fsm = "WRITE_CR_FOR_READ_OP" => IF wb = "DONE" THEN Written ELSE Quiet
  /\ fsm = "WRITE_CR_STOP_READ_OP" => IF wb = "DONE" THEN Stopping ELSE Quiet
  /\ fsm = "WRITE_CR_FOR_WRITE_OP" =>
       IF wb = "DONE" THEN Written \/ (Late /\ cr = Cmd /\ ReadEnded)
                      ELSE Quiet \/ (Stopping /\ ReadEnded)
  /\ fsm = "POLL_TIP" => Quiet \/ Busy
  /\ fsm = "POLL_TIP" /\ tip = 0 => Quiet
  /\ fsm = "POLL_TIP" /\ wb \in {"WAIT_ACK", "DONE"} /\ "TIP" \notin rd_sr => Quiet

PollInv == EngineInv /\ FsmTop /\ CommandInv

\* While i2c_access_fsm works on a byte, bootloader_top waits.
LEMMA TopWaits ==
  ASSUME ControlInv, TopStep, fsm # "DONE_STATE"
  PROVE  UNCHANGED <<top, mem_index, addr_pointer, page_buffer_index, data_word>>
BY DEF TopStep, TopHold, topVars, done, GoTo, Finish, SlaveAddrW, WordAddr0, WordAddr1, SlaveAddrR,
       ReadDataByte, WriteMem, ReadMem, WriteDataByte, LastDataByte

\* The one cycle in which an access of i2c_access_fsm writes a register of the I2C master.
LEMMA RegisterWrites ==
  ASSUME ControlInv
  PROVE  /\ wb # "WAIT_ACK" => i2c_wadr = "none"
         /\ wb = "WAIT_ACK" => i2c_wadr = IF fsm = "I2C_ENABLE" THEN "CTR"
                                     ELSE IF fsm = "WRITE_TXR" THEN "TXR"
                                     ELSE IF fsm \in WriteCommand THEN "CR" ELSE "none"
<1>1. wb # "WAIT_ACK" => i2c_wadr = "none"
  BY DEF ControlInv, TypeOK, WbState, Handshake, i2c_wadr, stb
<1>2. ASSUME wb = "WAIT_ACK"
      PROVE  i2c_wadr = IF fsm = "I2C_ENABLE" THEN "CTR"
                   ELSE IF fsm = "WRITE_TXR" THEN "TXR"
                   ELSE IF fsm \in WriteCommand THEN "CR" ELSE "none"
  BY <1>2 DEF ControlInv, TypeOK, FsmState, Handshake, i2c_wadr, stb, to_sram, wb_addr, wb_we, WriteCommand, One
<1> QED BY <1>1, <1>2

\* A quiet master stays quiet until a command is written.
LEMMA QuietStays ==
  ASSUME Quiet, EngineInv, NEW core_ack, NEW rx, NEW sda, NEW wadr, NEW wdat,
         I2cStep(core_ack, rx, sda, wadr, wdat), wadr # "CR"
  PROVE  /\ Quiet' /\ cr' = cr /\ UNCHANGED <<ack_out, sr>>
         /\ rxack' = ack_out /\ tip' = 0
<1>1. ~Go BY DEF Quiet, Go, Command
<1>2. c_state' = "IDLE" /\ cmd_ack' = 0 /\ UNCHANGED <<ack_out, sr>>
  BY <1>1 DEF Quiet, I2cStep, ByteController, Rest, BeginCommand, WaitPhase, EndStart, EndWrite, EndRead, EndAck, EndStop
<1>3. cr' = cr
  <2>1. "IACK" \notin cr BY DEF EngineInv
  <2> QED BY <2>1 DEF Quiet, I2cStep, CommandRegister, TakesCommand
<1>4. rxack' = ack_out /\ tip' = 0
  BY DEF I2cStep, StatusRegisters, Quiet, One, Command
<1> QED BY <1>2, <1>3, <1>4 DEF Quiet

\* A command written to a quiet master is in its register, and starts with the next cycle.
LEMMA QuietWritten ==
  ASSUME Quiet, NEW core_ack, NEW rx, NEW sda, NEW wdat, "EN" \in ctr,
         I2cStep(core_ack, rx, sda, "CR", wdat)
  PROVE  c_state' = "IDLE" /\ cmd_ack' = 0 /\ cr' = wdat /\ UNCHANGED <<ack_out, sr>> /\ rxack' = ack_out
<1>1. ~Go BY DEF Quiet, Go, Command
<1>2. c_state' = "IDLE" /\ cmd_ack' = 0 /\ UNCHANGED <<ack_out, sr>>
  BY <1>1 DEF Quiet, I2cStep, ByteController, Rest, BeginCommand, WaitPhase, EndStart, EndWrite, EndRead, EndAck, EndStop
<1>3. cr' = wdat /\ rxack' = ack_out
  BY DEF I2cStep, CommandRegister, TakesCommand, StatusRegisters
<1> QED BY <1>2, <1>3

\* A command that was written begins.
LEMMA WrittenBegins ==
  ASSUME c_state = "IDLE", cmd_ack = 0, cr \cap {"RD", "WR", "STO"} # {}, "IACK" \notin cr,
         NEW core_ack, NEW rx, NEW sda, NEW wdat,
         I2cStep(core_ack, rx, sda, "none", wdat)
  PROVE  /\ c_state' = FirstPhase /\ cmd_ack' = 0 /\ cr' = cr /\ sr' = txr /\ UNCHANGED ack_out
         /\ tip' = One(cr \cap {"RD", "WR"} # {})
<1>1. Go BY DEF Go
<1>2. c_state' = FirstPhase /\ cmd_ack' = 0 /\ sr' = txr /\ UNCHANGED ack_out
  BY <1>1 DEF I2cStep, ByteController, Rest, BeginCommand, WaitPhase, EndStart, EndWrite, EndRead, EndAck, EndStop
<1>3. cr' = cr /\ tip' = One(cr \cap {"RD", "WR"} # {})
  BY DEF I2cStep, CommandRegister, TakesCommand, StatusRegisters
<1> QED BY <1>2, <1>3

\* A command under way goes on, or its completion clears the command register.
LEMMA BusyGoesOn ==
  ASSUME EngineInv, I2cTypeOK, c_state # "IDLE" \/ cmd_ack = 1,
         NEW core_ack \in Bit, NEW rx, NEW sda, NEW wdat,
         I2cStep(core_ack, rx, sda, "none", wdat)
  PROVE  /\ tip' = One(cr \cap {"RD", "WR"} # {})
         /\ \/ cmd_ack = 1 /\ Quiet' /\ UNCHANGED <<ack_out, sr>> /\ rxack' = ack_out
            \/ cmd_ack = 0 /\ cr' = cr /\ (c_state' # "IDLE" \/ cmd_ack' = 1)
<1>1. tip' = One(cr \cap {"RD", "WR"} # {}) /\ rxack' = ack_out
  BY DEF I2cStep, StatusRegisters
<1>2. CASE cmd_ack = 1
  <2>1. c_state = "IDLE" /\ ~Go BY <1>2 DEF EngineInv, Go
  <2>2. c_state' = "IDLE" /\ cmd_ack' = 0 /\ UNCHANGED <<ack_out, sr>>
    BY <2>1 DEF I2cStep, ByteController, Rest, BeginCommand, WaitPhase, EndStart, EndWrite, EndRead, EndAck, EndStop
  <2>3. cr' \cap Command = {} BY <1>2 DEF I2cStep, CommandRegister, TakesCommand, Command
  <2> QED BY <1>1, <1>2, <2>2, <2>3 DEF Quiet
<1>3. CASE cmd_ack = 0
  <2>1. c_state # "IDLE" BY <1>3
  <2>2. c_state' # "IDLE" \/ cmd_ack' = 1
    BY <2>1 DEF I2cStep, ByteController, Rest, BeginCommand, WaitPhase, EndStart, EndWrite, EndRead, EndAck, EndStop, One, Bit
  <2>3. cr' = cr BY <1>3 DEF EngineInv, I2cStep, CommandRegister, TakesCommand
  <2> QED BY <1>1, <1>3, <2>2, <2>3
<1> QED BY <1>2, <1>3 DEF I2cTypeOK, Bit

\* The STOP of the read goes on, starts again because an access hid its completion, or is over.
LEMMA StoppingGoesOn ==
  ASSUME Stopping, EngineInv, I2cTypeOK, NEW core_ack \in Bit, NEW rx, NEW sda, NEW wadr, NEW wdat,
         I2cStep(core_ack, rx, sda, wadr, wdat), wadr # "CR"
  PROVE  (Quiet' \/ Stopping') /\ UNCHANGED ack_out /\ (c_state' = "IDLE" => rxack' = ack_out)
<1>1. rxack' = ack_out
  BY DEF I2cStep, StatusRegisters
<1>2. UNCHANGED ack_out /\ c_state' \in {"IDLE", "STOP"} /\ (cmd_ack = 1 => c_state' = "IDLE" /\ cmd_ack' = 0)
  BY DEF Stopping, EngineInv, I2cStep, ByteController, Rest, BeginCommand, FirstPhase, WaitPhase, EndStart, EndWrite,
         EndRead, EndAck, EndStop, Go, Bit
<1>3. cr' = cr \/ (cmd_ack = 1 /\ cr' \cap Command = {})
  BY DEF EngineInv, I2cTypeOK, Bit, I2cStep, CommandRegister, TakesCommand
<1> QED BY <1>1, <1>2, <1>3 DEF Quiet, Stopping

\* A command written while that STOP runs waits in the register, and is wiped when the STOP ends.
LEMMA StoppingWritten ==
  ASSUME Stopping, EngineInv, I2cTypeOK, NEW core_ack \in Bit, NEW rx, NEW sda, NEW wdat, "EN" \in ctr,
         I2cStep(core_ack, rx, sda, "CR", wdat)
  PROVE  /\ cr' = wdat /\ UNCHANGED ack_out /\ rxack' = ack_out
         /\ (c_state' = "IDLE" /\ cmd_ack' = 0) \/ Late'
<1>1. rxack' = ack_out /\ cr' = wdat
  BY DEF I2cStep, StatusRegisters, CommandRegister, TakesCommand
<1>2. UNCHANGED ack_out /\ c_state' \in {"IDLE", "STOP"} /\ cmd_ack' \in Bit
  BY DEF Stopping, EngineInv, I2cStep, ByteController, Rest, BeginCommand, FirstPhase, WaitPhase, EndStart, EndWrite,
         EndRead, EndAck, EndStop, Go, Bit
<1> QED BY <1>1, <1>2 DEF Late, Bit

\* The command of a byte always moves a byte, and nothing but the flags of its state is in it.
LEMMA CmdFacts ==
  /\ Cmd \cap {"RD", "WR"} # {} /\ "IACK" \notin Cmd
  /\ we => "WR" \in Cmd /\ "RD" \notin Cmd
  /\ ~we => "RD" \in Cmd /\ "WR" \notin Cmd /\ "STO" \notin Cmd
  /\ "STA" \in Cmd <=> generate_STA
  /\ "STO" \in Cmd <=> generate_STO
BY DEF Cmd, Flag, generate_STA, generate_STO, we, ReadData, ReadByteState

\* Where i2c_access_fsm can go from each of its states.
LEMMA FsmMoves ==
  ASSUME ControlInv, FsmStep
  PROVE  /\ fsm \notin {"IDLE", "DONE_STATE"} /\ wb # "DONE" => fsm' = fsm
         /\ wb = "DONE" /\ fsm = "I2C_ENABLE" => fsm' = "IDLE"
         /\ fsm = "IDLE" => \/ fsm' = "IDLE" /\ ~start
                            \/ fsm' = "SRAM_WRITE" /\ sram_access /\ we
                            \/ fsm' = "SRAM_READ" /\ sram_access /\ ~we
                            \/ fsm' = "WRITE_TXR" /\ ~sram_access /\ we
                            \/ fsm' = "WRITE_CR_FOR_READ_OP" /\ ~sram_access /\ ~we
         /\ wb = "DONE" /\ fsm = "WRITE_TXR" => fsm' = "WRITE_CR_FOR_WRITE_OP"
         /\ wb = "DONE" /\ fsm \in {"WRITE_CR_FOR_WRITE_OP", "WRITE_CR_FOR_READ_OP"} => fsm' = "POLL_TIP"
         /\ wb = "DONE" /\ fsm = "POLL_TIP" =>
              fsm' = IF "TIP" \in rd_sr THEN "POLL_TIP" ELSE IF we THEN "READ_ACK" ELSE "READ_TXR"
         /\ wb = "DONE" /\ fsm = "READ_ACK" =>
              fsm' = IF "RXACK" \in rd_sr THEN "WRITE_TXR" ELSE "DONE_STATE"
         /\ wb = "DONE" /\ fsm \in {"READ_TXR", "WRITE_CR_STOP_READ_OP", "SRAM_READ"} => fsm' = "DONE_STATE"
         /\ wb = "DONE" /\ fsm = "SRAM_WRITE" =>
              fsm' = IF last_read THEN "WRITE_CR_STOP_READ_OP" ELSE "DONE_STATE"
         /\ fsm = "DONE_STATE" => fsm' = "IDLE"
BY DEF ControlInv, Handshake, FsmStep, PollTip, CheckAck, Access, StartByte, FsmHold, wb_done

\* Where wb_access_fsm can go.
LEMMA WbMoves ==
  ASSUME ControlInv, WbStep
  PROVE  /\ wb = "IDLE" => wb' = IF fsm \in {"IDLE", "DONE_STATE"} THEN "IDLE" ELSE "ISSUE"
         /\ wb = "ISSUE" => wb' = "WAIT_ACK"
         /\ wb = "WAIT_ACK" => wb' = "DONE"
         /\ wb = "DONE" => wb' = "IDLE"
<1>1. wb = "WAIT_ACK" => ack BY DEF ControlInv, Handshake, ack, One
<1> QED BY <1>1 DEF WbStep

\* A register access of the boot loader meets the I2C master with the core enabled, and writes the
\* command of its byte, or the STOP.
LEMMA AccessWrites ==
  ASSUME ControlInv, PollInv
  PROVE  /\ i2c_wadr = "CR" <=> wb = "WAIT_ACK" /\ fsm \in WriteCommand
         /\ i2c_wadr = "CR" => "EN" \in ctr
         /\ wb # "WAIT_ACK" => i2c_wadr = "none"
         /\ fsm \notin WriteCommand \cup {"WRITE_TXR", "I2C_ENABLE"} => i2c_wadr = "none"
         /\ i2c_wadr = "CR" => i2c_wdat = IF fsm = "WRITE_CR_STOP_READ_OP" THEN {"STO"} ELSE Cmd
<1>1. /\ i2c_wadr = "CR" <=> wb = "WAIT_ACK" /\ fsm \in WriteCommand
      /\ wb # "WAIT_ACK" => i2c_wadr = "none"
      /\ fsm \notin WriteCommand \cup {"WRITE_TXR", "I2C_ENABLE"} => i2c_wadr = "none"
  BY RegisterWrites DEF WriteCommand
<1>2. i2c_wadr = "CR" => "EN" \in ctr
  BY <1>1 DEF PollInv, EngineInv, WriteCommand
<1>3. i2c_wadr = "CR" => i2c_wdat = IF fsm = "WRITE_CR_STOP_READ_OP" THEN {"STO"} ELSE Cmd
  <2> SUFFICES ASSUME i2c_wadr = "CR"
               PROVE  i2c_wdat = IF fsm = "WRITE_CR_STOP_READ_OP" THEN {"STO"} ELSE Cmd
    OBVIOUS
  <2>1. i2c_wdat = command BY DEF i2c_wdat
  <2>2. CASE fsm = "WRITE_CR_STOP_READ_OP" BY <2>1, <2>2 DEF command
  <2>3. CASE fsm = "WRITE_CR_FOR_WRITE_OP" BY <2>1, <2>3 DEF command, Cmd, PollInv, FsmTop
  <2>4. CASE fsm = "WRITE_CR_FOR_READ_OP" BY <2>1, <2>4 DEF command, Cmd, PollInv, FsmTop
  <2> QED BY <1>1, <2>2, <2>3, <2>4 DEF WriteCommand
<1> QED BY <1>1, <1>2, <1>3

\* The byte controller and the command register agree on the phase, in every clock cycle.
LEMMA EngineStep ==
  ASSUME ControlInv, PollInv, NEW core_ack \in Bit, NEW wr_done \in Bit, Clock(core_ack, wr_done)
  PROVE  EngineInv'
<1> USE DEF Clock
<1>0. I2cStep(core_ack, EepTx, ee_sda, i2c_wadr, i2c_wdat) OBVIOUS
<1>a. I2cTypeOK /\ cmd_ack \in Bit BY DEF ControlInv, TypeOK, I2cTypeOK
<1>1. cmd_ack' = 1 => c_state' = "IDLE"
  BY <1>0, <1>a DEF PollInv, EngineInv, Bit, I2cStep, ByteController, Rest, BeginCommand, WaitPhase, EndStart, EndWrite,
     EndRead, EndAck, EndStop, One
<1>2. c_state' = "IDLE" /\ cmd_ack' = 0 => rxack' = ack_out'
  BY <1>0, <1>a DEF I2cStep, StatusRegisters, ByteController, Rest, BeginCommand, WaitPhase, EndStart, EndWrite,
     EndRead, EndAck, EndStop, One
<1>3. "IACK" \notin cr'
  BY <1>0, AccessWrites, CmdFacts DEF PollInv, EngineInv, I2cStep, CommandRegister, TakesCommand
<1>4. (fsm # "I2C_ENABLE" \/ wb = "DONE" => "EN" \in ctr)'
  <2>1. ctr' = IF i2c_wadr = "CTR" THEN {"EN"} ELSE ctr BY <1>0 DEF I2cStep, WriteRegisters, i2c_wdat
  <2>2. i2c_wadr = "CTR" <=> wb = "WAIT_ACK" /\ fsm = "I2C_ENABLE" BY RegisterWrites DEF WriteCommand
  <2>3. CASE fsm # "I2C_ENABLE" \/ wb = "DONE" BY <2>1, <2>3 DEF PollInv, EngineInv
  <2>4. CASE fsm = "I2C_ENABLE" /\ wb # "DONE"
    BY <2>1, <2>2, <2>4, FsmMoves, WbMoves DEF ControlInv, TypeOK, WbState
  <2> QED BY <2>3, <2>4
<1>5. CASE i2c_wadr = "CR"
  <2>1. Quiet \/ (Stopping /\ (ReadEnded \/ fsm # "WRITE_CR_FOR_WRITE_OP"))
    BY <1>5, AccessWrites DEF PollInv, CommandInv, WriteCommand
  <2>2. c_state' \in {"IDLE", "STOP"} /\ (c_state' = "STOP" => ReadEnded')
    <3>1. CASE Quiet BY <1>0, <1>5, <3>1, QuietWritten, AccessWrites
    <3>2. CASE Stopping /\ ~Quiet
      <4>1. ReadEnded /\ fsm # "DONE_STATE" BY <3>2, <1>5, AccessWrites DEF PollInv, CommandInv, WriteCommand
      <4>2. ReadEnded' BY <4>1, TopWaits DEF ReadEnded
      <4> QED BY <1>0, <1>5, <1>a, <3>2, <4>2, StoppingWritten, AccessWrites DEF PollInv, Late
    <3> QED BY <2>1, <3>1, <3>2
  <2> QED BY <1>1, <1>2, <1>3, <1>4, <2>2 DEF EngineInv
<1>6. CASE i2c_wadr # "CR"
  <2>1. cr' = cr \/ (cmd_ack = 1 /\ c_state' = "IDLE")
    BY <1>0, <1>6, <1>a DEF PollInv, EngineInv, Bit, I2cStep, CommandRegister, TakesCommand,
       ByteController, Rest, BeginCommand, WaitPhase, EndStart, EndWrite, EndRead, EndAck, EndStop, Go
  <2>2. ASSUME cr' = cr
        PROVE  /\ c_state' = "START" => "STA" \in cr
               /\ c_state' \in {"READ", "TXACK"} => "RD" \in cr
               /\ c_state' \in {"WRITE", "RXACK"} => "WR" \in cr
               /\ c_state' = "STOP" => "STO" \in cr \/ c_state = "STOP"
    <3>1. CASE "STA" \in cr => cr \cap {"RD", "WR"} # {}
      BY <1>0, <2>2, <3>1 DEF PollInv, EngineInv, I2cStep, FirstPhase, Go,
         ByteController, Rest, BeginCommand, WaitPhase, EndStart, EndWrite, EndRead, EndAck, EndStop
    <3>2. CASE ~("STA" \in cr => cr \cap {"RD", "WR"} # {})
      <4>1. cr \cap Command # {} /\ cr # {"STO"} /\ cr # Cmd BY <3>2, CmdFacts DEF Command
      <4>2. FALSE BY <4>1 DEF PollInv, CommandInv, Quiet, Stopping, Written, Busy, ControlInv, TypeOK, FsmState
      <4> QED BY <4>2
    <3> QED BY <3>1, <3>2
  <2>3. c_state = "STOP" /\ "STO" \notin cr => ReadEnded'
    <3> SUFFICES ASSUME c_state = "STOP", "STO" \notin cr PROVE ReadEnded' OBVIOUS
    <3>1. ReadEnded BY DEF PollInv, EngineInv
    <3>2. fsm # "DONE_STATE" BY DEF PollInv, CommandInv, Quiet, Stopping
    <3> QED BY <3>1, <3>2, TopWaits DEF ReadEnded
  <2> QED BY <1>1, <1>2, <1>3, <1>4, <2>1, <2>2, <2>3 DEF EngineInv
<1> QED BY <1>5, <1>6

\* i2c_access_fsm goes on with the byte bootloader_top asks for.
LEMMA FsmTopStep ==
  ASSUME ControlInv, PollInv, TopStep, FsmStep, WbStep
  PROVE  FsmTop'
<1> USE DEF PollInv
<1>1. CASE fsm = "DONE_STATE"
  <2>1. fsm' = "IDLE" BY <1>1, FsmMoves
  <2> QED BY <2>1 DEF FsmTop
<1>2. CASE fsm # "DONE_STATE"
  <2>1. UNCHANGED <<top, mem_index>> BY <1>2, TopWaits
  <2>2. we' = we /\ sram_access' = sram_access /\ last_read' = last_read
    BY <2>1 DEF we, sram_access, last_read
  <2>3. fsm' = "WRITE_CR_STOP_READ_OP" => ReadEnding
    BY FsmMoves DEF FsmTop, ReadEnding, ControlInv, Handshake, TypeOK, FsmState
  <2>4. fsm' = "I2C_ENABLE" => fsm = "I2C_ENABLE"
    BY FsmMoves DEF ControlInv, TypeOK, FsmState
  <2>5. fsm' \in {"WRITE_TXR", "WRITE_CR_FOR_WRITE_OP", "READ_ACK"} => we /\ ~sram_access
    BY FsmMoves DEF FsmTop, ControlInv, TypeOK, FsmState
  <2>6. fsm' \in {"WRITE_CR_FOR_READ_OP", "READ_TXR"} => ~we /\ ~sram_access
    BY FsmMoves DEF FsmTop, ControlInv, TypeOK, FsmState
  <2>7. fsm' = "POLL_TIP" => ~sram_access
    BY FsmMoves DEF FsmTop, ControlInv, TypeOK, FsmState
  <2> QED BY <2>1, <2>2, <2>3, <2>4, <2>5, <2>6, <2>7 DEF FsmTop, ReadEnding
<1> QED BY <1>1, <1>2

\* The command of i2c_access_fsm and the state of the I2C master stay in step.
LEMMA CommandStep ==
  ASSUME ControlInv, PollInv, NEW core_ack \in Bit, NEW wr_done \in Bit, Clock(core_ack, wr_done)
  PROVE  CommandInv'
<1> USE DEF Clock, PollInv
<1>0. I2cStep(core_ack, EepTx, ee_sda, i2c_wadr, i2c_wdat) OBVIOUS
<1>a. I2cTypeOK /\ fsm \in FsmState /\ wb \in WbState BY DEF ControlInv, TypeOK
<1>b. Quiet /\ i2c_wadr # "CR" => Quiet' /\ tip' = 0 BY <1>0, QuietStays
<1>c. Stopping /\ i2c_wadr # "CR" => Quiet' \/ Stopping' BY <1>0, <1>a, StoppingGoesOn
<1>d. fsm # "DONE_STATE" => /\ Cmd' = Cmd /\ UNCHANGED <<top, mem_index>>
                            /\ ReadEnded' = ReadEnded /\ ReadEnding' = ReadEnding
  <2>1. fsm # "DONE_STATE" => UNCHANGED <<top, mem_index, page_buffer_index>> BY TopWaits
  <2> QED BY <2>1 DEF Cmd, we, generate_STA, generate_STO, generate_NACK, page_full, last_read, ReadEnded, ReadEnding
<1>1. CASE fsm = "DONE_STATE"
  <2>1. fsm' = "IDLE" /\ i2c_wadr = "none" BY <1>1, FsmMoves, AccessWrites DEF WriteCommand
  <2>2. CASE Quiet
    <3>1. Quiet' BY <1>b, <2>1, <2>2
    <3> QED BY <2>1, <3>1 DEF CommandInv
  <2>3. CASE Stopping /\ ReadEnding
    <3>1. ReadEnded'
      <4>1. TopStep /\ done /\ top = "WRITE_MEM" /\ last_read BY <1>1, <2>3 DEF done, ReadEnding
      <4>2. WriteMem
        BY <4>1 DEF TopStep, TopHold, GoTo, Finish, SlaveAddrW, WordAddr0, WordAddr1, SlaveAddrR, ReadDataByte, ReadMem,
           WriteDataByte, LastDataByte, Lane, ReadByteState, WriteByteState
      <4>3. mem_index' = TOTAL
        <5>1. TOTAL \in Nat BY BootAssumption DEF TOTAL
        <5> QED BY <4>1, <4>2, <5>1 DEF WriteMem, last_read
      <4> QED BY <4>1, <4>2, <4>3 DEF WriteMem, GoTo, AfterLastRead, ReadEnded
    <3>2. Quiet' \/ Stopping' BY <1>c, <2>1, <2>3
    <3> QED BY <2>1, <3>1, <3>2 DEF CommandInv
  <2> QED BY <1>1, <2>2, <2>3 DEF CommandInv
<1>2. CASE fsm \in {"I2C_ENABLE", "SRAM_WRITE", "SRAM_READ", "READ_ACK", "READ_TXR"}
  <2>1. Quiet /\ i2c_wadr # "CR" BY <1>2, AccessWrites DEF CommandInv, WriteCommand
  <2>2. Quiet' BY <1>b, <2>1
  <2>3. wb' = "DONE" => fsm' = fsm BY <1>2, <1>a, FsmMoves, WbMoves DEF WbState
  <2>4. fsm' \in {fsm, "IDLE", "WRITE_TXR", "DONE_STATE", "WRITE_CR_STOP_READ_OP"}
    BY <1>2, FsmMoves
  <2> QED BY <1>2, <2>2, <2>3, <2>4 DEF CommandInv
<1>3. CASE fsm = "IDLE"
  <2>1. i2c_wadr = "none" /\ wb' = "IDLE" BY <1>3, AccessWrites, WbMoves DEF WriteCommand, ControlInv, Handshake
  <2>2. Quiet' \/ (Stopping' /\ ReadEnded) BY <1>3, <2>1, <1>b, <1>c DEF CommandInv
  <2>3. ReadEnded => fsm' \in {"IDLE", "WRITE_TXR"}
    BY <1>3, FsmMoves DEF ReadEnded, sram_access, we, ReadData, ReadByteState
  <2>4. fsm' \in {"IDLE", "WRITE_TXR", "SRAM_WRITE", "SRAM_READ", "WRITE_CR_FOR_READ_OP"} BY <1>3, FsmMoves
  <2> QED BY <1>3, <1>d, <2>1, <2>2, <2>3, <2>4 DEF CommandInv
<1>4. CASE fsm = "WRITE_TXR"
  <2>1. i2c_wadr # "CR" BY <1>4, AccessWrites DEF WriteCommand
  <2>2. Quiet' \/ (Stopping' /\ ReadEnded) BY <1>4, <2>1, <1>b, <1>c DEF CommandInv
  <2>3. \/ fsm' = "WRITE_TXR"
        \/ fsm' = "WRITE_CR_FOR_WRITE_OP" /\ wb' = "IDLE"
    BY <1>4, <1>a, FsmMoves, WbMoves
  <2> QED BY <1>4, <1>d, <2>2, <2>3 DEF CommandInv
<1>5. CASE fsm \in WriteCommand /\ wb # "DONE"
  <2>1. fsm' = fsm BY <1>5, FsmMoves DEF WriteCommand
  <2>2. CASE wb = "WAIT_ACK"
    <3>1. wb' = "DONE" BY <2>2, WbMoves
    <3>2. i2c_wadr = "CR" /\ "EN" \in ctr /\ i2c_wdat = IF fsm = "WRITE_CR_STOP_READ_OP" THEN {"STO"} ELSE Cmd
      BY <1>5, <2>2, AccessWrites
    <3>3. CASE Quiet
      <4>1. c_state' = "IDLE" /\ cmd_ack' = 0 /\ cr' = IF fsm = "WRITE_CR_STOP_READ_OP" THEN {"STO"} ELSE Cmd
        BY <1>0, <3>2, <3>3, QuietWritten
      <4>2. IF fsm = "WRITE_CR_STOP_READ_OP" THEN Stopping' ELSE Written'
        BY <1>5, <1>d, <4>1 DEF Stopping, Written, WriteCommand
      <4> QED BY <1>5, <2>1, <3>1, <4>2 DEF CommandInv, WriteCommand
    <3>4. CASE Stopping /\ ~Quiet
      <4>1. fsm = "WRITE_CR_FOR_WRITE_OP" /\ ReadEnded BY <1>5, <2>2, <3>4 DEF CommandInv, WriteCommand
      <4>2. cr' = Cmd /\ ((c_state' = "IDLE" /\ cmd_ack' = 0) \/ Late')
        BY <1>0, <1>a, <3>2, <3>4, <4>1, StoppingWritten
      <4>3. Written' \/ (Late' /\ cr' = Cmd' /\ ReadEnded') BY <1>d, <4>1, <4>2 DEF Written
      <4> QED BY <2>1, <3>1, <4>1, <4>3 DEF CommandInv
    <3> QED BY <1>5, <2>2, <3>3, <3>4 DEF CommandInv, WriteCommand
  <2>3. CASE wb # "WAIT_ACK"
    <3>1. wb' # "DONE" /\ i2c_wadr = "none" BY <1>5, <1>a, <2>3, WbMoves, AccessWrites DEF WbState
    <3>2. fsm = "WRITE_CR_FOR_WRITE_OP" => Quiet' \/ (Stopping' /\ ReadEnded')
      BY <1>5, <1>b, <1>c, <1>d, <3>1 DEF CommandInv
    <3>3. fsm # "WRITE_CR_FOR_WRITE_OP" => Quiet' BY <1>5, <1>b, <3>1 DEF CommandInv, WriteCommand
    <3> QED BY <1>5, <2>1, <3>1, <3>2, <3>3 DEF CommandInv, WriteCommand
  <2> QED BY <2>2, <2>3
<1>6. CASE fsm = "WRITE_CR_STOP_READ_OP" /\ wb = "DONE"
  <2>1. fsm' = "DONE_STATE" /\ i2c_wadr = "none" BY <1>6, FsmMoves, AccessWrites
  <2>2. Stopping /\ ReadEnding BY <1>6 DEF CommandInv, FsmTop
  <2>3. Quiet' \/ (Stopping' /\ ReadEnding') BY <1>6, <1>c, <1>d, <2>1, <2>2
  <2> QED BY <2>1, <2>3 DEF CommandInv
<1>7. CASE fsm \in {"WRITE_CR_FOR_WRITE_OP", "WRITE_CR_FOR_READ_OP"} /\ wb = "DONE"
  <2>1. fsm' = "POLL_TIP" /\ wb' = "IDLE" /\ i2c_wadr = "none" BY <1>7, FsmMoves, WbMoves, AccessWrites
  <2>2. cr = Cmd /\ cr \cap {"RD", "WR"} # {} BY <1>7, CmdFacts DEF CommandInv, Written
  <2>3. CASE Written
    <3>1. c_state' = FirstPhase /\ cr' = cr /\ tip' = 1
      BY <1>0, <2>1, <2>2, <2>3, WrittenBegins DEF Written, EngineInv, One
    <3>2. FirstPhase # "IDLE" BY DEF FirstPhase
    <3>3. Busy' BY <1>7, <1>d, <2>2, <3>1, <3>2 DEF Busy
    <3> QED BY <2>1, <3>1, <3>3 DEF CommandInv
  <2>4. CASE Late
    <3>1. tip' = 1 BY <1>0, <1>a, <2>1, <2>2, <2>4, BusyGoesOn DEF Late, One
    <3>2. Quiet' \/ (cr' = cr /\ (c_state' # "IDLE" \/ cmd_ack' = 1))
      BY <1>0, <1>a, <2>1, <2>4, BusyGoesOn DEF Late
    <3>3. Quiet' \/ Busy' BY <1>7, <1>d, <2>2, <3>2 DEF Busy
    <3> QED BY <2>1, <3>1, <3>3 DEF CommandInv
  <2> QED BY <1>7, <2>3, <2>4 DEF CommandInv
<1>8. CASE fsm = "POLL_TIP"
  <2>1. i2c_wadr = "none" BY <1>8, AccessWrites DEF WriteCommand
  <2>2. Quiet' \/ Busy'
    <3>1. CASE Quiet BY <1>b, <2>1, <3>1
    <3>2. CASE Busy
      <4>1. Quiet' \/ (cr' = cr /\ (c_state' # "IDLE" \/ cmd_ack' = 1))
        BY <1>0, <1>a, <2>1, <3>2, BusyGoesOn DEF Busy
      <4> QED BY <1>8, <1>d, <3>2, <4>1 DEF Busy
    <3> QED BY <1>8, <3>1, <3>2 DEF CommandInv
  <2>3. tip' = 0 => Quiet'
    <3>1. CASE Quiet BY <1>b, <2>1, <3>1
    <3>2. CASE Busy
      <4>1. cr \cap {"RD", "WR"} # {} BY <3>2, CmdFacts DEF Busy
      <4> QED BY <1>0, <4>1 DEF I2cStep, StatusRegisters, One
    <3> QED BY <1>8, <3>1, <3>2 DEF CommandInv
  <2>4. ("TIP" \notin rd_sr /\ wb \in {"WAIT_ACK", "DONE"} => Quiet) BY <1>8 DEF CommandInv
  <2>5. wb' \in {"WAIT_ACK", "DONE"} /\ "TIP" \notin rd_sr' => Quiet'
    <3>1. CASE wb = "ISSUE"
      <4>1. rd_sr' = Status BY <1>8, <3>1 DEF ReadData_Step, Sampled, wb_we, wb_addr, WriteCommand
      <4>2. "TIP" \in Status <=> tip = 1 BY DEF Status, StatusBit
      <4>3. tip \in Bit BY <1>a DEF I2cTypeOK
      <4> QED BY <1>8, <1>b, <2>1, <4>1, <4>2, <4>3 DEF CommandInv, Bit
    <3>2. CASE wb = "WAIT_ACK"
      <4>1. rd_sr' = rd_sr BY <3>2 DEF ReadData_Step, Sampled
      <4> QED BY <1>b, <2>1, <2>4, <3>2, <4>1
    <3>3. CASE wb \notin {"ISSUE", "WAIT_ACK"}
      <4>1. wb' \notin {"WAIT_ACK", "DONE"} BY <1>a, <3>3, WbMoves DEF WbState
      <4> QED BY <4>1
    <3> QED BY <3>1, <3>2, <3>3
  <2>6. CASE fsm' = "POLL_TIP" BY <2>2, <2>3, <2>5, <2>6 DEF CommandInv
  <2>7. CASE fsm' # "POLL_TIP"
    <3>1. wb = "DONE" /\ "TIP" \notin rd_sr /\ fsm' \in {"READ_ACK", "READ_TXR"} BY <1>8, <2>7, FsmMoves
    <3>2. Quiet' BY <1>b, <2>1, <2>4, <3>1
    <3> QED BY <3>1, <3>2 DEF CommandInv
  <2> QED BY <2>6, <2>7
<1> QED BY <1>a, <1>1, <1>2, <1>3, <1>4, <1>5, <1>6, <1>7, <1>8 DEF FsmState, WriteCommand

\* PollInv is an invariant of the boot loader: the I2C master is quiet or busy exactly where
\* i2c_access_fsm takes it to be, the unwatched STOP of the read excepted.
THEOREM PollInvariant == Spec => []PollInv
<1>1. Init => PollInv
  <2> SUFFICES ASSUME Init PROVE PollInv OBVIOUS
  <2>1. Quiet BY DEF Init, MasterInit, I2cInit, Quiet
  <2> QED BY <2>1 DEF Init, MasterInit, I2cInit, PollInv, EngineInv, FsmTop, CommandInv
<1>2. ControlInv /\ PollInv /\ [Next]_vars => PollInv'
  <2> SUFFICES ASSUME ControlInv, PollInv, [Next]_vars PROVE PollInv' OBVIOUS
  <2>1. CASE Reset
    <3>1. Quiet' BY <2>1 DEF Reset, MasterReset, I2cReset, Quiet
    <3> QED BY <2>1, <3>1 DEF Reset, MasterReset, I2cReset, PollInv, EngineInv, FsmTop, CommandInv
  <2>2. CASE \E core_ack, wr_done \in Bit : Clock(core_ack, wr_done)
    <3>1. PICK core_ack \in Bit, wr_done \in Bit : Clock(core_ack, wr_done) BY <2>2
    <3>2. FsmTop' BY <3>1, FsmTopStep DEF Clock
    <3> QED BY <3>1, <3>2, EngineStep, CommandStep DEF PollInv
  <2>3. CASE UNCHANGED vars
    BY <2>3 DEF PollInv, EngineInv, FsmTop, CommandInv, Quiet, Stopping, Written, Busy, Late, ReadEnded, ReadEnding,
       Cmd, we, sram_access, generate_STA, generate_STO, generate_NACK, page_full, last_read,
       vars, topVars, wbVars, i2cVars
  <2> QED BY <2>1, <2>2, <2>3 DEF Next
<1> QED BY <1>1, <1>2, ControlInvariant, PTL DEF Spec

\* Once polling of TIP has ended the command is over and its acknowledge settled, for memories and
\* EEPROMs of any size and I2C phases of any length: TIP, though it rises late, is up whenever the
\* first poll samples it.
THEOREM PollCorrect == Spec => []PollOutlastsCommand
<1>1. PollInv => PollOutlastsCommand
  BY DEF PollInv, EngineInv, CommandInv, Quiet, PollOutlastsCommand
<1> QED BY <1>1, PollInvariant, PTL
==============================================================================
