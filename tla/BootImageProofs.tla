--------------------------- MODULE BootImageProofs ---------------------------
(***************************************************************************)
(* That the boot loader loads the image: the EEPROM and bootloader_top     *)
(* stay in step byte by byte, what is read is what the image holds, it is  *)
(* stored where it belongs, and the write-back leaves the image alone and  *)
(* copies all of it.                                                       *)
(* For memories, pages and EEPROMs of any size, any image and any number   *)
(* of resets, under the layout of boot_defs.svh (LayoutAssumption).        *)
(***************************************************************************)
EXTENDS BootloaderProofs, Integers

------------------------------------------------------------------------------
(***************************************************************************)
(* Arithmetic of two-byte addresses and of pages.                          *)
(***************************************************************************)

\* A quotient and a remainder are the only ones of their kind.
LEMMA DivMod ==
  ASSUME NEW n \in Nat \ {0}, NEW q \in Nat, NEW r \in 0 .. n - 1
  PROVE  (q * n + r) \div n = q /\ (q * n + r) % n = r
<1> DEFINE x == q * n + r
           d == x \div n
           m == x % n
<1>1. x \in Nat /\ q * n \in Nat OBVIOUS
<1>2. d \in Nat /\ m \in 0 .. n - 1 /\ x = d * n + m BY <1>1
<1>3. d = q
  <2>1. CASE d < q
    <3>1. d + 1 <= q BY <1>2, <2>1
    <3>2. (d + 1) * n <= q * n BY <1>2, <3>1
    <3>3. (d + 1) * n = d * n + n /\ d * n \in Nat BY <1>2
    <3> HIDE DEF d, m
    <3> QED BY <1>1, <1>2, <3>2, <3>3
  <2>2. CASE d > q
    <3>1. q + 1 <= d BY <1>2, <2>2
    <3>2. (q + 1) * n <= d * n BY <1>2, <3>1
    <3>3. (q + 1) * n = q * n + n /\ d * n \in Nat BY <1>2
    <3> HIDE DEF d, m
    <3> QED BY <1>1, <1>2, <3>2, <3>3
  <2> QED BY <1>2, <2>1, <2>2
<1>4. m = r
  <2>1. d * n = q * n BY <1>3
  <2> HIDE DEF d, m
  <2> QED BY <1>1, <1>2, <2>1
<1> QED BY <1>3, <1>4

\* The pointer p once the high byte of the address x was received, in a device of e bytes.
HighReplaced(n, e, x, p) == ((x \div n) * n + (p % n)) % e

\* The high address byte sets the block the pointer is in, whatever its low byte was.
LEMMA HighByteSets ==
  ASSUME NEW n \in Nat \ {0}, NEW e \in Nat \ {0}, e % n = 0, NEW x \in 0 .. e - 1, NEW p \in Nat
  PROVE  HighReplaced(n, e, x, p) \div n = x \div n
<1> DEFINE o == p % n
<1>1. o \in 0 .. n - 1 OBVIOUS
<1> HIDE DEF o
<1> DEFINE q == x \div n
<1>2. q \in Nat /\ x = q * n + (x % n) /\ x % n \in 0 .. n - 1 OBVIOUS
<1>3. x - (x % n) + o \in 0 .. e - 1 BY <1>1, PageInside
<1> DEFINE y == q * n + o
<1>4. y \in 0 .. e - 1
  <2> DEFINE m == q * n
             r == x % n
  <2>1. m \in Nat /\ x = m + r /\ r \in Nat /\ x - r + o \in 0 .. e - 1 /\ y = m + o BY <1>2, <1>3
  <2> HIDE DEF m, r, y
  <2>2. x - r + o = m + o BY <1>1, <2>1
  <2> QED BY <2>1, <2>2
<1>5. y \div n = q BY <1>1, <1>2, DivMod
<1> HIDE DEF y, q
<1>6. y % e = y BY <1>4
<1> QED BY <1>5, <1>6 DEF y, q, o, HighReplaced

\* The low address byte completes the address.
LEMMA LowByteSets ==
  ASSUME NEW n \in Nat \ {0}, NEW e \in Nat \ {0}, NEW x \in 0 .. e - 1
  PROVE  ((x \div n) * n + (x % n)) % e = x
<1>1. (x \div n) * n + (x % n) = x OBVIOUS
<1>2. x % e = x OBVIOUS
<1> QED BY <1>1, <1>2

\* The offset of an address in an aligned page.
LEMMA PageOffsetOf ==
  ASSUME NEW p \in Nat \ {0}, NEW a \in Nat, a % p = 0, NEW o \in 0 .. p - 1
  PROVE  (a + o) % p = o /\ (a + o) - ((a + o) % p) = a
<1>1. a \div p \in Nat /\ a = (a \div p) * p OBVIOUS
<1>2. ((a \div p) * p + o) % p = o BY <1>1, DivMod
<1>3. (a + o) % p = o BY <1>1, <1>2
<1> QED BY <1>3

\* The next page is aligned.
LEMMA NextPageAligned ==
  ASSUME NEW p \in Nat \ {0}, NEW a \in Nat, a % p = 0
  PROVE  (a + p) % p = 0
<1>1. a \div p \in Nat /\ a = (a \div p) * p OBVIOUS
<1>2. ((a \div p) + 1) * p = (a \div p) * p + p BY <1>1
<1>3. (a \div p) + 1 \in Nat /\ 0 \in 0 .. p - 1 BY <1>1
<1>4. (((a \div p) + 1) * p + 0) % p = 0 BY <1>3, DivMod
<1>5. ((a \div p) + 1) * p \in Nat BY <1>3
<1>6. ((a \div p) + 1) * p + 0 = a + p BY <1>1, <1>2, <1>5
<1> QED BY <1>4, <1>6

------------------------------------------------------------------------------
(***************************************************************************)
(* The addresses of bootloader_top.  The load starts at the read address;  *)
(* in the write-back the address pointer is the start of the page under    *)
(* way, and mem_index is as far past the write address as the pointer and  *)
(* the words already in the page buffer say.                               *)
(***************************************************************************)
AddressTops == {"WRITE_SLAVE_ADDR_W_BIT", "WRITE_WORD_ADDR_BYTE0", "WRITE_WORD_ADDR_BYTE1"}
LoadTops == ReadData \cup {"WRITE_SLAVE_ADDR_R_BIT", "WRITE_MEM"}
WriteTops == WriteData \cup {"READ_MEM"}

PagePos == IF mem_index = TOTAL THEN 0 ELSE mem_index

AddressInv ==
  /\ top \in AddressTops =>
       \/ mem_index = 0 /\ addr_pointer = EEPROM_READ_ADDR
       \/ mem_index > 0 /\ BOOT_WRITEBACK /\ addr_pointer = EEPROM_WRITE_ADDR + PagePos
  /\ top \in AddressTops \cup LoadTops => page_buffer_index = 0
  /\ top = "READ_MEM" => addr_pointer + 4 * page_buffer_index = EEPROM_WRITE_ADDR + mem_index
  /\ top \in WriteData => addr_pointer + 4 * page_buffer_index + 4 = EEPROM_WRITE_ADDR + mem_index
  /\ top \in WriteTops => BOOT_WRITEBACK /\ EEPROM_WRITE_ADDR <= addr_pointer
  /\ top \in WriteTops \/ (top \in AddressTops /\ mem_index > 0) => addr_pointer % PageBytes = 0
  /\ top = "BOOT_FINISH" => mem_index = TOTAL

\* The constants and counters as numbers.
LEMMA Numbers ==
  ASSUME ControlInv
  PROVE  /\ TOTAL \in Nat \ {0} /\ TOTAL % 4 = 0 /\ mem_index \in 0 .. TOTAL /\ mem_index % 4 = 0
         /\ EEPROM_READ_ADDR \in Nat /\ EEPROM_WRITE_ADDR \in Nat /\ addr_pointer \in Nat
         /\ PageBytes \in Nat \ {0} /\ PageWords \in Nat \ {0} /\ 4 * PageWords = PageBytes
         /\ page_buffer_index \in 0 .. PageWords - 1
         /\ Radix \in Nat \ {0} /\ EepromBytes \in Nat \ {0} /\ EepromBytes <= Radix * Radix
<1> USE BootAssumption, EepromAssumption
<1>1. TOTAL \in Nat \ {0} /\ TOTAL % 4 = 0 BY DEF TOTAL
<1>2. PageWords \in Nat \ {0} /\ 4 * PageWords = PageBytes BY DEF PageWords
<1>3. mem_index \in 0 .. TOTAL /\ mem_index % 4 = 0 /\ page_buffer_index \in 0 .. PageWords - 1
      /\ addr_pointer \in Nat
  BY DEF ControlInv, TypeOK, WordAligned
<1> QED BY <1>1, <1>2, <1>3 DEF EepAddr

\* A clock edge of bootloader_top keeps its addresses in step.
LEMMA AddressStep ==
  ASSUME ControlInv, AddressInv, TopStep
  PROVE  AddressInv'
<1> USE DEF GoTo, AddressTops, LoadTops, WriteTops, ReadData, ReadByteState, WriteData, WriteByteState
<1>0. /\ TOTAL \in Nat \ {0} /\ TOTAL % 4 = 0 /\ mem_index \in 0 .. TOTAL /\ mem_index % 4 = 0
      /\ EEPROM_READ_ADDR \in Nat /\ EEPROM_WRITE_ADDR \in Nat /\ addr_pointer \in Nat
      /\ PageBytes \in Nat \ {0} /\ PageWords \in Nat \ {0} /\ 4 * PageWords = PageBytes
      /\ page_buffer_index \in 0 .. PageWords - 1
  BY Numbers
<1>1. CASE SlaveAddrW \/ WordAddr0
  BY <1>1 DEF SlaveAddrW, WordAddr0, AddressInv, PagePos
<1>2. CASE WordAddr1
  <2>1. CASE mem_index = 0
    BY <1>0, <1>2, <2>1 DEF WordAddr1, AddressInv, PagePos
  <2>2. CASE mem_index > 0
    <3>1. /\ top' = "READ_MEM" /\ mem_index' = PagePos
          /\ UNCHANGED <<addr_pointer, page_buffer_index>>
      BY <1>2, <2>2 DEF WordAddr1, PagePos
    <3>2. BOOT_WRITEBACK /\ addr_pointer = EEPROM_WRITE_ADDR + PagePos /\ page_buffer_index = 0
          /\ addr_pointer % PageBytes = 0
      BY <1>2, <2>2, <1>0 DEF WordAddr1, AddressInv
    <3>3. PagePos \in Nat BY <1>0 DEF PagePos
    <3> HIDE DEF PagePos
    <3>4. addr_pointer + 4 * page_buffer_index = EEPROM_WRITE_ADDR + PagePos /\ EEPROM_WRITE_ADDR <= addr_pointer
      BY <3>2, <3>3, <1>0
    <3> QED BY <3>1, <3>2, <3>4 DEF AddressInv
  <2> QED BY <1>0, <2>1, <2>2
<1>3. CASE SlaveAddrR
  BY <1>3, <1>0 DEF SlaveAddrR, AddressInv
<1>4. CASE ReadDataByte
  <2>1. top \in ReadData /\ top' \in ReadData \cup {"WRITE_MEM"} /\ UNCHANGED <<mem_index, addr_pointer, page_buffer_index>>
    BY <1>4 DEF ReadDataByte, Lane
  <2> QED BY <2>1 DEF AddressInv
<1>5. CASE WriteMem
  <2>1. /\ mem_index' = mem_index + 4 /\ addr_pointer' = EEPROM_WRITE_ADDR
        /\ page_buffer_index' = 0
        /\ \/ top' = "READ_DATA_BYTE0"
           \/ top' = "BOOT_FINISH" /\ mem_index' = TOTAL
           \/ top' = "WRITE_SLAVE_ADDR_W_BIT" /\ BOOT_WRITEBACK /\ mem_index' = TOTAL
    BY <1>0, <1>5 DEF WriteMem, AfterLastRead, AddressInv, last_read
  <2>2. BOOT_WRITEBACK => EEPROM_WRITE_ADDR % PageBytes = 0 BY LayoutAssumption
  <2>3. EEPROM_WRITE_ADDR = EEPROM_WRITE_ADDR + 0 BY <1>0
  <2> QED BY <1>0, <2>1, <2>2, <2>3 DEF AddressInv, PagePos
<1>6. CASE ReadMem
  <2>1. /\ top' = "WRITE_DATA_BYTE0" /\ mem_index' = mem_index + 4
        /\ UNCHANGED <<addr_pointer, page_buffer_index>>
        /\ addr_pointer + 4 * page_buffer_index = EEPROM_WRITE_ADDR + mem_index
        /\ BOOT_WRITEBACK /\ EEPROM_WRITE_ADDR <= addr_pointer /\ addr_pointer % PageBytes = 0
    BY <1>6 DEF ReadMem, AddressInv
  <2>2. addr_pointer + 4 * page_buffer_index + 4 = EEPROM_WRITE_ADDR + (mem_index + 4)
    BY <1>0, <2>1
  <2> QED BY <2>1, <2>2 DEF AddressInv
<1>7. CASE WriteDataByte
  <2>1. top \in WriteData /\ top' \in WriteData /\ UNCHANGED <<mem_index, addr_pointer, page_buffer_index>>
    BY <1>7 DEF WriteDataByte
  <2> QED BY <2>1 DEF AddressInv
<1>8. CASE LastDataByte
  <2>1. /\ addr_pointer + 4 * page_buffer_index + 4 = EEPROM_WRITE_ADDR + mem_index
        /\ BOOT_WRITEBACK /\ EEPROM_WRITE_ADDR <= addr_pointer /\ addr_pointer % PageBytes = 0
        /\ mem_index' = mem_index
    BY <1>8 DEF LastDataByte, AddressInv
  <2>2. CASE mem_index = TOTAL
    BY <1>8, <2>1, <2>2 DEF LastDataByte, AddressInv
  <2>3. CASE mem_index # TOTAL /\ page_full
    <3>1. /\ top' = "WRITE_SLAVE_ADDR_W_BIT" /\ page_buffer_index' = 0
          /\ addr_pointer' = (addr_pointer + PageBytes) % (Radix * Radix)
      BY <1>8, <2>3 DEF LastDataByte, NextPage
    <3>2. addr_pointer + PageBytes = EEPROM_WRITE_ADDR + mem_index
      BY <1>0, <2>1, <2>3 DEF page_full
    <3>3. EEPROM_WRITE_ADDR + mem_index < Radix * Radix
      <4>1. EEPROM_WRITE_ADDR + TOTAL <= EepromBytes /\ EepromBytes <= Radix * Radix
            /\ EepromBytes \in Nat /\ Radix * Radix \in Nat
        BY <2>1, LayoutAssumption, EepromAssumption
      <4>2. EEPROM_WRITE_ADDR + mem_index < EEPROM_WRITE_ADDR + TOTAL BY <1>0, <2>3
      <4> QED BY <4>1, <4>2, <1>0
    <3>4. addr_pointer' = EEPROM_WRITE_ADDR + mem_index
      <4> DEFINE y == EEPROM_WRITE_ADDR + mem_index
                 w == Radix * Radix
      <4>1. y \in Nat /\ w \in Nat /\ y < w BY <1>0, <3>3, EepromAssumption
      <4>2. addr_pointer' = y % w BY <3>1, <3>2
      <4> HIDE DEF y, w
      <4>3. y % w = y BY <4>1
      <4> QED BY <4>2, <4>3 DEF y
    <3>5. (EEPROM_WRITE_ADDR + mem_index) % PageBytes = 0
      BY <1>0, <2>1, <3>2, NextPageAligned
    <3>6. mem_index > 0 BY <1>0, <2>1
    <3> QED BY <2>1, <2>3, <3>1, <3>4, <3>5, <3>6 DEF AddressInv, PagePos
  <2>4. CASE mem_index # TOTAL /\ ~page_full
    <3>1. /\ top' = "READ_MEM" /\ page_buffer_index' = page_buffer_index + 1
          /\ addr_pointer' = addr_pointer
      BY <1>8, <2>4 DEF LastDataByte
    <3>2. addr_pointer + 4 * (page_buffer_index + 1) = EEPROM_WRITE_ADDR + mem_index
      BY <1>0, <2>1
    <3> QED BY <2>1, <3>1, <3>2 DEF AddressInv
  <2> QED BY <2>2, <2>3, <2>4
<1>9. CASE Finish \/ TopHold
  BY <1>9 DEF Finish, TopHold, topVars, AddressInv, PagePos
<1> QED BY <1>1, <1>2, <1>3, <1>4, <1>5, <1>6, <1>7, <1>8, <1>9 DEF TopStep

------------------------------------------------------------------------------
(***************************************************************************)
(* The EEPROM under bootloader_top: what it expects before the byte of a   *)
(* state is sent (Ready), after its START (Addressed) and once it was      *)
(* taken (Taken).  Only the first slave address may go unanswered.         *)
(***************************************************************************)
At(st, p) == ee_st = st /\ ee_ptr = p /\ ee_act = 0

AfterRead == IF last_read THEN ee_st = "off" /\ ee_act = 0
                          ELSE At("read", EEPROM_READ_ADDR + mem_index + 4)

Ready ==
  /\ top = "WRITE_WORD_ADDR_BYTE0" => ee_st = "adhi" /\ ee_act = 0
  /\ top = "WRITE_WORD_ADDR_BYTE1" =>
       ee_st = "adlo" /\ ee_act = 0 /\ ee_ptr \div Radix = addr_pointer \div Radix
  /\ top = "WRITE_SLAVE_ADDR_R_BIT" => At("data", EEPROM_READ_ADDR)
  /\ \A k \in Lane : top = ReadByteState[k + 1] => At("read", EEPROM_READ_ADDR + mem_index + k)
  /\ top = "WRITE_MEM" => AfterRead
  /\ top = "READ_MEM" => At("data", EEPROM_WRITE_ADDR + mem_index)
  /\ \A k \in Lane : top = WriteByteState[k + 1] =>
       At("data", EEPROM_WRITE_ADDR + mem_index - 4 + k)

Addressed ==
  /\ ee_st = "ctrl"
  /\ top = "WRITE_SLAVE_ADDR_R_BIT" => At("ctrl", EEPROM_READ_ADDR)

Taken ==
  /\ top = "WRITE_SLAVE_ADDR_W_BIT" => ee_st = "adhi" /\ ee_act = 0
  /\ top = "WRITE_WORD_ADDR_BYTE0" =>
       ee_st = "adlo" /\ ee_act = 0 /\ ee_ptr \div Radix = addr_pointer \div Radix
  /\ top = "WRITE_WORD_ADDR_BYTE1" => At("data", addr_pointer)
  /\ top = "WRITE_SLAVE_ADDR_R_BIT" => At("read", EEPROM_READ_ADDR)
  /\ \A k \in 0 .. 2 : top = ReadByteState[k + 1] =>
       At("read", EEPROM_READ_ADDR + mem_index + k + 1)
  /\ top \in {"READ_DATA_BYTE3", "WRITE_MEM"} => AfterRead
  /\ top = "READ_MEM" => At("data", EEPROM_WRITE_ADDR + mem_index)
  /\ \A k \in 0 .. 2 : top = WriteByteState[k + 1] =>
       At("data", EEPROM_WRITE_ADDR + mem_index - 4 + k + 1)
  /\ top = "WRITE_DATA_BYTE3" /\ ~page_full => At("data", EEPROM_WRITE_ADDR + mem_index)

Answered(a) == (a = 0 /\ Taken) \/ (a = 1 /\ top = "WRITE_SLAVE_ADDR_W_BIT")

\* Nothing happened between the master and the EEPROM; the loader still asks for the same byte.
EepStays == UNCHANGED <<ee_st, ee_ptr>> /\ (ee_act = 0 => ee_act' = 0)
ByteStays == UNCHANGED <<top, mem_index, addr_pointer, page_buffer_index, data_word>>

\* The states of bootloader_top, one by one.
LEMMA ByteStates ==
  /\ ReadByteState[1] = "READ_DATA_BYTE0" /\ ReadByteState[2] = "READ_DATA_BYTE1"
  /\ ReadByteState[3] = "READ_DATA_BYTE2" /\ ReadByteState[4] = "READ_DATA_BYTE3"
  /\ WriteByteState[1] = "WRITE_DATA_BYTE0" /\ WriteByteState[2] = "WRITE_DATA_BYTE1"
  /\ WriteByteState[3] = "WRITE_DATA_BYTE2" /\ WriteByteState[4] = "WRITE_DATA_BYTE3"
  /\ ReadData = {"READ_DATA_BYTE0", "READ_DATA_BYTE1", "READ_DATA_BYTE2", "READ_DATA_BYTE3"}
  /\ WriteData = {"WRITE_DATA_BYTE0", "WRITE_DATA_BYTE1", "WRITE_DATA_BYTE2", "WRITE_DATA_BYTE3"}
  /\ Lane = {0, 1, 2, 3} /\ 0 .. 2 = {0, 1, 2}
BY DEF ReadByteState, WriteByteState, ReadData, WriteData, Lane

\* No two bytes share a state.
LEMMA BytesDiffer ==
  /\ \A j, k \in Lane : ReadByteState[j + 1] = ReadByteState[k + 1] => j = k
  /\ \A j, k \in Lane : WriteByteState[j + 1] = WriteByteState[k + 1] => j = k
  /\ \A k \in Lane : ReadByteState[k + 1] \in ReadData /\ WriteByteState[k + 1] \in WriteData
<1>1. \A k \in Lane : k = 0 \/ k = 1 \/ k = 2 \/ k = 3 BY DEF Lane
<1>2. 0 + 1 = 1 /\ 1 + 1 = 2 /\ 2 + 1 = 3 /\ 3 + 1 = 4 OBVIOUS
<1>3. \A j, k \in Lane : ReadByteState[j + 1] = ReadByteState[k + 1] => j = k
  BY <1>1, <1>2 DEF ReadByteState
<1>4. \A j, k \in Lane : WriteByteState[j + 1] = WriteByteState[k + 1] => j = k
  BY <1>1, <1>2 DEF WriteByteState
<1> QED BY <1>1, <1>3, <1>4, ByteStates

\* While neither side moves, what one expects of the other stays as it is.
LEMMA SessionStays ==
  ASSUME ByteStays, EepStays
  PROVE  /\ Ready => Ready'
         /\ Taken => Taken'
         /\ Addressed => Addressed'
         /\ w_byte' = w_byte /\ we' = we /\ generate_STA' = generate_STA /\ generate_STO' = generate_STO
         /\ generate_NACK' = generate_NACK /\ last_read' = last_read
BY DEF ByteStays, EepStays, Ready, Taken, Addressed, At, AfterRead, last_read, page_full, w_byte, we,
       generate_STA, generate_STO, generate_NACK

\* Once the byte of a state was taken, the EEPROM is ready for that of the next state.
LEMMA TakenThenReady ==
  ASSUME ControlInv, AddressInv, Taken, EepStays, TopStep, done
  PROVE  Ready'
<1> USE DEF GoTo
<1>0. /\ TOTAL \in Nat \ {0} /\ mem_index \in 0 .. TOTAL /\ mem_index \in Nat
      /\ EEPROM_READ_ADDR \in Nat /\ EEPROM_WRITE_ADDR \in Nat
  BY Numbers
<1>a. top # "BOOT_FINISH" BY DEF ControlInv, Handshake, done
<1>1. CASE SlaveAddrW
  BY <1>1, ByteStates DEF SlaveAddrW, Taken, Ready, EepStays
<1>2. CASE WordAddr0
  BY <1>2, ByteStates DEF WordAddr0, Taken, Ready, EepStays
<1>3. CASE WordAddr1
  <2>1. At("data", addr_pointer) BY <1>3 DEF WordAddr1, Taken
  <2>2. CASE mem_index = 0
    <3>1. top' = "WRITE_SLAVE_ADDR_R_BIT" /\ addr_pointer = EEPROM_READ_ADDR
      BY <1>3, <2>2, <1>0 DEF WordAddr1, AddressInv, AddressTops
    <3> QED BY <2>1, <3>1, ByteStates DEF Ready, EepStays, At
  <2>3. CASE mem_index > 0
    <3>1. top' = "READ_MEM" /\ mem_index' = PagePos /\ addr_pointer = EEPROM_WRITE_ADDR + PagePos
      BY <1>3, <2>3, <1>0 DEF WordAddr1, AddressInv, AddressTops, PagePos
    <3> QED BY <2>1, <3>1, ByteStates DEF Ready, EepStays, At
  <2> QED BY <1>0, <2>2, <2>3
<1>4. CASE SlaveAddrR
  <2>1. top' = "READ_DATA_BYTE0" /\ mem_index = 0 /\ mem_index' = 0
    BY <1>4, ByteStates DEF SlaveAddrR, ControlInv, IndexInRange
  <2>2. At("read", EEPROM_READ_ADDR) BY <1>4 DEF SlaveAddrR, Taken
  <2>3. EEPROM_READ_ADDR = EEPROM_READ_ADDR + 0 + 0 BY <1>0
  <2> QED BY <2>1, <2>2, <2>3, ByteStates DEF Ready, EepStays, At
<1>5. CASE ReadDataByte
  <2> PICK k \in Lane : /\ GoTo(ReadByteState[k + 1], IF k = 3 THEN "WRITE_MEM" ELSE ReadByteState[k + 2])
                        /\ UNCHANGED mem_index
    BY <1>5 DEF ReadDataByte
  <2>1. CASE k = 3
    <3>1. top = "READ_DATA_BYTE3" /\ top' = "WRITE_MEM" BY <2>1, ByteStates
    <3> QED BY <3>1, ByteStates DEF Taken, Ready, AfterRead, last_read, EepStays, At
  <2>2. CASE k # 3
    <3>1. k \in 0 .. 2 /\ top = ReadByteState[k + 1] /\ top' = ReadByteState[k + 2] /\ k + 1 \in Lane
      BY <2>2, ByteStates
    <3>2. At("read", EEPROM_READ_ADDR + mem_index + k + 1) BY <3>1 DEF Taken
    <3>3. EEPROM_READ_ADDR + mem_index + k + 1 = EEPROM_READ_ADDR + mem_index' + (k + 1)
      BY <1>0, <3>1
    <3>a. k + 2 = (k + 1) + 1 BY <3>1
    <3>4. \A j \in Lane : top' = ReadByteState[j + 1] => j = k + 1 BY <3>1, <3>a, BytesDiffer
    <3>5. top' \in ReadData BY <3>1, ByteStates
    <3>6. \A j \in Lane : top' = ReadByteState[j + 1] => (At("read", EEPROM_READ_ADDR + mem_index + j))'
      BY <3>2, <3>3, <3>4 DEF EepStays, At
    <3> QED BY <3>5, <3>6, ByteStates DEF Ready
  <2> QED BY <2>1, <2>2
<1>6. CASE WriteMem
  <2>1. top = "WRITE_MEM" /\ mem_index' = mem_index + 4 BY <1>6 DEF WriteMem
  <2>2. CASE last_read
    BY <1>6, <2>2, ByteStates DEF WriteMem, AfterLastRead, Ready
  <2>3. CASE ~last_read
    <3>1. top' = "READ_DATA_BYTE0" BY <1>6, <2>3 DEF WriteMem
    <3>2. At("read", EEPROM_READ_ADDR + mem_index + 4) BY <2>1, <2>3 DEF Taken, AfterRead
    <3>3. EEPROM_READ_ADDR + mem_index + 4 = EEPROM_READ_ADDR + mem_index' + 0 BY <1>0, <2>1
    <3> QED BY <3>1, <3>2, <3>3, ByteStates DEF Ready, EepStays, At
  <2> QED BY <2>2, <2>3
<1>7. CASE ReadMem
  <2>1. /\ top' = "WRITE_DATA_BYTE0" /\ mem_index' = mem_index + 4
        /\ At("data", EEPROM_WRITE_ADDR + mem_index)
    BY <1>7 DEF ReadMem, Taken
  <2>2. EEPROM_WRITE_ADDR + mem_index = EEPROM_WRITE_ADDR + mem_index' - 4 + 0 BY <1>0, <2>1
  <2> QED BY <2>1, <2>2, ByteStates DEF Ready, EepStays, At
<1>8. CASE WriteDataByte
  <2> PICK k \in 0 .. 2 : GoTo(WriteByteState[k + 1], WriteByteState[k + 2]) /\ UNCHANGED mem_index
    BY <1>8 DEF WriteDataByte
  <2>1. top = WriteByteState[k + 1] /\ top' = WriteByteState[k + 2] /\ k + 1 \in Lane BY ByteStates
  <2>2. At("data", EEPROM_WRITE_ADDR + mem_index - 4 + k + 1) BY <2>1 DEF Taken
  <2>3. EEPROM_WRITE_ADDR + mem_index - 4 + k + 1 = EEPROM_WRITE_ADDR + mem_index' - 4 + (k + 1)
    BY <1>0
  <2>a. k + 2 = (k + 1) + 1 OBVIOUS
  <2>4. \A j \in Lane : top' = WriteByteState[j + 1] => j = k + 1 BY <2>1, <2>a, BytesDiffer
  <2>5. top' \in WriteData BY <2>1, ByteStates
  <2>6. \A j \in Lane : top' = WriteByteState[j + 1] => (At("data", EEPROM_WRITE_ADDR + mem_index - 4 + j))'
    BY <2>2, <2>3, <2>4 DEF EepStays, At
  <2> QED BY <2>5, <2>6, ByteStates DEF Ready
<1>9. CASE LastDataByte
  <2>1. CASE top' = "READ_MEM"
    <3>1. top = "WRITE_DATA_BYTE3" /\ ~page_full /\ mem_index' = mem_index BY <1>9, <2>1 DEF LastDataByte
    <3> QED BY <2>1, <3>1, ByteStates DEF Taken, Ready, EepStays, At
  <2>2. CASE top' # "READ_MEM"
    <3>1. top' \in {"BOOT_FINISH", "WRITE_SLAVE_ADDR_W_BIT"} BY <1>9, <2>2 DEF LastDataByte
    <3> QED BY <3>1, ByteStates DEF Ready
  <2> QED BY <2>1, <2>2
<1> QED BY <1>a, <1>1, <1>2, <1>3, <1>4, <1>5, <1>6, <1>7, <1>8, <1>9 DEF TopStep, Finish, TopHold

\* Addresses of bytes that are sent or read lie inside the device.
LEMMA AddressInside ==
  ASSUME ControlInv, AddressInv
  PROVE  /\ top \in AddressTops => addr_pointer \in EepAddr
         /\ mem_index < TOTAL => \A k \in Lane : EEPROM_READ_ADDR + mem_index + k \in EepAddr
<1>0. /\ TOTAL \in Nat \ {0} /\ mem_index \in 0 .. TOTAL /\ TOTAL % 4 = 0 /\ mem_index % 4 = 0
      /\ EEPROM_READ_ADDR \in Nat /\ EEPROM_WRITE_ADDR \in Nat
      /\ EepromBytes \in Nat \ {0}
  BY Numbers
<1>1. ASSUME top \in AddressTops PROVE addr_pointer \in EepAddr
  <2>1. CASE addr_pointer = EEPROM_READ_ADDR BY <2>1, BootAssumption
  <2>2. CASE BOOT_WRITEBACK /\ addr_pointer = EEPROM_WRITE_ADDR + PagePos
    <3>1. PagePos \in 0 .. TOTAL - 1 BY <1>0 DEF PagePos
    <3>2. EEPROM_WRITE_ADDR + TOTAL <= EepromBytes BY <2>2, LayoutAssumption
    <3> HIDE DEF PagePos
    <3> QED BY <1>0, <2>2, <3>1, <3>2 DEF EepAddr
  <2> QED BY <1>1, <2>1, <2>2 DEF AddressInv
<1>2. ASSUME mem_index < TOTAL, NEW k \in Lane PROVE EEPROM_READ_ADDR + mem_index + k \in EepAddr
  <2>1. mem_index + 4 <= TOTAL BY <1>0, <1>2, NextAligned
  <2>2. k \in 0 .. 3 BY DEF Lane
  <2>3. EEPROM_READ_ADDR + TOTAL <= EepromBytes BY LayoutAssumption
  <2> QED BY <1>0, <2>1, <2>2, <2>3 DEF EepAddr
<1> QED BY <1>1, <1>2

\* A slave address after a START is acknowledged and opens the transfer, unless a write cycle is on:
\* then nobody answers.
LEMMA ControlByte ==
  ASSUME Addressed, generate_STA, ByteStays, NEW w, EepStep("byte", w_byte, w)
  PROVE  Answered(ee_sda)'
<1>1. ee_act = 0 => ee_act' = 0 BY DEF EepStep
<1>2. RecvControl(w_byte) BY DEF EepStep, RecvByte, RecvAddress, RecvData, RecvIgnored, Addressed
<1>3. CASE top = "WRITE_SLAVE_ADDR_W_BIT"
  <2>1. w_byte = EEPROM_ADDR_PLUS_W_BIT BY <1>3 DEF w_byte
  <2>2. top' = top BY DEF ByteStays
  <2>3. \/ ee_act = 0 /\ ee_st' = "adhi" /\ ee_sda' = 0
        \/ ee_sda' = 1
    BY <1>2, <2>1, EepromAssumption DEF RecvControl
  <2> QED BY <1>1, <1>3, <2>2, <2>3, ByteStates DEF Answered, Taken
<1>4. CASE top = "WRITE_SLAVE_ADDR_R_BIT"
  <2>1. w_byte = EEPROM_ADDR_PLUS_R_BIT BY <1>4 DEF w_byte
  <2>2. top' = top BY DEF ByteStays
  <2>3. ee_act = 0 /\ ee_ptr = EEPROM_READ_ADDR BY <1>4 DEF Addressed, At
  <2>4. ee_st' = "read" /\ ee_sda' = 0 /\ ee_ptr' = ee_ptr
    BY <1>2, <2>1, <2>3, EepromAssumption DEF RecvControl
  <2> QED BY <1>1, <1>4, <2>2, <2>3, <2>4, ByteStates DEF Answered, Taken, At
<1> QED BY <1>3, <1>4 DEF generate_STA

\* The two address bytes set the pointer to the address.
LEMMA AddressByte ==
  ASSUME ControlInv, AddressInv, Ready, top \in {"WRITE_WORD_ADDR_BYTE0", "WRITE_WORD_ADDR_BYTE1"},
         ByteStays, NEW w, EepStep("byte", w_byte, w)
  PROVE  ee_sda' = 0 /\ Taken'
<1>1. ee_act = 0 /\ ee_act' = 0 BY DEF EepStep, Ready
<1>2. RecvAddress(w_byte) BY DEF EepStep, RecvByte, RecvControl, RecvData, RecvIgnored, Ready
<1>3. addr_pointer \in 0 .. EepromBytes - 1 BY AddressInside DEF AddressTops, EepAddr
<1>4. /\ Radix \in Nat \ {0} /\ EepromBytes \in Nat \ {0} /\ EepromBytes % Radix = 0 /\ ee_ptr \in Nat
  BY Numbers, LayoutAssumption DEF ControlInv, TypeOK, EepTypeOK, EepAddr
<1>5. CASE top = "WRITE_WORD_ADDR_BYTE0"
  <2>1. ee_st' = "adlo" /\ ee_ptr' = ((addr_pointer \div Radix) * Radix + (ee_ptr % Radix)) % EepromBytes
    BY <1>2, <1>5 DEF RecvAddress, w_byte, Ready
  <2>2. ee_ptr' \div Radix = addr_pointer \div Radix
    <3>1. ee_ptr' = HighReplaced(Radix, EepromBytes, addr_pointer, ee_ptr) BY <2>1 DEF HighReplaced
    <3> QED BY <1>3, <1>4, <3>1, HighByteSets
  <2> QED BY <1>1, <1>2, <1>5, <2>1, <2>2, ByteStates DEF ByteStays, Taken, RecvAddress
<1>6. CASE top = "WRITE_WORD_ADDR_BYTE1"
  <2>1. ee_st' = "data" /\ ee_ptr' = ((addr_pointer \div Radix) * Radix + (addr_pointer % Radix)) % EepromBytes
    BY <1>2, <1>6 DEF RecvAddress, w_byte, Ready
  <2>2. ((addr_pointer \div Radix) * Radix + (addr_pointer % Radix)) % EepromBytes = addr_pointer
    BY <1>3, <1>4, LowByteSets
  <2> QED BY <1>1, <1>2, <1>6, <2>1, <2>2, ByteStates DEF ByteStays, Taken, RecvAddress, At
<1> QED BY <1>5, <1>6

\* Where in its page a byte of the write-back goes.
LEMMA WritePosition ==
  ASSUME ControlInv, AddressInv, NEW k \in Lane, top = WriteByteState[k + 1]
  PROVE  /\ EEPROM_WRITE_ADDR + mem_index - 4 + k = addr_pointer + (4 * page_buffer_index + k)
         /\ 4 * page_buffer_index + k \in 0 .. PageBytes - 1
         /\ k < 3 \/ ~page_full => 4 * page_buffer_index + k < PageBytes - 1
         /\ k = 3 /\ page_full => 4 * page_buffer_index + k = PageBytes - 1
         /\ addr_pointer \in Nat /\ addr_pointer % PageBytes = 0
<1>0. /\ mem_index \in Nat /\ EEPROM_WRITE_ADDR \in Nat /\ addr_pointer \in Nat
      /\ PageBytes \in Nat \ {0} /\ PageWords \in Nat \ {0} /\ 4 * PageWords = PageBytes
      /\ page_buffer_index \in 0 .. PageWords - 1 /\ k \in 0 .. 3
  BY Numbers DEF Lane
<1>1. top \in WriteData BY BytesDiffer
<1>2. addr_pointer + 4 * page_buffer_index + 4 = EEPROM_WRITE_ADDR + mem_index /\ addr_pointer % PageBytes = 0
  BY <1>1 DEF AddressInv, WriteTops
<1>3. page_full <=> page_buffer_index = PageWords - 1 BY DEF page_full
<1> QED BY <1>0, <1>2, <1>3

\* A data byte goes to its place in the page buffer, and the pointer to the next.
LEMMA DataByte ==
  ASSUME ControlInv, AddressInv, Ready, NEW k \in Lane, top = WriteByteState[k + 1],
         ByteStays, NEW w, EepStep("byte", w_byte, w)
  PROVE  ee_sda' = 0 /\ Taken' /\ RecvData(w_byte) /\ ee_act' = 0
<1>1. At("data", EEPROM_WRITE_ADDR + mem_index - 4 + k) BY DEF Ready
<1>2. ee_act' = 0 /\ RecvData(w_byte)
  BY <1>1 DEF EepStep, RecvByte, RecvControl, RecvAddress, RecvIgnored, At
<1> DEFINE o == 4 * page_buffer_index + k
<1>3. /\ ee_ptr = addr_pointer + o /\ o \in 0 .. PageBytes - 1
      /\ k < 3 \/ ~page_full => o < PageBytes - 1
      /\ addr_pointer \in Nat /\ addr_pointer % PageBytes = 0 /\ PageBytes \in Nat \ {0}
  BY <1>1, WritePosition, Numbers DEF At
<1> HIDE DEF o
<1>4. ee_ptr % PageBytes = o /\ PageBase = addr_pointer BY <1>3, PageOffsetOf DEF PageBase
<1>5. ee_ptr' = addr_pointer + ((o + 1) % PageBytes) /\ ee_st' = "data" /\ ee_sda' = 0
  BY <1>1, <1>2, <1>4 DEF RecvData, At
<1>6. k < 3 \/ ~page_full => ee_ptr' = EEPROM_WRITE_ADDR + mem_index - 4 + k + 1
  <2> SUFFICES ASSUME k < 3 \/ ~page_full PROVE ee_ptr' = EEPROM_WRITE_ADDR + mem_index - 4 + k + 1 OBVIOUS
  <2>1. (o + 1) % PageBytes = o + 1 BY <1>3
  <2>2. ee_ptr' = (addr_pointer + o) + 1 BY <1>3, <1>5, <2>1
  <2> QED BY <1>1, <1>3, <2>2 DEF At
<1>7. CASE k < 3
  <2>1. At("data", EEPROM_WRITE_ADDR + mem_index - 4 + k + 1)' BY <1>2, <1>5, <1>6, <1>7 DEF At, ByteStays
  <2>2. \A j \in 0 .. 2 : top' = WriteByteState[j + 1] => j = k
    <3>1. \A j \in 0 .. 2 : j \in Lane BY DEF Lane
    <3> QED BY <3>1, BytesDiffer DEF ByteStays
  <2>3. top' \in WriteData /\ top' # "WRITE_DATA_BYTE3" BY <1>7, ByteStates DEF ByteStays
  <2> QED BY <1>2, <1>5, <2>1, <2>2, <2>3, ByteStates DEF Taken
<1>8. CASE k = 3
  <2>1. top' = "WRITE_DATA_BYTE3" /\ page_full' = page_full BY <1>8, ByteStates DEF ByteStays, page_full
  <2>2. EEPROM_WRITE_ADDR + mem_index - 4 + k + 1 = EEPROM_WRITE_ADDR + mem_index BY <1>8, Numbers
  <2>3. ~page_full => At("data", EEPROM_WRITE_ADDR + mem_index)' BY <1>2, <1>5, <1>6, <2>2 DEF At, ByteStays
  <2> QED BY <1>2, <1>5, <2>1, <2>3, ByteStates DEF Taken
<1> QED BY <1>7, <1>8, ByteStates

\* The acknowledge of a byte read moves the EEPROM on; the not-acknowledge of the last byte ends the read.
LEMMA ReadByteTaken ==
  ASSUME ControlInv, AddressInv, Ready, top \in ReadData, ByteStays, NEW b, NEW w,
         EepStep(IF generate_NACK THEN "nack" ELSE "ack", b, w)
  PROVE  Taken'
<1>0. /\ TOTAL \in Nat \ {0} /\ mem_index \in 0 .. TOTAL /\ TOTAL % 4 = 0 /\ mem_index % 4 = 0 /\ mem_index < TOTAL
      /\ EEPROM_READ_ADDR \in Nat /\ EepromBytes \in Nat \ {0}
  BY Numbers DEF ControlInv, IndexInRange
<1>1. PICK k \in Lane : top = ReadByteState[k + 1] BY ByteStates
<1>2. At("read", EEPROM_READ_ADDR + mem_index + k) BY <1>1 DEF Ready
<1>3. /\ ee_act' = 0 /\ ee_ptr' = (ee_ptr + 1) % EepromBytes
      /\ ee_st' = IF generate_NACK THEN "off" ELSE "read"
  BY <1>2 DEF EepStep, MasterAck, At
<1>4. ~generate_NACK => ee_ptr' = EEPROM_READ_ADDR + mem_index + k + 1
  <2> SUFFICES ASSUME ~generate_NACK PROVE ee_ptr' = EEPROM_READ_ADDR + mem_index + k + 1 OBVIOUS
  <2>1. k \in 0 .. 3 /\ (k = 3 => ~last_read) BY <1>1, ByteStates DEF generate_NACK
  <2>2. mem_index + k + 1 < TOTAL
    <3>1. mem_index + 4 <= TOTAL BY <1>0, NextAligned
    <3> QED BY <1>0, <2>1, <3>1 DEF last_read
  <2>3. EEPROM_READ_ADDR + TOTAL <= EepromBytes BY LayoutAssumption
  <2>4. EEPROM_READ_ADDR + mem_index + k + 1 \in 0 .. EepromBytes - 1 BY <1>0, <2>1, <2>2, <2>3
  <2>5. ee_ptr + 1 = EEPROM_READ_ADDR + mem_index + k + 1 BY <1>2 DEF At
  <2> QED BY <1>0, <1>3, <2>4, <2>5
<1>5. CASE k < 3
  <2>1. ~generate_NACK BY <1>1, <1>5, ByteStates DEF generate_NACK
  <2>2. At("read", EEPROM_READ_ADDR + mem_index + k + 1)' BY <1>3, <1>4, <2>1 DEF At, ByteStays
  <2>3. \A j \in 0 .. 2 : top' = ReadByteState[j + 1] => j = k
    <3>1. \A j \in 0 .. 2 : j \in Lane BY DEF Lane
    <3> QED BY <1>1, <3>1, BytesDiffer DEF ByteStays
  <2>4. top' \in ReadData /\ top' # "READ_DATA_BYTE3" BY <1>1, <1>5, ByteStates DEF ByteStays
  <2> QED BY <2>2, <2>3, <2>4, ByteStates DEF Taken
<1>6. CASE k = 3
  <2>1. top' = "READ_DATA_BYTE3" /\ last_read' = last_read /\ (generate_NACK <=> last_read)
    BY <1>1, <1>6, ByteStates DEF ByteStays, last_read, generate_NACK
  <2>2. EEPROM_READ_ADDR + mem_index + k + 1 = EEPROM_READ_ADDR + mem_index + 4 BY <1>0, <1>6
  <2>3. AfterRead' BY <1>3, <1>4, <2>1, <2>2 DEF AfterRead, At, ByteStays
  <2> QED BY <2>1, <2>3, ByteStates DEF Taken
<1> QED BY <1>5, <1>6, ByteStates

------------------------------------------------------------------------------
(***************************************************************************)
(* The transfer of a byte: the state of the EEPROM in every phase of the   *)
(* I2C master, and the acknowledge it left.  The not-acknowledge of the    *)
(* last byte read stays in ack_out until the STOP of the read is over: it  *)
(* is what makes the boot loader repeat a slave address that this STOP     *)
(* wiped (Nacked).                                                         *)
(***************************************************************************)
BeforeByte ==
  \/ fsm \in {"I2C_ENABLE", "IDLE", "WRITE_TXR", "WRITE_CR_FOR_WRITE_OP", "WRITE_CR_FOR_READ_OP",
              "SRAM_WRITE", "SRAM_READ", "WRITE_CR_STOP_READ_OP"}
  \/ fsm = "POLL_TIP" /\ c_state \in {"START", "READ", "TXACK"}
  \/ fsm = "POLL_TIP" /\ c_state = "WRITE" /\ ~generate_STA

Nacked ==
  \/ /\ top = "READ_DATA_BYTE3" /\ last_read
     /\ (fsm = "POLL_TIP" /\ c_state = "IDLE") \/ fsm \in {"READ_TXR", "DONE_STATE"}
  \/ ReadEnding
  \/ /\ top = "WRITE_SLAVE_ADDR_W_BIT" /\ mem_index = TOTAL
     /\ \/ fsm = "IDLE"
        \/ fsm = "POLL_TIP" /\ c_state = "STOP"
        \/ fsm # "POLL_TIP" /\ (Stopping \/ Late)

SessionInv ==
  /\ BeforeByte => Ready
  /\ (fsm = "WRITE_TXR" /\ wb = "DONE") \/ fsm = "WRITE_CR_FOR_WRITE_OP" \/ (fsm = "POLL_TIP" /\ we)
       => txr = w_byte
  /\ fsm = "POLL_TIP" /\ c_state = "WRITE" => sr = w_byte
  /\ fsm = "POLL_TIP" /\ c_state = "WRITE" /\ generate_STA => Addressed
  /\ fsm = "POLL_TIP" /\ c_state = "RXACK" => Answered(ee_sda)
  /\ fsm = "POLL_TIP" /\ c_state = "STOP" /\ generate_STO => ack_out = 0
  /\ (fsm = "POLL_TIP" /\ we /\ c_state = "IDLE") \/ fsm = "READ_ACK" => Answered(ack_out)
  /\ fsm = "READ_ACK" /\ wb \in {"WAIT_ACK", "DONE"} => ("RXACK" \in rd_sr <=> ack_out = 1)
  /\ (fsm = "POLL_TIP" /\ ~we /\ c_state = "IDLE") \/ fsm \in {"READ_TXR", "DONE_STATE"} => Taken
  /\ Nacked => ack_out = 1

BootInv == ControlInv /\ PollInv /\ AddressInv /\ SessionInv

\* Without a bus event the EEPROM stays as it is; nor does a STOP it has no part in change it.
LEMMA EepWaits ==
  ASSUME NEW core_ack \in Bit, NEW wr_done, NEW b, EepStep(BusEvent(core_ack), b, wr_done),
         core_ack = 0 \/ c_state \in {"IDLE", "READ", "RXACK"} \/ (c_state = "STOP" /\ ee_st = "off")
  PROVE  EepStays /\ UNCHANGED <<ee_sda, ee_buf>>
<1>1. BusEvent(core_ack) = "none" \/ (BusEvent(core_ack) = "stop" /\ ee_st = "off")
  BY DEF BusEvent, Bit
<1>2. CASE BusEvent(core_ack) = "none" BY <1>2 DEF EepStep, EepStays
<1>3. CASE BusEvent(core_ack) = "stop" /\ ee_st = "off" BY <1>3 DEF EepStep, EepStays, StopCommits
<1> QED BY <1>1, <1>2, <1>3

\* The transmit register holds the byte to send from the write of TXR on.
LEMMA TransmitStep ==
  ASSUME BootInv, NEW core_ack \in Bit, NEW wr_done \in Bit, Clock(core_ack, wr_done)
  PROVE  ((fsm = "WRITE_TXR" /\ wb = "DONE") \/ fsm = "WRITE_CR_FOR_WRITE_OP" \/ (fsm = "POLL_TIP" /\ we)
            => txr = w_byte)'
<1> USE DEF Clock, BootInv
<1>0. fsm \in FsmState /\ wb \in WbState BY DEF ControlInv, TypeOK
<1>1. txr' = IF i2c_wadr = "TXR" THEN w_byte ELSE txr BY DEF I2cStep, WriteRegisters, i2c_wdat
<1>2. i2c_wadr = "TXR" <=> wb = "WAIT_ACK" /\ fsm = "WRITE_TXR" BY RegisterWrites DEF WriteCommand
<1>3. CASE fsm = "DONE_STATE"
  <2>1. fsm' = "IDLE" BY <1>3, FsmMoves
  <2> QED BY <2>1
<1>4. CASE fsm # "DONE_STATE"
  <2>1. UNCHANGED <<top, addr_pointer, data_word>> BY <1>4, TopWaits
  <2>2. w_byte' = w_byte /\ we' = we BY <2>1 DEF w_byte, we
  <2>3. CASE fsm' = "WRITE_TXR" /\ wb' = "DONE"
    <3>1. wb = "WAIT_ACK" BY <1>0, <2>3, WbMoves DEF WbState
    <3>2. fsm = "WRITE_TXR" BY <1>0, <1>4, <2>3, <3>1, FsmMoves DEF ControlInv, Handshake
    <3> QED BY <1>1, <1>2, <2>2, <3>1, <3>2
  <2>4. CASE fsm' = "WRITE_CR_FOR_WRITE_OP"
    <3>1. (fsm = "WRITE_TXR" /\ wb = "DONE") \/ fsm = "WRITE_CR_FOR_WRITE_OP"
      BY <1>0, <1>4, <2>4, FsmMoves DEF FsmState
    <3> QED BY <1>1, <1>2, <2>2, <3>1 DEF SessionInv
  <2>5. CASE fsm' = "POLL_TIP" /\ we'
    <3>1. fsm \in {"WRITE_CR_FOR_WRITE_OP", "WRITE_CR_FOR_READ_OP", "POLL_TIP"}
      BY <1>0, <1>4, <2>5, FsmMoves DEF FsmState
    <3>2. fsm # "WRITE_CR_FOR_READ_OP" BY <2>2, <2>5 DEF PollInv, FsmTop
    <3> QED BY <1>1, <1>2, <2>2, <2>5, <3>1, <3>2 DEF SessionInv
  <2> QED BY <2>3, <2>4, <2>5
<1> QED BY <1>3, <1>4

\* The loader goes to its next byte, with the EEPROM ready for it.
LEMMA SessionNextByte ==
  ASSUME BootInv, NEW core_ack \in Bit, NEW wr_done \in Bit, Clock(core_ack, wr_done), fsm = "DONE_STATE"
  PROVE  SessionInv'
<1> USE DEF Clock, BootInv
<1>1. fsm' = "IDLE" /\ i2c_wadr = "none" /\ done BY FsmMoves, AccessWrites DEF WriteCommand, done
<1>2. Taken BY DEF SessionInv
<1>3. EepStays /\ ack_out' = ack_out
  <2>1. CASE Quiet
    <3>1. EepStays BY <2>1, EepWaits DEF Quiet
    <3>2. ack_out' = ack_out BY <1>1, <2>1, QuietStays DEF PollInv
    <3> QED BY <3>1, <3>2
  <2>2. CASE Stopping /\ ReadEnding
    <3>1. ee_st = "off" BY <1>2, <2>2 DEF Taken, AfterRead, ReadEnding
    <3>2. EepStays BY <2>2, <3>1, EepWaits DEF Stopping
    <3>3. ack_out' = ack_out BY <1>1, <2>2, StoppingGoesOn DEF PollInv, ControlInv, TypeOK
    <3> QED BY <3>2, <3>3
  <2> QED BY <2>1, <2>2 DEF PollInv, CommandInv
<1>4. Ready' BY <1>1, <1>2, <1>3, TakenThenReady
<1>5. Nacked' => ack_out' = 1
  <2> SUFFICES ASSUME Nacked' PROVE ack_out = 1 BY <1>3
  <2>1. (top' = "WRITE_MEM" /\ last_read') \/ (top' = "WRITE_SLAVE_ADDR_W_BIT" /\ mem_index' = TOTAL)
    BY <1>1 DEF Nacked, ReadEnding
  <2>2. (top = "READ_DATA_BYTE3" /\ last_read) \/ ReadEnding
    <3>1. CASE top' = "WRITE_MEM" /\ last_read'
      <4>1. top = "READ_DATA_BYTE3" /\ UNCHANGED mem_index
        BY <1>1, <3>1, ByteStates DEF TopStep, TopHold, GoTo, Finish, SlaveAddrW, WordAddr0, WordAddr1, SlaveAddrR,
           ReadDataByte, WriteMem, AfterLastRead, ReadMem, WriteDataByte, LastDataByte
      <4> QED BY <3>1, <4>1 DEF last_read
    <3>2. CASE top' = "WRITE_SLAVE_ADDR_W_BIT" /\ mem_index' = TOTAL
      <4>1. WriteMem
        BY <1>1, <3>2, ByteStates DEF TopStep, TopHold, GoTo, Finish, SlaveAddrW, WordAddr0, WordAddr1, SlaveAddrR,
           ReadDataByte, ReadMem, WriteDataByte, LastDataByte
      <4> QED BY <3>2, <4>1 DEF WriteMem, GoTo, ReadEnding
    <3> QED BY <2>1, <3>1, <3>2
  <2> QED BY <2>2 DEF SessionInv, Nacked
<1> QED BY <1>1, <1>4, <1>5 DEF SessionInv

\* The steps during which the I2C master rests.
LEMMA SessionAtRest ==
  ASSUME BootInv, NEW core_ack \in Bit, NEW wr_done \in Bit, Clock(core_ack, wr_done),
         fsm \in {"I2C_ENABLE", "SRAM_WRITE", "SRAM_READ", "READ_ACK", "READ_TXR"}
  PROVE  SessionInv'
<1> USE DEF Clock, BootInv
<1>0. fsm \in FsmState /\ wb \in WbState /\ ack_out \in Bit BY DEF ControlInv, TypeOK, I2cTypeOK
<1>1. Quiet /\ i2c_wadr # "CR" BY AccessWrites DEF PollInv, CommandInv, WriteCommand
<1>2. Quiet' /\ ack_out' = ack_out /\ ~Stopping' /\ ~Late'
  <2>1. Quiet' /\ ack_out' = ack_out BY <1>1, QuietStays DEF PollInv
  <2> QED BY <2>1 DEF Quiet, Stopping, Late, Command
<1>3. EepStays BY <1>1, EepWaits DEF Quiet
<1>4. ByteStays BY TopWaits DEF ByteStays
<1>5. /\ Ready => Ready'
      /\ Taken => Taken'
      /\ w_byte' = w_byte /\ we' = we /\ last_read' = last_read /\ top' = top /\ mem_index' = mem_index
  BY <1>3, <1>4, SessionStays DEF ByteStays
<1>6. ((fsm = "WRITE_TXR" /\ wb = "DONE") \/ fsm = "WRITE_CR_FOR_WRITE_OP" \/ (fsm = "POLL_TIP" /\ we)
         => txr = w_byte)'
  BY TransmitStep
<1>7. CASE fsm = "I2C_ENABLE"
  <2>1. fsm' \in {"I2C_ENABLE", "IDLE"} /\ top' = "WRITE_SLAVE_ADDR_W_BIT" /\ mem_index' = 0
    BY <1>5, <1>7, FsmMoves DEF PollInv, FsmTop
  <2>2. ~Nacked'
    <3>1. TOTAL # 0 BY Numbers
    <3> QED BY <2>1, <3>1 DEF Nacked, ReadEnding
  <2> QED BY <1>5, <1>6, <1>7, <2>1, <2>2 DEF SessionInv, BeforeByte
<1>8. CASE fsm = "SRAM_WRITE"
  <2>1. fsm' \in {"SRAM_WRITE", "WRITE_CR_STOP_READ_OP", "DONE_STATE"} /\ top = "WRITE_MEM"
    BY <1>8, FsmMoves DEF ControlInv, Handshake
  <2>2. Ready' /\ Taken'
    <3>1. Ready BY <1>8 DEF SessionInv, BeforeByte
    <3>2. Taken BY <2>1, <3>1, ByteStates DEF Ready, Taken
    <3> QED BY <1>5, <3>1, <3>2
  <2>3. Nacked' => Nacked BY <1>2, <1>5, <2>1 DEF Nacked, ReadEnding
  <2> QED BY <1>2, <1>6, <2>1, <2>2, <2>3 DEF SessionInv
<1>9. CASE fsm = "SRAM_READ"
  <2>1. fsm' \in {"SRAM_READ", "DONE_STATE"} /\ top = "READ_MEM"
    BY <1>9, FsmMoves DEF ControlInv, Handshake
  <2>2. Ready' /\ Taken'
    <3>1. Ready BY <1>9 DEF SessionInv, BeforeByte
    <3>2. Taken BY <2>1, <3>1, ByteStates DEF Ready, Taken
    <3> QED BY <1>5, <3>1, <3>2
  <2>3. ~Nacked' BY <1>5, <2>1 DEF Nacked, ReadEnding
  <2> QED BY <1>6, <2>1, <2>2, <2>3 DEF SessionInv
<1>10. CASE fsm = "READ_TXR"
  <2>1. fsm' \in {"READ_TXR", "DONE_STATE"} /\ Taken' BY <1>5, <1>10, FsmMoves DEF SessionInv
  <2>2. Nacked' => Nacked BY <1>2, <1>5, <1>10, <2>1 DEF Nacked, ReadEnding
  <2> QED BY <1>2, <1>6, <2>1, <2>2 DEF SessionInv, BeforeByte
<1>11. CASE fsm = "READ_ACK"
  <2>1. Answered(ack_out) BY <1>11 DEF SessionInv
  <2>2. (wb \in {"WAIT_ACK", "DONE"} => ("RXACK" \in rd_sr <=> ack_out = 1))' \/ wb = "DONE"
    <3>1. CASE wb = "ISSUE"
      <4>1. rd_sr' = Status BY <1>11, <3>1 DEF ReadData_Step, Sampled, wb_we, wb_addr, WriteCommand
      <4>2. "RXACK" \in Status <=> rxack = 1 BY DEF Status, StatusBit
      <4>3. rxack = ack_out BY <1>1 DEF PollInv, EngineInv, Quiet
      <4> QED BY <1>2, <4>1, <4>2, <4>3
    <3>2. CASE wb = "WAIT_ACK"
      <4>1. rd_sr' = rd_sr BY <3>2 DEF ReadData_Step, Sampled
      <4> QED BY <1>2, <1>11, <3>2, <4>1 DEF SessionInv
    <3>3. CASE wb = "IDLE"
      <4>1. wb' = "ISSUE" BY <1>11, <3>3, WbMoves
      <4> QED BY <4>1
    <3> QED BY <1>0, <3>1, <3>2, <3>3 DEF WbState
  <2>3. ~Nacked'
    <3>1. we /\ ~sram_access BY <1>11 DEF PollInv, FsmTop
    <3>2. top # "READ_DATA_BYTE3" /\ top # "WRITE_MEM" BY <3>1, ByteStates DEF we, sram_access
    <3>3. fsm' # "IDLE" BY <1>0, <1>11, FsmMoves
    <3> QED BY <1>2, <1>5, <3>2, <3>3 DEF Nacked, ReadEnding, Quiet
  <2>4. Answered(ack_out)' BY <1>2, <1>5, <2>1 DEF Answered
  <2>5. CASE wb # "DONE"
    <3>1. fsm' = "READ_ACK" BY <1>11, <2>5, FsmMoves
    <3> QED BY <1>6, <2>2, <2>3, <2>4, <2>5, <3>1 DEF SessionInv, BeforeByte
  <2>6. CASE wb = "DONE"
    <3>1. "RXACK" \in rd_sr <=> ack_out = 1 BY <1>11, <2>6 DEF SessionInv
    <3>2. wb' = "IDLE" BY <2>6, WbMoves
    <3>3. CASE ack_out = 1
      <4>1. fsm' = "WRITE_TXR" BY <1>11, <2>6, <3>1, <3>3, FsmMoves
      <4>2. top = "WRITE_SLAVE_ADDR_W_BIT" BY <2>1, <3>3 DEF Answered
      <4>3. Ready' BY <1>5, <4>2, ByteStates DEF Ready
      <4> QED BY <2>3, <3>2, <4>1, <4>3 DEF SessionInv
    <3>4. CASE ack_out = 0
      <4>1. fsm' = "DONE_STATE" BY <1>11, <2>6, <3>1, <3>4, FsmMoves
      <4>2. Taken' BY <1>5, <2>1, <3>4 DEF Answered
      <4> QED BY <2>3, <4>1, <4>2 DEF SessionInv, BeforeByte
    <3> QED BY <1>0, <3>3, <3>4 DEF Bit
  <2> QED BY <2>5, <2>6
<1> QED BY <1>7, <1>8, <1>9, <1>10, <1>11

\* The steps up to the write of a command; the STOP of the read may still be running.
LEMMA SessionBeforeCommand ==
  ASSUME BootInv, NEW core_ack \in Bit, NEW wr_done \in Bit, Clock(core_ack, wr_done),
         fsm \in {"IDLE", "WRITE_TXR"} \/ (fsm \in WriteCommand /\ wb # "DONE")
  PROVE  SessionInv'
<1> USE DEF Clock, BootInv
<1>0. fsm \in FsmState /\ wb \in WbState /\ I2cTypeOK BY DEF ControlInv, TypeOK
<1>1. /\ fsm \in {"IDLE", "WRITE_TXR"} \cup WriteCommand /\ fsm # "DONE_STATE"
      /\ Quiet \/ (Stopping /\ ReadEnded)
  BY DEF PollInv, CommandInv, WriteCommand
<1>2. fsm' \in {"IDLE", "WRITE_TXR", "SRAM_WRITE", "SRAM_READ"} \cup WriteCommand /\ (fsm' = "IDLE" => fsm = "IDLE")
  BY <1>0, FsmMoves DEF WriteCommand
<1>3. ByteStays /\ top' = top /\ mem_index' = mem_index BY <1>1, TopWaits DEF ByteStays
<1>4. Ready
  BY <1>1 DEF SessionInv, BeforeByte, WriteCommand
<1>5. Ready'
  <2>1. CASE Quiet
    <3>1. EepStays BY <2>1, EepWaits DEF Quiet
    <3> QED BY <1>3, <1>4, <3>1, SessionStays
  <2>2. CASE ReadEnded
    BY <1>3, <2>2, ByteStates DEF Ready, ReadEnded
  <2> QED BY <1>1, <2>1, <2>2
<1>6. ack_out' = ack_out
  <2>1. CASE i2c_wadr = "CR"
    BY <1>0, <1>1, <2>1, AccessWrites, QuietWritten, StoppingWritten DEF PollInv
  <2>2. CASE i2c_wadr # "CR"
    BY <1>0, <1>1, <2>2, QuietStays, StoppingGoesOn DEF PollInv
  <2> QED BY <2>1, <2>2
<1>7. Nacked' => Nacked
  <2> SUFFICES ASSUME Nacked' PROVE Nacked OBVIOUS
  <2>1. CASE ReadEnding'
    BY <1>3, <2>1 DEF Nacked, ReadEnding, last_read
  <2>2. CASE ~ReadEnding'
    <3>1. top = "WRITE_SLAVE_ADDR_W_BIT" /\ mem_index = TOTAL /\ (fsm' = "IDLE" \/ Stopping' \/ Late')
      BY <1>2, <1>3, <2>2 DEF Nacked, WriteCommand
    <3>2. CASE fsm' = "IDLE" BY <1>2, <3>1, <3>2 DEF Nacked
    <3>3. CASE Quiet /\ fsm' # "IDLE"
      <4>1. CASE i2c_wadr = "CR"
        <5>1. fsm # "WRITE_CR_STOP_READ_OP" BY <3>1 DEF PollInv, FsmTop, ReadEnding
        <5>2. c_state' = "IDLE" /\ cmd_ack' = 0 /\ cr' = Cmd
          BY <3>3, <4>1, <5>1, AccessWrites, QuietWritten
        <5>3. Cmd # {"STO"} BY CmdFacts
        <5> QED BY <3>1, <3>3, <5>2, <5>3 DEF Stopping, Late
      <4>2. CASE i2c_wadr # "CR"
        <5>1. Quiet' BY <3>3, <4>2, QuietStays DEF PollInv
        <5> QED BY <3>1, <3>3, <5>1 DEF Quiet, Stopping, Late, Command
      <4> QED BY <4>1, <4>2
    <3>4. CASE Stopping
      BY <1>1, <3>1, <3>4 DEF Nacked, WriteCommand
    <3> QED BY <1>1, <3>2, <3>3, <3>4
  <2> QED BY <2>1, <2>2
<1>8. ((fsm = "WRITE_TXR" /\ wb = "DONE") \/ fsm = "WRITE_CR_FOR_WRITE_OP" \/ (fsm = "POLL_TIP" /\ we)
         => txr = w_byte)'
  BY TransmitStep
<1> QED BY <1>2, <1>5, <1>6, <1>7, <1>8 DEF SessionInv, WriteCommand

\* The step that takes a command up.
LEMMA SessionCommand ==
  ASSUME BootInv, NEW core_ack \in Bit, NEW wr_done \in Bit, Clock(core_ack, wr_done),
         fsm \in WriteCommand /\ wb = "DONE"
  PROVE  SessionInv'
<1> USE DEF Clock, BootInv
<1>0. fsm \in FsmState /\ wb \in WbState /\ I2cTypeOK BY DEF ControlInv, TypeOK
<1>1. i2c_wadr = "none" /\ wb' = "IDLE" BY AccessWrites, WbMoves
<1>2. ByteStays /\ top' = top /\ mem_index' = mem_index BY TopWaits DEF ByteStays, WriteCommand
<1>3. Ready BY DEF SessionInv, BeforeByte, WriteCommand
<1>4. ((fsm = "WRITE_TXR" /\ wb = "DONE") \/ fsm = "WRITE_CR_FOR_WRITE_OP" \/ (fsm = "POLL_TIP" /\ we)
         => txr = w_byte)'
  BY TransmitStep
<1>5. CASE fsm = "WRITE_CR_STOP_READ_OP"
  <2>1. Stopping /\ ReadEnding /\ fsm' = "DONE_STATE" BY <1>5, FsmMoves DEF PollInv, CommandInv, FsmTop
  <2>2. AfterRead /\ ee_st = "off" BY <1>3, <2>1 DEF Ready, AfterRead, ReadEnding
  <2>3. EepStays BY <2>1, <2>2, EepWaits DEF Stopping
  <2>4. Taken BY <2>1, <2>2, ByteStates DEF Taken, ReadEnding
  <2>5. Taken' BY <1>2, <2>3, <2>4, SessionStays
  <2>6. ack_out' = ack_out BY <1>0, <1>1, <2>1, StoppingGoesOn DEF PollInv
  <2>7. ack_out = 1 BY <2>1 DEF SessionInv, Nacked
  <2> QED BY <2>1, <2>5, <2>6, <2>7 DEF SessionInv, BeforeByte
<1>6. CASE fsm # "WRITE_CR_STOP_READ_OP" /\ Written
  <2>1. /\ fsm' = "POLL_TIP" /\ ~sram_access
        /\ fsm = "WRITE_CR_FOR_WRITE_OP" => we
        /\ fsm = "WRITE_CR_FOR_READ_OP" => ~we
    BY <1>6, FsmMoves DEF WriteCommand, PollInv, FsmTop
  <2>2. c_state' = FirstPhase /\ sr' = txr
    BY <1>1, <1>6, CmdFacts, WrittenBegins DEF Written
  <2>3. c_state' = IF generate_STA THEN "START" ELSE IF we THEN "WRITE" ELSE "READ"
    <3>1. generate_STA => we BY ByteStates DEF generate_STA, we
    <3> QED BY <1>6, <2>2, <3>1, CmdFacts DEF FirstPhase, Written
  <2>4. EepStays BY <1>6, EepWaits DEF Written
  <2>5. Ready' /\ w_byte' = w_byte /\ we' = we /\ generate_STA' = generate_STA
    BY <1>2, <1>3, <2>4, SessionStays
  <2>6. we => sr' = w_byte BY <1>6, <2>1, <2>2 DEF SessionInv, WriteCommand
  <2>7. ~Nacked'
    <3>1. top' # "WRITE_MEM" BY <1>2, <2>1 DEF sram_access
    <3> QED BY <2>1, <2>3, <3>1 DEF Nacked, ReadEnding
  <2> QED BY <1>4, <2>1, <2>3, <2>5, <2>6, <2>7 DEF SessionInv
<1>7. CASE fsm # "WRITE_CR_STOP_READ_OP" /\ ~Written
  <2>1. fsm = "WRITE_CR_FOR_WRITE_OP" /\ Late /\ cr = Cmd /\ ReadEnded /\ fsm' = "POLL_TIP"
    BY <1>7, FsmMoves DEF PollInv, CommandInv, WriteCommand
  <2>2. top = "WRITE_SLAVE_ADDR_W_BIT" /\ mem_index = TOTAL BY <2>1 DEF ReadEnded, ControlInv, Handshake
  <2>3. ack_out = 1 BY <2>1, <2>2 DEF SessionInv, Nacked
  <2>4. c_state' \in {"IDLE", "STOP"} /\ ack_out' = 1
    BY <2>1, <2>3 DEF Late, I2cStep, ByteController, Rest, BeginCommand, Go, WaitPhase, EndStart, EndWrite,
       EndRead, EndAck, EndStop, PollInv, EngineInv
  <2>5. we' /\ ~generate_STO' BY <1>2, <2>2, ByteStates DEF we, generate_STO
  <2> QED BY <1>2, <1>4, <2>1, <2>2, <2>4, <2>5 DEF SessionInv, BeforeByte, Answered
<1> QED BY <1>5, <1>6, <1>7

\* Polling after the command is over.
LEMMA SessionPolled ==
  ASSUME BootInv, NEW core_ack \in Bit, NEW wr_done \in Bit, Clock(core_ack, wr_done),
         fsm = "POLL_TIP", c_state = "IDLE"
  PROVE  SessionInv'
<1> USE DEF Clock, BootInv
<1>0. I2cTypeOK /\ wb \in WbState BY DEF ControlInv, TypeOK
<1>1. i2c_wadr = "none" BY AccessWrites DEF WriteCommand
<1>2. Quiet' /\ ack_out' = ack_out
  <2>1. CASE Quiet BY <1>1, <2>1, QuietStays DEF PollInv
  <2>2. CASE Busy BY <1>0, <1>1, <2>2, BusyGoesOn DEF PollInv, Busy, Bit
  <2> QED BY <2>1, <2>2 DEF PollInv, CommandInv
<1>3. EepStays BY EepWaits
<1>4. ByteStays /\ top' = top /\ mem_index' = mem_index /\ last_read' = last_read
  BY TopWaits DEF ByteStays, last_read
<1>5. (Taken => Taken') /\ we' = we BY <1>3, <1>4, SessionStays
<1>6. \/ fsm' = "POLL_TIP"
      \/ wb' = "IDLE" /\ fsm' = IF we THEN "READ_ACK" ELSE "READ_TXR"
  BY <1>0, FsmMoves, WbMoves
<1>7. we => Answered(ack_out)' BY <1>2, <1>4, <1>5 DEF SessionInv, Answered
<1>8. ~we => Taken' BY <1>5 DEF SessionInv
<1>9. Nacked' => Nacked
  <2>1. c_state' = "IDLE" /\ ~Stopping' /\ ~Late' BY <1>2 DEF Quiet, Stopping, Late, Command
  <2> QED BY <1>4, <1>6, <2>1 DEF Nacked, ReadEnding
<1>10. ((fsm = "WRITE_TXR" /\ wb = "DONE") \/ fsm = "WRITE_CR_FOR_WRITE_OP" \/ (fsm = "POLL_TIP" /\ we)
          => txr = w_byte)'
  BY TransmitStep
<1>11. c_state' = "IDLE" BY <1>2 DEF Quiet
<1> QED BY <1>2, <1>5, <1>6, <1>7, <1>8, <1>9, <1>10, <1>11 DEF SessionInv, BeforeByte

\* What is known of a command while its phases run.
LEMMA PhaseFacts ==
  ASSUME BootInv, fsm = "POLL_TIP", c_state # "IDLE"
  PROVE  /\ cr = Cmd /\ cmd_ack = 0 /\ ~sram_access /\ top # "BOOT_FINISH"
         /\ c_state = "START" => generate_STA /\ we
         /\ c_state \in {"WRITE", "RXACK"} => we
         /\ c_state \in {"READ", "TXACK"} => ~we /\ top \in ReadData
         /\ c_state = "STOP" => we /\ (generate_STO \/ (top = "WRITE_SLAVE_ADDR_W_BIT" /\ mem_index = TOTAL))
         /\ "TIP" \in rd_sr \/ wb # "DONE"
<1> USE DEF BootInv
<1>1. ~Quiet BY DEF Quiet
<1>2. Busy /\ ("TIP" \in rd_sr \/ wb # "DONE") BY <1>1 DEF PollInv, CommandInv
<1>3. cr = Cmd /\ cmd_ack = 0
  BY <1>2 DEF Busy, PollInv, EngineInv, ControlInv, TypeOK, I2cTypeOK, Bit
<1>4. ~sram_access /\ top # "BOOT_FINISH" BY DEF PollInv, FsmTop, ControlInv, Handshake
<1>5. c_state = "START" => generate_STA /\ we
  BY <1>3, CmdFacts, ByteStates DEF PollInv, EngineInv, generate_STA, we
<1>6. c_state \in {"WRITE", "RXACK"} => we BY <1>3, CmdFacts DEF PollInv, EngineInv
<1>7. c_state \in {"READ", "TXACK"} => ~we /\ top \in ReadData
  BY <1>3, <1>4, CmdFacts DEF PollInv, EngineInv, we, sram_access
<1>8. c_state = "STOP" => we /\ (generate_STO \/ (top = "WRITE_SLAVE_ADDR_W_BIT" /\ mem_index = TOTAL))
  BY <1>3, <1>4, CmdFacts, ByteStates DEF PollInv, EngineInv, we, generate_STO, ReadEnded
<1> QED BY <1>2, <1>3, <1>4, <1>5, <1>6, <1>7, <1>8

\* A phase of a command goes on or ends.
LEMMA SessionPhase ==
  ASSUME BootInv, NEW core_ack \in Bit, NEW wr_done \in Bit, Clock(core_ack, wr_done),
         fsm = "POLL_TIP", c_state # "IDLE"
  PROVE  SessionInv'
<1> USE DEF Clock, BootInv
<1>0. I2cTypeOK /\ wb \in WbState /\ c_state \in Phase BY DEF ControlInv, TypeOK, I2cTypeOK
<1>1. fsm' = "POLL_TIP" BY PhaseFacts, FsmMoves
<1>2. ByteStays /\ top' = top /\ mem_index' = mem_index /\ last_read' = last_read
  BY TopWaits DEF ByteStays, last_read
<1>3. /\ cr = Cmd /\ ~sram_access /\ top # "WRITE_MEM"
      /\ we' = we /\ w_byte' = w_byte /\ generate_STA' = generate_STA /\ generate_STO' = generate_STO
  BY <1>2, PhaseFacts DEF sram_access, we, w_byte, generate_STA, generate_STO, page_full, ByteStays
<1>4. ByteController(core_ack, EepTx, ee_sda) /\ EepStep(BusEvent(core_ack), sr, wr_done) BY DEF I2cStep
<1>5. ((fsm = "WRITE_TXR" /\ wb = "DONE") \/ fsm = "WRITE_CR_FOR_WRITE_OP" \/ (fsm = "POLL_TIP" /\ we)
         => txr = w_byte)'
  BY TransmitStep
<1>6. \* What remains to be shown of a step inside POLL_TIP.
      ASSUME c_state' \in {"START", "READ", "TXACK"} => Ready',
             c_state' = "WRITE" => sr' = w_byte /\ IF generate_STA THEN Addressed' ELSE Ready',
             c_state' = "RXACK" => Answered(ee_sda)',
             c_state' = "STOP" /\ generate_STO => ack_out' = 0,
             c_state' = "STOP" /\ ~generate_STO => ack_out' = 1,
             c_state' = "IDLE" /\ we => Answered(ack_out)',
             c_state' = "IDLE" /\ ~we => Taken' /\ (top = "READ_DATA_BYTE3" /\ last_read => ack_out' = 1)
      PROVE  SessionInv'
  <2>1. Nacked' => ack_out' = 1
    <3>1. "READ_DATA_BYTE3" \in ReadData BY ByteStates
    <3> QED BY <1>1, <1>2, <1>3, <1>6, <3>1 DEF Nacked, ReadEnding, we, generate_STO
  <2> QED BY <1>1, <1>3, <1>5, <1>6, <2>1 DEF SessionInv, BeforeByte
<1>7. CASE core_ack = 0
  <2>1. UNCHANGED <<c_state, sr, ack_out>>
    BY <1>4, <1>7 DEF ByteController, Rest, BeginCommand, WaitPhase, EndStart, EndWrite, EndRead, EndAck, EndStop
  <2>2. EepStays /\ UNCHANGED ee_sda BY <1>4, <1>7, EepWaits
  <2>3. (Ready => Ready') /\ (Taken => Taken') /\ (Addressed => Addressed') BY <1>2, <2>2, SessionStays
  <2>4. c_state = "STOP" /\ ~generate_STO => ack_out = 1 BY PhaseFacts DEF SessionInv, Nacked
  <2>5. c_state = "RXACK" => Answered(ee_sda)' BY <1>2, <2>2, <2>3 DEF SessionInv, Answered
  <2> QED BY <1>6, <2>1, <2>3, <2>4, <2>5 DEF SessionInv, BeforeByte
<1>8. CASE core_ack = 1 /\ c_state = "START"
  <2>1. c_state' = "WRITE" /\ sr' = w_byte
    <3>1. we /\ "RD" \notin cr BY <1>3, <1>8, PhaseFacts, CmdFacts
    <3>2. sr' = txr /\ c_state' = "WRITE"
      BY <1>4, <1>8, <3>1 DEF ByteController, Rest, BeginCommand, WaitPhase, EndStart, EndWrite, EndRead, EndAck, EndStop
    <3> QED BY <3>1, <3>2 DEF SessionInv
  <2>2. Addressed'
    <3>1. BusEvent(core_ack) = "start" BY <1>8 DEF BusEvent
    <3>2. ee_st' = "ctrl" /\ ee_ptr' = ee_ptr /\ (ee_act = 0 => ee_act' = 0) BY <1>4, <3>1 DEF EepStep
    <3>3. Ready BY <1>8 DEF SessionInv, BeforeByte
    <3> QED BY <1>2, <3>2, <3>3 DEF Addressed, Ready, At
  <2>3. generate_STA BY <1>8, PhaseFacts
  <2> QED BY <1>6, <2>1, <2>2, <2>3
<1>9. CASE core_ack = 1 /\ c_state = "WRITE"
  <2>1. c_state' = "RXACK"
    BY <1>4, <1>9 DEF ByteController, Rest, BeginCommand, WaitPhase, EndStart, EndWrite, EndRead, EndAck, EndStop
  <2>2. EepStep("byte", w_byte, wr_done) /\ we
    <3>1. BusEvent(core_ack) = "byte" /\ sr = w_byte BY <1>9 DEF BusEvent, SessionInv
    <3> QED BY <1>4, <1>9, <3>1, PhaseFacts
  <2>3. CASE generate_STA
    BY <1>2, <1>6, <1>9, <2>1, <2>2, <2>3, ControlByte DEF SessionInv
  <2>4. CASE ~generate_STA
    <3>1. Ready BY <1>9, <2>4 DEF SessionInv, BeforeByte
    <3>2. top \in {"WRITE_WORD_ADDR_BYTE0", "WRITE_WORD_ADDR_BYTE1"} \cup WriteData
      BY <1>3, <2>2, <2>4, PhaseFacts DEF generate_STA, we, sram_access, ControlInv, TypeOK, TopState
    <3>3. ee_sda' = 0 /\ Taken'
      <4>1. CASE top \in {"WRITE_WORD_ADDR_BYTE0", "WRITE_WORD_ADDR_BYTE1"}
        BY <1>2, <2>2, <3>1, <4>1, AddressByte
      <4>2. CASE top \in WriteData
        <5>1. PICK k \in Lane : top = WriteByteState[k + 1] BY <4>2, ByteStates
        <5> QED BY <1>2, <2>2, <3>1, <5>1, DataByte
      <4> QED BY <3>2, <4>1, <4>2
    <3>4. Answered(ee_sda)' BY <3>3 DEF Answered
    <3> QED BY <1>6, <2>1, <3>4
  <2> QED BY <2>3, <2>4
<1>10. CASE core_ack = 1 /\ c_state = "RXACK"
  <2>1. EepStays BY <1>4, <1>10, EepWaits
  <2>2. Answered(ee_sda) BY <1>10 DEF SessionInv
  <2>3. (Taken => Taken') BY <1>2, <2>1, SessionStays
  <2>4. ack_out' = ee_sda /\ c_state' = (IF generate_STO THEN "STOP" ELSE "IDLE")
    <3>1. "STO" \in cr <=> generate_STO BY <1>3, CmdFacts
    <3> QED BY <1>4, <1>10, <3>1 DEF ByteController, Rest, BeginCommand, WaitPhase, EndStart, EndWrite, EndRead, EndAck,
            EndStop
  <2>5. generate_STO => ee_sda = 0 BY <2>2 DEF generate_STO, Answered
  <2>6. Answered(ack_out)' BY <1>2, <2>2, <2>3, <2>4 DEF Answered
  <2>7. we BY <1>10, PhaseFacts
  <2> QED BY <1>6, <2>4, <2>5, <2>6, <2>7
<1>11. CASE core_ack = 1 /\ c_state = "READ"
  <2>1. EepStays BY <1>4, <1>11, EepWaits
  <2>2. Ready BY <1>11 DEF SessionInv, BeforeByte
  <2>3. Ready' BY <1>2, <2>1, <2>2, SessionStays
  <2>4. c_state' = "TXACK"
    BY <1>4, <1>11 DEF ByteController, Rest, BeginCommand, WaitPhase, EndStart, EndWrite, EndRead, EndAck, EndStop
  <2> QED BY <1>6, <2>3, <2>4
<1>12. CASE core_ack = 1 /\ c_state = "TXACK"
  <2>1. Ready /\ ~we /\ top \in ReadData BY <1>12, PhaseFacts DEF SessionInv, BeforeByte
  <2>2. "STO" \notin cr /\ ("ACK" \in cr <=> generate_NACK)
    BY <1>3, <2>1, CmdFacts DEF Cmd, Flag
  <2>3. c_state' = "IDLE" /\ ack_out' = AckIn
    BY <1>4, <1>12, <2>2 DEF ByteController, Rest, BeginCommand, WaitPhase, EndStart, EndWrite, EndRead, EndAck,
       EndStop
  <2>4. AckIn = IF generate_NACK THEN 1 ELSE 0 BY <2>2 DEF AckIn, One
  <2>5. BusEvent(core_ack) = IF generate_NACK THEN "nack" ELSE "ack" BY <1>12, <2>4 DEF BusEvent
  <2>6. Taken' BY <1>2, <1>4, <2>1, <2>5, ReadByteTaken
  <2>7. top = "READ_DATA_BYTE3" /\ last_read => ack_out' = 1 BY <2>3, <2>4 DEF generate_NACK
  <2> QED BY <1>6, <2>1, <2>3, <2>6, <2>7
<1>13. CASE core_ack = 1 /\ c_state = "STOP"
  <2>1. c_state' = "IDLE" /\ ack_out' = ack_out
    BY <1>4, <1>13 DEF ByteController, Rest, BeginCommand, WaitPhase, EndStart, EndWrite, EndRead, EndAck, EndStop
  <2>2. we BY <1>13, PhaseFacts
  <2>3. CASE generate_STO
    <3>1. top' = "WRITE_DATA_BYTE3" /\ page_full' BY <1>2, <2>3 DEF generate_STO, page_full, ByteStays
    <3>2. ack_out' = 0 BY <1>13, <2>1, <2>3 DEF SessionInv
    <3>3. Taken' BY <3>1, ByteStates DEF Taken
    <3> QED BY <1>6, <2>1, <2>2, <3>2, <3>3 DEF Answered
  <2>4. CASE ~generate_STO
    <3>1. top = "WRITE_SLAVE_ADDR_W_BIT" /\ mem_index = TOTAL BY <1>13, <2>4, PhaseFacts
    <3>2. ack_out = 1 BY <1>13, <3>1 DEF SessionInv, Nacked
    <3> QED BY <1>2, <1>6, <2>1, <2>2, <3>1, <3>2 DEF Answered
  <2> QED BY <2>3, <2>4
<1> QED BY <1>0, <1>7, <1>8, <1>9, <1>10, <1>11, <1>12, <1>13 DEF Phase, Bit

\* The boot loader starts in step with any EEPROM: its first byte is a START.
LEMMA InitSession == Init => AddressInv /\ SessionInv
<1> SUFFICES ASSUME Init PROVE AddressInv /\ SessionInv OBVIOUS
<1>1. /\ top = "WRITE_SLAVE_ADDR_W_BIT" /\ mem_index = 0 /\ fsm = "I2C_ENABLE" /\ wb = "IDLE"
      /\ addr_pointer = EEPROM_READ_ADDR /\ page_buffer_index = 0
  BY DEF Init, MasterInit
<1>2. TOTAL # 0 BY InitControl, Numbers
<1>3. ~Nacked BY <1>1, <1>2 DEF Nacked, ReadEnding
<1>4. Ready BY <1>1, ByteStates DEF Ready
<1>5. AddressInv BY <1>1, ByteStates DEF AddressInv, AddressTops, WriteTops
<1>6. SessionInv BY <1>1, <1>3, <1>4 DEF SessionInv
<1> QED BY <1>5, <1>6

\* So does a reset, whatever transfer it cuts short.
LEMMA ResetSession ==
  ASSUME ControlInv, Reset
  PROVE  AddressInv' /\ SessionInv'
<1>1. /\ top' = "WRITE_SLAVE_ADDR_W_BIT" /\ mem_index' = 0 /\ fsm' = "I2C_ENABLE" /\ wb' = "IDLE"
      /\ addr_pointer' = EEPROM_READ_ADDR /\ page_buffer_index' = 0
  BY DEF Reset, MasterReset
<1>2. TOTAL # 0 BY Numbers
<1>3. ~Nacked' BY <1>1, <1>2 DEF Nacked, ReadEnding
<1>4. Ready' BY <1>1, ByteStates DEF Ready
<1>5. AddressInv' BY <1>1, ByteStates DEF AddressInv, AddressTops, WriteTops
<1>6. SessionInv' BY <1>1, <1>3, <1>4 DEF SessionInv
<1> QED BY <1>5, <1>6

\* BootInv is an invariant: the boot loader, the I2C master and the EEPROM agree, in every clock
\* cycle, on the byte under way, its address and its acknowledge.
THEOREM BootInvariant == Spec => []BootInv
<1>1. Init => AddressInv /\ SessionInv BY InitSession
<1>2. BootInv /\ [Next]_vars => AddressInv' /\ SessionInv'
  <2> SUFFICES ASSUME BootInv, [Next]_vars PROVE AddressInv' /\ SessionInv' OBVIOUS
  <2>1. CASE Reset BY <2>1, ResetSession DEF BootInv
  <2>2. CASE \E core_ack, wr_done \in Bit : Clock(core_ack, wr_done)
    <3>1. PICK core_ack \in Bit, wr_done \in Bit : Clock(core_ack, wr_done) BY <2>2
    <3>2. AddressInv' BY <3>1, AddressStep DEF BootInv, Clock
    <3>3. fsm \in FsmState BY DEF BootInv, ControlInv, TypeOK
    <3>4. SessionInv'
      BY <3>1, <3>3, SessionNextByte, SessionAtRest, SessionBeforeCommand, SessionCommand, SessionPolled, SessionPhase
         DEF FsmState, WriteCommand
    <3> QED BY <3>2, <3>4
  <2>3. CASE UNCHANGED vars
    <3>1. UNCHANGED <<topVars, wbVars, i2cVars, eeVars, fsm>> BY <2>3 DEF vars
    <3>2. ByteStays /\ EepStays /\ UNCHANGED <<top, mem_index, fsm, wb, rd_sr, c_state, cr, cmd_ack, ack_out, txr, sr, ee_sda>>
      BY <3>1 DEF topVars, wbVars, i2cVars, eeVars, ByteStays, EepStays
    <3>3. AddressInv' BY <3>2 DEF BootInv, AddressInv, PagePos, ByteStays
    <3>4. /\ (Ready => Ready') /\ (Taken => Taken') /\ (Addressed => Addressed')
          /\ w_byte' = w_byte /\ we' = we /\ generate_STA' = generate_STA /\ generate_STO' = generate_STO
          /\ last_read' = last_read
      BY <3>2, SessionStays
    <3>5. Nacked' = Nacked /\ BeforeByte' = BeforeByte
      BY <3>2, <3>4 DEF Nacked, ReadEnding, Stopping, Late, BeforeByte
    <3>6. (Answered(ee_sda) => Answered(ee_sda)') /\ (Answered(ack_out) => Answered(ack_out)')
      BY <3>2, <3>4 DEF Answered
    <3>7. SessionInv' BY <3>2, <3>4, <3>5, <3>6 DEF BootInv, SessionInv
    <3> QED BY <3>3, <3>7
  <2> QED BY <2>1, <2>2, <2>3 DEF Next
<1> QED BY <1>1, <1>2, ControlInvariant, PollInvariant, PTL DEF Spec, BootInv

\* Between two bytes the boot loader and the EEPROM agree on what comes next and at which address,
\* for every layout, I2C phases and write cycles of any length, and resets at any time.
THEOREM InStep == Spec => []EepromInStep
<1>1. BootInv => EepromInStep
  <2> SUFFICES ASSUME BootInv, fsm = "IDLE" PROVE EepromInStep BY DEF EepromInStep
  <2>1. Ready BY DEF BootInv, SessionInv, BeforeByte
  <2>2. top = "WRITE_WORD_ADDR_BYTE1" =>
          ee_ptr \div Radix = (addr_pointer \div Radix) % (EepromBytes \div Radix)
    <3> SUFFICES ASSUME top = "WRITE_WORD_ADDR_BYTE1"
                 PROVE  addr_pointer \div Radix = (addr_pointer \div Radix) % (EepromBytes \div Radix)
      BY <2>1 DEF Ready
    <3>1. addr_pointer \in 0 .. EepromBytes - 1 BY AddressInside DEF BootInv, AddressTops, EepAddr
    <3>2. Radix \in Nat \ {0} /\ EepromBytes \in Nat \ {0} /\ EepromBytes % Radix = 0
      BY Numbers, LayoutAssumption DEF BootInv
    <3>3. \A n, e \in Nat \ {0} : \A x \in 0 .. e - 1 : e % n = 0 => x \div n = (x \div n) % (e \div n)
      <4> TAKE n, e \in Nat \ {0}
      <4> TAKE x \in 0 .. e - 1
      <4> HAVE e % n = 0
      <4> DEFINE q == x \div n
                 m == e \div n
      <4>1. q \in Nat /\ m \in Nat /\ q * n <= x /\ e = m * n /\ q * n \in Nat /\ m * n \in Nat OBVIOUS
      <4>2. q < m
        <5> SUFFICES ASSUME m <= q PROVE FALSE BY <4>1
        <5>1. m * n <= q * n BY <4>1
        <5> HIDE DEF q, m
        <5> QED BY <4>1, <5>1
      <4> HIDE DEF q, m
      <4>3. q = q % m BY <4>1, <4>2
      <4> QED BY <4>3 DEF q, m
    <3> QED BY <3>1, <3>2, <3>3
  <2> QED BY <2>1, <2>2 DEF EepromInStep, Ready, At
<1> QED BY <1>1, BootInvariant, PTL

------------------------------------------------------------------------------
(***************************************************************************)
(* The image in the EEPROM.  What a commit would write, now (ee_act = 1)   *)
(* or after a STOP that a reset forges (ee_st = "data"), lies in the copy; *)
(* a device that is being addressed has no data to commit.                 *)
(***************************************************************************)
CopyArea == EEPROM_WRITE_ADDR .. EEPROM_WRITE_ADDR + TOTAL - 1

BufferInv ==
  /\ ee_st \in {"adhi", "adlo"} => DOMAIN ee_buf = {}
  /\ DOMAIN ee_buf # {} /\ (ee_act = 1 \/ ee_st = "data") => BOOT_WRITEBACK /\ ee_ptr \in CopyArea

\* No multiple of the page size lies inside a page.
LEMMA PageBounds ==
  ASSUME NEW p \in Nat \ {0}, NEW x \in Nat, NEW m \in Nat, m % p = 0
  PROVE  /\ m <= x => m <= x - (x % p)
         /\ x < m => x - (x % p) + p <= m
<1> DEFINE q == x \div p
           t == m \div p
           r == x % p
<1>1. q \in Nat /\ t \in Nat /\ r \in 0 .. p - 1 /\ x = q * p + r /\ m = t * p OBVIOUS
<1>2. q * p \in Nat /\ t * p \in Nat /\ (q + 1) * p = q * p + p BY <1>1
<1>3. t <= q => t * p <= q * p BY <1>1
<1>4. q + 1 <= t => (q + 1) * p <= t * p BY <1>1
<1>5. t >= q + 1 => t * p >= q * p + p BY <1>2, <1>4
<1>6. t <= q \/ q + 1 <= t BY <1>1
<1> DEFINE a == q * p
           b == t * p
<1>7. /\ a \in Nat /\ b \in Nat /\ x = a + r /\ m = b
      /\ b <= a \/ a + p <= b
  BY <1>1, <1>2, <1>3, <1>4, <1>6
<1>8. r \in 0 .. p - 1 BY <1>1
<1> HIDE DEF a, b, r, q, t
<1>9. (m <= x => m <= x - r) /\ (x < m => x - r + p <= m) BY <1>7, <1>8
<1> QED BY <1>9 DEF r

\* A page with one byte in the copy lies in the copy.
LEMMA PageInCopy ==
  ASSUME BOOT_WRITEBACK, NEW x \in CopyArea, NEW a \in Nat, a - (a % PageBytes) = x - (x % PageBytes)
  PROVE  a \in CopyArea
<1>0. /\ PageBytes \in Nat \ {0} /\ EEPROM_WRITE_ADDR \in Nat /\ TOTAL \in Nat /\ x \in Nat
      /\ EEPROM_WRITE_ADDR % PageBytes = 0 /\ TOTAL % PageBytes = 0
  BY BootAssumption, EepromAssumption, LayoutAssumption DEF TOTAL, EepAddr, CopyArea
<1> DEFINE e == EEPROM_WRITE_ADDR + TOTAL
           r == a % PageBytes
           b == x - (x % PageBytes)
<1>1. e \in Nat /\ e % PageBytes = 0
  <2>1. EEPROM_WRITE_ADDR = (EEPROM_WRITE_ADDR \div PageBytes) * PageBytes
        /\ TOTAL = (TOTAL \div PageBytes) * PageBytes
        /\ EEPROM_WRITE_ADDR \div PageBytes \in Nat /\ TOTAL \div PageBytes \in Nat
    BY <1>0
  <2> DEFINE u == EEPROM_WRITE_ADDR \div PageBytes
             v == TOTAL \div PageBytes
  <2>2. u \in Nat /\ v \in Nat /\ e = u * PageBytes + v * PageBytes BY <2>1
  <2> HIDE DEF u, v, e
  <2>3. u * PageBytes + v * PageBytes = (u + v) * PageBytes BY <1>0, <2>2
  <2>4. e = (u + v) * PageBytes + 0 /\ u + v \in Nat /\ (u + v) * PageBytes \in Nat BY <1>0, <2>2, <2>3
  <2>5. ((u + v) * PageBytes + 0) % PageBytes = 0 BY <1>0, <2>4, DivMod
  <2> QED BY <2>4, <2>5
<1>2. EEPROM_WRITE_ADDR <= b BY <1>0, PageBounds DEF CopyArea
<1>3. x < e BY <1>0 DEF CopyArea
<1> HIDE DEF e
<1>4. b + PageBytes <= e BY <1>0, <1>1, <1>3, PageBounds
<1>5. r \in 0 .. PageBytes - 1 /\ a = b + r /\ b \in Int
  <2>1. r \in 0 .. PageBytes - 1 /\ (x % PageBytes) \in 0 .. PageBytes - 1 BY <1>0
  <2>2. a - r = b BY DEF b, r
  <2> QED BY <1>0, <2>1, <2>2
<1> HIDE DEF b, r
<1>6. EEPROM_WRITE_ADDR <= a /\ a < e BY <1>0, <1>1, <1>2, <1>4, <1>5
<1> QED BY <1>0, <1>6 DEF e, CopyArea

\* Only a byte in the transfer of a command reaches the EEPROM.
LEMMA PhasesOnlyPolling ==
  ASSUME BootInv, c_state \in {"START", "READ", "WRITE", "RXACK", "TXACK"}
  PROVE  fsm = "POLL_TIP"
BY DEF BootInv, PollInv, CommandInv, Quiet, Stopping, Written, Late, ControlInv, TypeOK, FsmState

\* Data bytes of the write-back go to the buffer of a page of the copy; nothing else does.
LEMMA BufferStep ==
  ASSUME BootInv, BufferInv, NEW core_ack \in Bit, NEW wr_done \in Bit, Clock(core_ack, wr_done)
  PROVE  BufferInv'
<1> USE DEF Clock, BootInv
<1>0. EepStep(BusEvent(core_ack), sr, wr_done) OBVIOUS
<1>1. ee_act' = 1 => ee_act = 1 \/ (ee_act = 0 /\ BusEvent(core_ack) = "stop" /\ StopCommits)
  BY DEF EepStep, ControlInv, TypeOK, EepTypeOK
<1>2. CASE BusEvent(core_ack) \in {"none", "start", "stop"}
  <2>1. UNCHANGED <<ee_ptr, ee_buf>> /\ (ee_st' = ee_st \/ ee_st' \in {"ctrl", "off"})
    BY <1>0, <1>2 DEF EepStep
  <2> QED BY <1>1, <2>1 DEF BufferInv, StopCommits
<1>3. CASE BusEvent(core_ack) \in {"ack", "nack"}
  <2>1. c_state = "TXACK" BY <1>3 DEF BusEvent
  <2>2. fsm = "POLL_TIP" /\ top \in ReadData BY <2>1, PhasesOnlyPolling, PhaseFacts
  <2>3. ee_act = 0 /\ ee_st = "read"
    <3>1. Ready BY <2>1, <2>2 DEF SessionInv, BeforeByte
    <3> QED BY <2>2, <3>1, ByteStates DEF Ready, At
  <2>4. ee_act' = 0 /\ ee_st' \in {"off", "read"} BY <1>0, <1>3, <2>3 DEF EepStep, MasterAck
  <2> QED BY <2>4 DEF BufferInv
<1>4. CASE BusEvent(core_ack) = "byte"
  <2>1. c_state = "WRITE" BY <1>4 DEF BusEvent
  <2>2. fsm = "POLL_TIP" /\ we /\ ~sram_access /\ top # "BOOT_FINISH" BY <2>1, PhasesOnlyPolling, PhaseFacts
  <2>3. EepStep("byte", w_byte, wr_done) BY <1>0, <1>4, <2>1, <2>2 DEF SessionInv
  <2>4. ByteStays BY <2>2, TopWaits DEF ByteStays
  <2>5. CASE generate_STA
    <3>1. ee_st = "ctrl" BY <2>1, <2>2, <2>5 DEF SessionInv, Addressed
    <3>2. RecvControl(w_byte) BY <2>3, <3>1 DEF EepStep, RecvByte, RecvAddress, RecvData, RecvIgnored
    <3>3. \/ ee_st' = "adhi" /\ DOMAIN ee_buf' = {} /\ ee_ptr' = ee_ptr
          \/ ee_st' \in {"read", "off"} /\ UNCHANGED <<ee_ptr, ee_buf>>
      BY <3>2 DEF RecvControl, NoBytes
    <3> QED BY <1>1, <1>4, <3>3 DEF BufferInv
  <2>6. CASE ~generate_STA
    <3>1. Ready BY <2>1, <2>2, <2>6 DEF SessionInv, BeforeByte
    <3>2. top \in {"WRITE_WORD_ADDR_BYTE0", "WRITE_WORD_ADDR_BYTE1"} \cup WriteData
      BY <2>2, <2>6 DEF generate_STA, we, sram_access, ControlInv, TypeOK, TopState
    <3>3. CASE top \in {"WRITE_WORD_ADDR_BYTE0", "WRITE_WORD_ADDR_BYTE1"}
      <4>1. RecvAddress(w_byte) /\ DOMAIN ee_buf = {}
        BY <2>3, <3>1, <3>3 DEF EepStep, RecvByte, RecvControl, RecvData, RecvIgnored, Ready, BufferInv
      <4> QED BY <4>1 DEF RecvAddress, BufferInv
    <3>4. CASE top \in WriteData
      <4>1. PICK k \in Lane : top = WriteByteState[k + 1] BY <3>4, ByteStates
      <4>2. RecvData(w_byte) /\ ee_act' = 0 BY <2>3, <2>4, <3>1, <4>1, DataByte
      <4>3. ee_st' = "data" /\ ee_ptr' = PageBase + (((ee_ptr % PageBytes) + 1) % PageBytes)
        BY <4>2 DEF RecvData
      <4> DEFINE o == 4 * page_buffer_index + k
                 z == (o + 1) % PageBytes
      <4>4. /\ ee_ptr = addr_pointer + o /\ o \in 0 .. PageBytes - 1 /\ PageBytes \in Nat \ {0}
            /\ addr_pointer \in Nat /\ addr_pointer % PageBytes = 0
        BY <3>1, <4>1, WritePosition, Numbers DEF Ready, At
      <4> HIDE DEF o
      <4>5. ee_ptr % PageBytes = o /\ PageBase = addr_pointer BY <4>4, PageOffsetOf DEF PageBase
      <4>6. z \in 0 .. PageBytes - 1 BY <4>4
      <4>7. ee_ptr' = addr_pointer + z BY <4>3, <4>5
      <4> HIDE DEF z
      <4>8. ee_ptr' - (ee_ptr' % PageBytes) = addr_pointer BY <4>4, <4>6, <4>7, PageOffsetOf
      <4>9. addr_pointer \in CopyArea /\ BOOT_WRITEBACK
        <5>1. /\ addr_pointer + 4 * page_buffer_index + 4 = EEPROM_WRITE_ADDR + mem_index
              /\ BOOT_WRITEBACK /\ EEPROM_WRITE_ADDR <= addr_pointer
          BY <3>4 DEF AddressInv, WriteTops
        <5>2. mem_index \in 0 .. TOTAL /\ page_buffer_index \in Nat /\ TOTAL \in Nat /\ EEPROM_WRITE_ADDR \in Nat
          BY Numbers
        <5> QED BY <4>4, <5>1, <5>2 DEF CopyArea
      <4>10. addr_pointer - (addr_pointer % PageBytes) = addr_pointer BY <4>4
      <4>11. ee_ptr' \in Nat BY <4>4, <4>6, <4>7
      <4>12. ee_ptr' \in CopyArea BY <4>8, <4>9, <4>10, <4>11, PageInCopy
      <4> QED BY <4>2, <4>3, <4>9, <4>12 DEF BufferInv
    <3> QED BY <3>2, <3>3, <3>4
  <2> QED BY <2>5, <2>6
<1> QED BY <1>2, <1>3, <1>4 DEF BusEvent

\* A commit leaves the image as it is.
LEMMA ImageStep ==
  ASSUME ControlInv, BufferInv, ImageIntact, NEW ev, NEW b, NEW w, EepStep(ev, b, w)
  PROVE  ImageIntact'
<1>1. CASE UNCHANGED ee_mem BY <1>1 DEF ImageIntact
<1>2. CASE ee_act = 1 /\ ee_mem' = CommitPage
  <2> SUFFICES ASSUME NEW i \in 0 .. TOTAL - 1
               PROVE  ee_mem'[EEPROM_READ_ADDR + i] = ImageByte(i)
    BY DEF ImageIntact
  <2> DEFINE a == EEPROM_READ_ADDR + i
  <2>0. /\ TOTAL \in Nat /\ EEPROM_READ_ADDR \in Nat /\ EEPROM_WRITE_ADDR \in Nat /\ EepromBytes \in Nat
        /\ EEPROM_READ_ADDR + TOTAL <= EepromBytes
    BY Numbers, LayoutAssumption
  <2>1. a \in EepAddr /\ a \in Nat BY <2>0 DEF EepAddr
  <2>2. ee_mem[a] = ImageByte(i) BY DEF ImageIntact
  <2>3. CASE a - (a % PageBytes) = PageBase /\ (a % PageBytes) \in DOMAIN ee_buf
    <3>1. BOOT_WRITEBACK /\ ee_ptr \in CopyArea BY <1>2, <2>3 DEF BufferInv
    <3>2. a \in CopyArea BY <2>1, <2>3, <3>1, PageInCopy DEF PageBase
    <3>3. \/ EEPROM_READ_ADDR + TOTAL <= EEPROM_WRITE_ADDR
          \/ EEPROM_WRITE_ADDR + TOTAL <= EEPROM_READ_ADDR
      BY <3>1, LayoutAssumption
    <3>4. FALSE BY <2>0, <3>2, <3>3 DEF CopyArea
    <3> QED BY <3>4
  <2>4. CASE ~(a - (a % PageBytes) = PageBase /\ (a % PageBytes) \in DOMAIN ee_buf)
    <3> HIDE DEF a
    <3>1. ee_mem'[a] = ee_mem[a] BY <1>2, <2>1, <2>4 DEF CommitPage
    <3> QED BY <2>2, <3>1 DEF a
  <2> QED BY <2>3, <2>4
<1> QED BY <1>1, <1>2 DEF EepStep

------------------------------------------------------------------------------
(***************************************************************************)
(* The image in memory: the bytes on their way from the shift register of  *)
(* the I2C master through rd_byte and data_word to the SRAM, and the words *)
(* that are already there.                                                 *)
(***************************************************************************)
Loading == top \in LoadTops \/ (top \in AddressTops /\ mem_index = 0)

LoadInv ==
  /\ \A k \in Lane : top = ReadByteState[k + 1] =>
       /\ \A j \in Lane : j < k => data_word[j] = ImageByte(mem_index + j)
       /\ (fsm = "POLL_TIP" /\ c_state \in {"TXACK", "IDLE"}) \/ fsm = "READ_TXR" =>
            sr = ImageByte(mem_index + k)
       /\ (fsm = "READ_TXR" /\ wb \in {"WAIT_ACK", "DONE"}) \/ fsm = "DONE_STATE" =>
            rd_byte = ImageByte(mem_index + k)
  /\ top = "WRITE_MEM" => \A j \in Lane : data_word[j] = ImageByte(mem_index + j)
  /\ top = "WRITE_MEM" /\ ((fsm = "SRAM_WRITE" /\ wb \in {"WAIT_ACK", "DONE"})
                           \/ fsm \in {"WRITE_CR_STOP_READ_OP", "DONE_STATE"})
       => sram[mem_addr] = data_word
  /\ \A a \in SramAddr : ImageIndex(a) < mem_index \/ ~Loading => sram[a] = Image[a]

ImageInv == BufferInv /\ ImageIntact /\ LoadInv

\* ImageIndex inverts mem_addr: every word of memory has its place in the image.
LEMMA ImageIndexFacts ==
  ASSUME ControlInv
  PROVE  /\ \A a \in SramAddr : ImageIndex(a) \in 0 .. TOTAL - 1 /\ ImageIndex(a) % 4 = 0
         /\ mem_index < TOTAL => mem_addr \in SramAddr /\ ImageIndex(mem_addr) = mem_index
         /\ mem_index < TOTAL => \A a \in SramAddr : ImageIndex(a) = mem_index => a = mem_addr
<1> USE BootAssumption
<1>0. mem_index \in 0 .. TOTAL /\ mem_index % 4 = 0 BY Numbers
<1>1. \A a \in SramAddr : ImageIndex(a) \in 0 .. TOTAL - 1 /\ ImageIndex(a) % 4 = 0
  BY DEF SramAddr, WordAligned, ImageIndex, TOTAL
<1>2. mem_index < TOTAL => mem_addr \in SramAddr BY MemAddrInSram DEF ControlInv
<1>3. mem_index < TOTAL => ImageIndex(mem_addr) = mem_index
  BY <1>0 DEF ImageIndex, mem_addr, TOTAL
<1>4. mem_index < TOTAL => \A a \in SramAddr : ImageIndex(a) = mem_index => a = mem_addr
  BY <1>0 DEF ImageIndex, mem_addr, TOTAL, SramAddr, WordAligned
<1> QED BY <1>1, <1>2, <1>3, <1>4

\* A word put together from the bytes of the image is the word of the image.
LEMMA ImageWord ==
  ASSUME ControlInv, mem_index < TOTAL, \A j \in Lane : data_word[j] = ImageByte(mem_index + j)
  PROVE  data_word = Image[mem_addr]
<1>1. mem_addr \in SramAddr /\ ImageIndex(mem_addr) = mem_index BY ImageIndexFacts
<1>2. Image[mem_addr] = [k \in Lane |-> ImageByte(mem_index + k)] BY <1>1 DEF Image
<1>3. data_word = [k \in Lane |-> data_word[k]] BY DEF ControlInv, TypeOK, Word
<1> QED BY <1>2, <1>3

\* The SRAM is written only by the store of a word, in SRAM_WRITE.
LEMMA SramWrites ==
  ASSUME ControlInv, SramStep
  PROVE  IF fsm = "SRAM_WRITE" /\ wb \in {"ISSUE", "WAIT_ACK"}
         THEN sram' = [sram EXCEPT ![mem_addr] = data_word] ELSE sram' = sram
<1>1. stb /\ to_sram /\ wb_we <=> fsm = "SRAM_WRITE" /\ wb \in {"ISSUE", "WAIT_ACK"}
  BY DEF stb, to_sram, wb_addr, wb_we, WriteCommand, ControlInv, TypeOK, FsmState, Handshake
<1> QED BY <1>1 DEF SramStep

\* The loader moves to its next byte or word.
LEMMA LoadNextByte ==
  ASSUME BootInv, ImageInv, NEW core_ack \in Bit, NEW wr_done \in Bit, Clock(core_ack, wr_done), fsm = "DONE_STATE"
  PROVE  LoadInv'
<1> USE DEF Clock, BootInv, ImageInv, GoTo
<1>0. /\ TOTAL \in Nat \ {0} /\ mem_index \in 0 .. TOTAL /\ mem_index \in Nat /\ TOTAL % 4 = 0 /\ mem_index % 4 = 0
  BY Numbers
<1>1. fsm' = "IDLE" /\ done /\ sram' = sram BY FsmMoves, SramWrites DEF done
<1>2. \* What remains to be shown of a step out of DONE_STATE.
      ASSUME \A k \in Lane : top' = ReadByteState[k + 1] =>
               \A j \in Lane : j < k => data_word'[j] = ImageByte(mem_index' + j),
             top' = "WRITE_MEM" => \A j \in Lane : data_word'[j] = ImageByte(mem_index' + j),
             \A a \in SramAddr : ImageIndex(a) < mem_index' \/ ~Loading' => sram[a] = Image[a]
      PROVE  LoadInv'
  BY <1>1, <1>2 DEF LoadInv
<1>3. top # "BOOT_FINISH" BY <1>1 DEF ControlInv, Handshake, done
<1>4. CASE SlaveAddrW \/ WordAddr0
  <2>1. top \in AddressTops /\ top' \in AddressTops /\ mem_index' = mem_index
    BY <1>4 DEF SlaveAddrW, WordAddr0, AddressTops
  <2>2. Loading' = Loading BY <2>1, ByteStates DEF Loading, LoadTops, AddressTops
  <2>3. top' \notin ReadData \cup {"WRITE_MEM"} BY <2>1, ByteStates DEF AddressTops
  <2> QED BY <1>2, <2>1, <2>2, <2>3, BytesDiffer DEF LoadInv
<1>5. CASE WordAddr1
  <2>1. CASE mem_index = 0
    <3>1. top' = "WRITE_SLAVE_ADDR_R_BIT" /\ mem_index' = 0 BY <1>0, <1>5, <2>1 DEF WordAddr1
    <3>2. Loading' /\ top' \notin ReadData \cup {"WRITE_MEM"} BY <3>1, ByteStates DEF Loading, LoadTops
    <3>3. \A a \in SramAddr : ~(ImageIndex(a) < mem_index')
      <4>1. \A a \in SramAddr : ImageIndex(a) \in 0 .. TOTAL - 1 BY ImageIndexFacts
      <4> QED BY <1>0, <3>1, <4>1
    <3> QED BY <1>2, <3>2, <3>3, BytesDiffer
  <2>2. CASE mem_index > 0
    <3>1. top' = "READ_MEM" /\ top = "WRITE_WORD_ADDR_BYTE1" BY <1>5, <2>2 DEF WordAddr1
    <3>2. ~Loading /\ top' \notin ReadData \cup {"WRITE_MEM"}
      BY <1>0, <2>2, <3>1, ByteStates DEF Loading, LoadTops
    <3> QED BY <1>2, <3>2, BytesDiffer DEF LoadInv
  <2> QED BY <1>0, <2>1, <2>2
<1>6. CASE SlaveAddrR
  <2>1. top = "WRITE_SLAVE_ADDR_R_BIT" /\ top' = "READ_DATA_BYTE0" /\ mem_index' = mem_index
    BY <1>6, ByteStates DEF SlaveAddrR
  <2>2. Loading /\ Loading' BY <2>1, ByteStates DEF Loading, LoadTops
  <2>3. \A k \in Lane : top' = ReadByteState[k + 1] => k = 0 BY <2>1, ByteStates, BytesDiffer
  <2>4. \A j \in Lane : ~(j < 0) BY ByteStates
  <2> QED BY <1>2, <2>1, <2>2, <2>3, <2>4 DEF LoadInv
<1>7. CASE ReadDataByte
  <2> PICK k \in Lane : /\ GoTo(ReadByteState[k + 1], IF k = 3 THEN "WRITE_MEM" ELSE ReadByteState[k + 2])
                        /\ data_word' = [data_word EXCEPT ![k] = rd_byte]
                        /\ UNCHANGED mem_index
    BY <1>7 DEF ReadDataByte
  <2>1. \A j \in Lane : j < k + 1 => data_word'[j] = ImageByte(mem_index + j)
    <3>1. data_word \in Word BY DEF ControlInv, TypeOK
    <3>2. rd_byte = ImageByte(mem_index + k) BY DEF LoadInv
    <3>3. \A j \in Lane : j < k => data_word[j] = ImageByte(mem_index + j) BY DEF LoadInv
    <3>4. \A j \in Lane : j < k + 1 => j = k \/ j < k BY DEF Lane
    <3> QED BY <3>1, <3>2, <3>3, <3>4 DEF Word
  <2>2. Loading /\ Loading'
    <3>1. top \in ReadData /\ top' \in ReadData \cup {"WRITE_MEM"} BY ByteStates
    <3> QED BY <3>1 DEF Loading, LoadTops
  <2>3. CASE k = 3
    <3>1. top' = "WRITE_MEM" /\ \A j \in Lane : j < k + 1 BY <2>3, ByteStates
    <3>2. top' \notin ReadData BY <3>1, ByteStates
    <3> QED BY <1>2, <2>1, <2>2, <3>1, <3>2, BytesDiffer DEF LoadInv
  <2>4. CASE k # 3
    <3>1. k + 1 \in Lane /\ k + 2 = (k + 1) + 1 /\ top' = ReadByteState[k + 2] BY <2>4, ByteStates
    <3>2. \A j \in Lane : top' = ReadByteState[j + 1] => j = k + 1 BY <3>1, BytesDiffer
    <3>3. top' # "WRITE_MEM" BY <3>1, BytesDiffer, ByteStates
    <3> QED BY <1>2, <2>1, <2>2, <3>2, <3>3 DEF LoadInv
  <2> QED BY <2>3, <2>4
<1>8. CASE WriteMem
  <2>1. /\ top = "WRITE_MEM" /\ mem_index' = mem_index + 4 /\ mem_index < TOTAL
        /\ top' = IF last_read THEN AfterLastRead ELSE "READ_DATA_BYTE0"
    BY <1>8 DEF WriteMem, ControlInv, IndexInRange
  <2>2. sram[mem_addr] = Image[mem_addr]
    BY <2>1, ImageWord DEF LoadInv
  <2>3. \A a \in SramAddr : ImageIndex(a) < mem_index + 4 => sram[a] = Image[a]
    <3> SUFFICES ASSUME NEW a \in SramAddr, ImageIndex(a) < mem_index + 4 PROVE sram[a] = Image[a] OBVIOUS
    <3>1. ImageIndex(a) \in 0 .. TOTAL - 1 /\ ImageIndex(a) % 4 = 0 BY ImageIndexFacts
    <3>2. ImageIndex(a) < mem_index \/ ImageIndex(a) = mem_index BY <1>0, <3>1
    <3> QED BY <2>1, <2>2, <3>2, ImageIndexFacts DEF LoadInv
  <2>4. ~Loading' => \A a \in SramAddr : ImageIndex(a) < mem_index + 4
    <3> SUFFICES ASSUME ~Loading', NEW a \in SramAddr PROVE ImageIndex(a) < mem_index + 4 OBVIOUS
    <3>1. last_read
      <4> SUFFICES ASSUME ~last_read PROVE FALSE OBVIOUS
      <4>1. top' = "READ_DATA_BYTE0" BY <2>1
      <4> QED BY <4>1, ByteStates DEF Loading, LoadTops
    <3>2. mem_index + 4 = TOTAL BY <1>0, <3>1 DEF last_read
    <3>3. ImageIndex(a) \in 0 .. TOTAL - 1 BY ImageIndexFacts
    <3> QED BY <1>0, <3>2, <3>3
  <2>5. \A k \in Lane : top' = ReadByteState[k + 1] => k = 0
    <3>1. top' \in {"READ_DATA_BYTE0", "WRITE_SLAVE_ADDR_W_BIT", "BOOT_FINISH"} BY <2>1 DEF AfterLastRead
    <3> QED BY <3>1, ByteStates, BytesDiffer
  <2>6. top' # "WRITE_MEM" /\ \A j \in Lane : ~(j < 0) BY <2>1, ByteStates DEF AfterLastRead
  <2> QED BY <1>2, <2>1, <2>3, <2>4, <2>5, <2>6
<1>9. CASE ReadMem \/ WriteDataByte \/ LastDataByte
  <2>1. top \in WriteTops
    BY <1>9, ByteStates DEF ReadMem, WriteDataByte, LastDataByte, WriteTops
  <2>2. ~Loading BY <2>1, ByteStates DEF Loading, WriteTops, LoadTops, AddressTops
  <2>3. top' \notin ReadData \cup {"WRITE_MEM"}
    BY <1>9, ByteStates DEF ReadMem, WriteDataByte, LastDataByte
  <2> QED BY <1>2, <2>2, <2>3, BytesDiffer DEF LoadInv
<1> QED BY <1>1, <1>3, <1>4, <1>5, <1>6, <1>7, <1>8, <1>9 DEF TopStep, Finish, TopHold

\* What the shift register holds when a byte read is over is the byte of the image.
LEMMA ShiftStep ==
  ASSUME BootInv, ImageInv, NEW core_ack \in Bit, NEW wr_done \in Bit, Clock(core_ack, wr_done),
         fsm # "DONE_STATE", NEW k \in Lane, top = ReadByteState[k + 1],
         (fsm' = "POLL_TIP" /\ c_state' \in {"TXACK", "IDLE"}) \/ fsm' = "READ_TXR"
  PROVE  sr' = ImageByte(mem_index + k)
<1> USE DEF Clock, BootInv, ImageInv
<1>0. I2cTypeOK /\ fsm \in FsmState /\ wb \in WbState BY DEF ControlInv, TypeOK
<1>1. top \in ReadData /\ ~we /\ ~generate_STA /\ ~sram_access
  BY BytesDiffer, ByteStates DEF we, generate_STA, sram_access
<1>2. fsm \in {"WRITE_CR_FOR_READ_OP", "POLL_TIP", "READ_TXR"}
  BY <1>0, <1>1, FsmMoves DEF FsmState, PollInv, FsmTop
<1>3. I2cStep(core_ack, EepTx, ee_sda, i2c_wadr, i2c_wdat) OBVIOUS
<1>4. CASE fsm = "WRITE_CR_FOR_READ_OP"
  <2>1. wb = "DONE" BY <1>4, FsmMoves
  <2>2. Written /\ i2c_wadr = "none" BY <1>4, <2>1, AccessWrites DEF PollInv, CommandInv
  <2>3. c_state' = FirstPhase BY <1>3, <2>2, CmdFacts, WrittenBegins DEF Written
  <2>4. FirstPhase = "READ" BY <1>1, <2>2, CmdFacts DEF FirstPhase, Written
  <2>5. fsm' = "POLL_TIP" BY <1>4, <2>1, FsmMoves
  <2> QED BY <2>3, <2>4, <2>5
<1>5. CASE fsm = "READ_TXR" \/ (fsm = "POLL_TIP" /\ c_state = "IDLE")
  <2>1. i2c_wadr = "none" BY <1>5, AccessWrites DEF WriteCommand
  <2>2. sr' = sr
    <3>1. CASE Quiet BY <1>3, <2>1, <3>1, QuietStays DEF PollInv
    <3>2. CASE ~Quiet
      <4>1. Busy /\ cmd_ack = 1 /\ c_state = "IDLE" BY <1>5, <3>2 DEF PollInv, CommandInv, Busy
      <4> QED BY <1>0, <1>3, <2>1, <4>1, BusyGoesOn DEF PollInv
    <3> QED BY <3>1, <3>2
  <2> QED BY <1>5, <2>2 DEF LoadInv
<1>6. CASE fsm = "POLL_TIP" /\ c_state # "IDLE"
  <2>1. fsm' = "POLL_TIP" BY <1>6, PhaseFacts, FsmMoves
  <2>2. c_state \in {"READ", "TXACK"}
    BY <1>0, <1>1, <1>6, PhaseFacts DEF I2cTypeOK, Phase
  <2>3. ByteController(core_ack, EepTx, ee_sda) BY <1>3 DEF I2cStep
  <2>4. CASE c_state = "TXACK"
    <3>1. sr' = sr
      BY <2>3, <2>4 DEF ByteController, Rest, BeginCommand, WaitPhase, EndStart, EndWrite, EndRead, EndAck, EndStop
    <3> QED BY <1>6, <2>4, <3>1 DEF LoadInv
  <2>5. CASE c_state = "READ"
    <3>1. core_ack = 1 /\ sr' = EepTx
      BY <2>1, <2>3, <2>5 DEF ByteController, Rest, BeginCommand, WaitPhase, EndStart, EndWrite, EndRead, EndAck, EndStop,
         Bit
    <3>2. At("read", EEPROM_READ_ADDR + mem_index + k) BY <1>6, <2>5 DEF SessionInv, BeforeByte, Ready
    <3>3. EepTx = ee_mem[EEPROM_READ_ADDR + mem_index + k] BY <3>2 DEF EepTx, At
    <3>4. mem_index + k \in 0 .. TOTAL - 1 /\ EEPROM_READ_ADDR + mem_index + k = EEPROM_READ_ADDR + (mem_index + k)
      <4>1. /\ TOTAL \in Nat \ {0} /\ mem_index \in 0 .. TOTAL /\ TOTAL % 4 = 0 /\ mem_index % 4 = 0
            /\ EEPROM_READ_ADDR \in Nat
        BY Numbers
      <4>2. mem_index < TOTAL BY <1>1 DEF ControlInv, IndexInRange
      <4>3. mem_index + 4 <= TOTAL BY <4>1, <4>2, NextAligned
      <4>4. k \in 0 .. 3 BY DEF Lane
      <4> QED BY <4>1, <4>3, <4>4
    <3> QED BY <3>1, <3>3, <3>4 DEF ImageIntact
  <2> QED BY <2>2, <2>4, <2>5
<1> QED BY <1>2, <1>4, <1>5, <1>6

\* A word under way is stored at its own place, and disturbs no other.
LEMMA StoreStep ==
  ASSUME BootInv, ImageInv, NEW core_ack \in Bit, NEW wr_done \in Bit, Clock(core_ack, wr_done), fsm # "DONE_STATE"
  PROVE  /\ (top = "WRITE_MEM" /\ ((fsm = "SRAM_WRITE" /\ wb \in {"WAIT_ACK", "DONE"})
                                   \/ fsm \in {"WRITE_CR_STOP_READ_OP", "DONE_STATE"})
               => sram[mem_addr] = data_word)'
         /\ (\A a \in SramAddr : ImageIndex(a) < mem_index \/ ~Loading => sram[a] = Image[a])'
<1> USE DEF Clock, BootInv, ImageInv
<1>0. fsm \in FsmState /\ wb \in WbState /\ sram \in [SramAddr -> Word] BY DEF ControlInv, TypeOK
<1>1. ByteStays /\ top' = top /\ mem_index' = mem_index /\ data_word' = data_word BY TopWaits DEF ByteStays
<1>2. mem_addr' = mem_addr /\ Loading' = Loading BY <1>1 DEF mem_addr, Loading
<1>3. CASE fsm = "SRAM_WRITE" /\ wb \in {"ISSUE", "WAIT_ACK"}
  <2>1. top = "WRITE_MEM" /\ mem_index < TOTAL BY <1>3 DEF ControlInv, Handshake, IndexInRange
  <2>2. sram' = [sram EXCEPT ![mem_addr] = data_word] BY <1>3, SramWrites
  <2>3. mem_addr \in SramAddr BY <2>1, ImageIndexFacts
  <2>4. data_word = Image[mem_addr] BY <2>1, ImageWord DEF LoadInv
  <2>5. sram'[mem_addr] = data_word BY <1>0, <2>2, <2>3
  <2>6. \A a \in SramAddr : sram[a] = Image[a] => sram'[a] = Image[a] BY <1>0, <2>2, <2>4
  <2> QED BY <1>1, <1>2, <2>5, <2>6 DEF LoadInv
<1>4. CASE ~(fsm = "SRAM_WRITE" /\ wb \in {"ISSUE", "WAIT_ACK"})
  <2>1. sram' = sram BY <1>4, SramWrites
  <2>2. (top = "WRITE_MEM" /\ ((fsm = "SRAM_WRITE" /\ wb \in {"WAIT_ACK", "DONE"})
                               \/ fsm \in {"WRITE_CR_STOP_READ_OP", "DONE_STATE"}))'
          => top = "WRITE_MEM" /\ ((fsm = "SRAM_WRITE" /\ wb = "DONE") \/ fsm = "WRITE_CR_STOP_READ_OP")
    <3> SUFFICES ASSUME top = "WRITE_MEM",
                        (fsm' = "SRAM_WRITE" /\ wb' \in {"WAIT_ACK", "DONE"})
                          \/ fsm' \in {"WRITE_CR_STOP_READ_OP", "DONE_STATE"}
                 PROVE  (fsm = "SRAM_WRITE" /\ wb = "DONE") \/ fsm = "WRITE_CR_STOP_READ_OP"
      BY <1>1
    <3>1. sram_access /\ we BY ByteStates DEF sram_access, we
    <3>2. fsm \in {"IDLE", "SRAM_WRITE", "WRITE_CR_STOP_READ_OP"}
      BY <1>0, <3>1 DEF FsmState, PollInv, FsmTop, ControlInv, Handshake
    <3>3. CASE fsm = "IDLE"
      <4>1. fsm' \in {"IDLE", "SRAM_WRITE"} /\ wb' = "IDLE"
        BY <3>1, <3>3, FsmMoves, WbMoves DEF ControlInv, Handshake
      <4> QED BY <4>1
    <3>4. CASE fsm = "SRAM_WRITE" /\ wb = "IDLE"
      BY <3>4, FsmMoves, WbMoves
    <3> QED BY <1>0, <1>4, <3>2, <3>3, <3>4 DEF WbState
  <2> QED BY <1>1, <1>2, <2>1, <2>2 DEF LoadInv
<1> QED BY <1>3, <1>4

\* The loader works on its byte or word.
LEMMA LoadSameByte ==
  ASSUME BootInv, ImageInv, NEW core_ack \in Bit, NEW wr_done \in Bit, Clock(core_ack, wr_done), fsm # "DONE_STATE"
  PROVE  LoadInv'
<1> USE DEF Clock, BootInv, ImageInv
<1>0. fsm \in FsmState /\ wb \in WbState BY DEF ControlInv, TypeOK
<1>1. ByteStays /\ top' = top /\ mem_index' = mem_index /\ data_word' = data_word BY TopWaits DEF ByteStays
<1>2. ASSUME NEW k \in Lane, top = ReadByteState[k + 1],
             (fsm' = "READ_TXR" /\ wb' \in {"WAIT_ACK", "DONE"}) \/ fsm' = "DONE_STATE"
      PROVE  rd_byte' = ImageByte(mem_index + k)
  <2>1. top \in ReadData /\ ~we /\ ~sram_access BY <1>2, BytesDiffer, ByteStates DEF we, sram_access
  <2>2. fsm = "READ_TXR" /\ wb # "IDLE"
    <3>1. fsm \notin {"READ_ACK", "WRITE_CR_STOP_READ_OP", "SRAM_WRITE", "SRAM_READ"}
      BY <2>1, ByteStates DEF PollInv, FsmTop, ReadEnding, ControlInv, Handshake
    <3>2. fsm \in {"READ_TXR", "POLL_TIP"} BY <1>0, <1>2, <3>1, FsmMoves DEF FsmState
    <3>3. fsm # "POLL_TIP" BY <1>0, <1>2, FsmMoves, WbMoves
    <3>4. wb # "IDLE" BY <1>2, <3>2, <3>3, FsmMoves, WbMoves
    <3> QED BY <3>2, <3>3, <3>4
  <2>3. CASE wb = "ISSUE"
    <3>1. rd_byte' = sr BY <2>2, <2>3 DEF ReadData_Step, Sampled, wb_we, wb_addr, WriteCommand
    <3> QED BY <1>2, <2>2, <3>1 DEF LoadInv
  <2>4. CASE wb # "ISSUE"
    <3>1. rd_byte' = rd_byte BY <2>4 DEF ReadData_Step, Sampled
    <3> QED BY <1>0, <1>2, <2>2, <2>4, <3>1 DEF LoadInv, WbState
  <2> QED BY <2>3, <2>4
<1>3. \A k \in Lane : top = ReadByteState[k + 1] /\ ((fsm' = "POLL_TIP" /\ c_state' \in {"TXACK", "IDLE"}) \/ fsm' = "READ_TXR")
        => sr' = ImageByte(mem_index + k)
  BY ShiftStep
<1>4. /\ (top = "WRITE_MEM" /\ ((fsm = "SRAM_WRITE" /\ wb \in {"WAIT_ACK", "DONE"})
                                \/ fsm \in {"WRITE_CR_STOP_READ_OP", "DONE_STATE"})
            => sram[mem_addr] = data_word)'
      /\ (\A a \in SramAddr : ImageIndex(a) < mem_index \/ ~Loading => sram[a] = Image[a])'
  BY StoreStep
<1> QED BY <1>1, <1>2, <1>3, <1>4 DEF LoadInv

\* The image at power-up: nothing is loaded and nothing is about to be committed.
LEMMA InitImage == Init => ImageInv
<1> SUFFICES ASSUME Init PROVE ImageInv OBVIOUS
<1>1. top = "WRITE_SLAVE_ADDR_W_BIT" /\ mem_index = 0 /\ ee_buf = NoBytes /\ ee_mem = EepromInit
  BY DEF Init, MasterInit, EepInit
<1>2. BufferInv BY <1>1 DEF BufferInv, NoBytes
<1>3. ImageIntact BY <1>1 DEF ImageIntact, ImageByte
<1>4. Loading BY <1>1 DEF Loading, AddressTops
<1>5. \A a \in SramAddr : ~(ImageIndex(a) < mem_index)
  <2>1. \A a \in SramAddr : ImageIndex(a) \in 0 .. TOTAL - 1 BY InitControl, ImageIndexFacts
  <2>2. TOTAL \in Nat BY InitControl, Numbers
  <2> QED BY <1>1, <2>1, <2>2
<1>6. top \notin ReadData \cup {"WRITE_MEM"} BY <1>1, ByteStates
<1>7. LoadInv BY <1>4, <1>5, <1>6, BytesDiffer DEF LoadInv
<1> QED BY <1>2, <1>3, <1>7 DEF ImageInv

\* A reset starts the load afresh; a STOP it forges commits at most a page of the copy.
LEMMA ResetImage ==
  ASSUME ControlInv, ImageInv, Reset
  PROVE  ImageInv'
<1>1. PICK ev \in {"none", "stop"} : EepStep(ev, 0, 0) BY DEF Reset
<1>2. top' = "WRITE_SLAVE_ADDR_W_BIT" /\ mem_index' = 0 BY DEF Reset, MasterReset
<1>3. BufferInv'
  <2>1. UNCHANGED <<ee_ptr, ee_buf>> /\ (ee_st' = ee_st \/ ee_st' = "off") BY <1>1 DEF EepStep
  <2>2. ee_act' = 1 => ee_act = 1 \/ ee_st = "data" BY <1>1 DEF EepStep, StopCommits
  <2> QED BY <2>1, <2>2 DEF ImageInv, BufferInv
<1>4. ImageIntact' BY <1>1, ImageStep DEF ImageInv
<1>5. Loading' BY <1>2 DEF Loading, AddressTops
<1>6. \A a \in SramAddr : ~(ImageIndex(a) < mem_index')
  <2>1. \A a \in SramAddr : ImageIndex(a) \in 0 .. TOTAL - 1 BY ImageIndexFacts
  <2>2. TOTAL \in Nat BY Numbers
  <2> QED BY <1>2, <2>1, <2>2
<1>7. top' \notin ReadData \cup {"WRITE_MEM"} BY <1>2, ByteStates
<1>8. LoadInv' BY <1>5, <1>6, <1>7, BytesDiffer DEF LoadInv
<1> QED BY <1>3, <1>4, <1>8 DEF ImageInv

\* ImageInv is an invariant: the image in the EEPROM is never written to, every byte on its way is
\* a byte of the image, and every word loaded so far is in its place.
THEOREM ImageInvariant == Spec => []ImageInv
<1>1. Init => ImageInv BY InitImage
<1>2. BootInv /\ ImageInv /\ [Next]_vars => ImageInv'
  <2> SUFFICES ASSUME BootInv, ImageInv, [Next]_vars PROVE ImageInv' OBVIOUS
  <2>1. CASE Reset BY <2>1, ResetImage DEF BootInv
  <2>2. CASE \E core_ack, wr_done \in Bit : Clock(core_ack, wr_done)
    <3>1. PICK core_ack \in Bit, wr_done \in Bit : Clock(core_ack, wr_done) BY <2>2
    <3>2. BufferInv' BY <3>1, BufferStep DEF ImageInv
    <3>3. ImageIntact' BY <3>1, ImageStep DEF ImageInv, BootInv, Clock
    <3>4. LoadInv' BY <3>1, LoadNextByte, LoadSameByte
    <3> QED BY <3>2, <3>3, <3>4 DEF ImageInv
  <2>3. CASE UNCHANGED vars
    BY <2>3 DEF ImageInv, BufferInv, ImageIntact, LoadInv, Loading, mem_addr, vars, topVars, wbVars, i2cVars, eeVars
  <2> QED BY <2>1, <2>2, <2>3 DEF Next
<1> QED BY <1>1, <1>2, BootInvariant, PTL DEF Spec

\* The write-back never touches the image it was loaded from, wherever a reset cuts a page write
\* short, for every layout in which copy and image do not overlap.
THEOREM ImageSafe == Spec => []ImageIntact
<1>1. ImageInv => ImageIntact BY DEF ImageInv
<1> QED BY <1>1, ImageInvariant, PTL

\* Once the load is over both memories hold the image.
LEMMA Loaded ==
  ASSUME ControlInv, ImageInv, top = "BOOT_FINISH"
  PROVE  sram = Image
<1>1. ~Loading BY ByteStates DEF Loading, LoadTops, AddressTops
<1>2. \A a \in SramAddr : sram[a] = Image[a] BY <1>1 DEF ImageInv, LoadInv
<1>3. sram = [a \in SramAddr |-> sram[a]] BY DEF ControlInv, TypeOK
<1>4. Image = [a \in SramAddr |-> Image[a]] BY DEF Image
<1> QED BY <1>2, <1>3, <1>4

\* The core comes out of reset only when both memories hold the whole image, for memories of any
\* size and any image, however often the EEPROM did not answer and wherever a reset struck.
THEOREM CoreHasImage == Spec => []CoreStartsWithImage
<1>1. BootInv /\ ImageInv => CoreStartsWithImage
  BY Loaded DEF BootInv, ControlInv, Handshake, CoreStartsWithImage
<1> QED BY <1>1, BootInvariant, ImageInvariant, PTL

\* A clock edge stores a word of the image at its place, releases the core with memory complete, or
\* does nothing BootSpec could see.
LEMMA ClockImplements ==
  ASSUME BootInv, ImageInv, NEW core_ack \in Bit, NEW wr_done \in Bit, Clock(core_ack, wr_done)
  PROVE  [Abstract!Next]_(Abstract!vars)
<1> USE DEF Clock, BootInv
<1>1. CASE fsm = "SRAM_WRITE" /\ wb \in {"ISSUE", "WAIT_ACK"}
  <2>1. top = "WRITE_MEM" /\ mem_index < TOTAL /\ mem_addr \in SramAddr
    BY <1>1, ImageIndexFacts DEF ControlInv, Handshake, IndexInRange
  <2>2. data_word = Image[mem_addr] BY <2>1, ImageWord DEF ImageInv, LoadInv
  <2>3. sram' = [sram EXCEPT ![mem_addr] = Image[mem_addr]] BY <1>1, <2>2, SramWrites
  <2>4. rst_core_n = 0 BY <2>1 DEF ControlInv, Handshake, TypeOK, Bit
  <2>5. rst_core_n' = rst_core_n
    BY <1>1, <2>1 DEF TopStep, TopHold, topVars, done, GoTo, Finish, SlaveAddrW, WordAddr0, WordAddr1, SlaveAddrR,
       ReadDataByte, WriteMem, ReadMem, WriteDataByte, LastDataByte
  <2>6. Abstract!LoadWord(mem_addr) BY <2>3, <2>4, <2>5 DEF Abstract!LoadWord
  <2> QED BY <2>1, <2>6 DEF Abstract!Next
<1>2. CASE ~(fsm = "SRAM_WRITE" /\ wb \in {"ISSUE", "WAIT_ACK"})
  <2>1. sram' = sram BY <1>2, SramWrites
  <2>2. CASE top = "BOOT_FINISH"
    <3>1. rst_core_n' = 1
      BY <2>2, ByteStates DEF TopStep, TopHold, GoTo, Finish, SlaveAddrW, WordAddr0, WordAddr1, SlaveAddrR,
         ReadDataByte, WriteMem, ReadMem, WriteDataByte, LastDataByte
    <3>2. sram = Image BY <2>2, Loaded
    <3> QED BY <2>1, <3>1, <3>2 DEF Abstract!Next, Abstract!Release
  <2>3. CASE top # "BOOT_FINISH"
    <3>1. rst_core_n' = rst_core_n
      BY <2>3 DEF TopStep, TopHold, topVars, GoTo, Finish, SlaveAddrW, WordAddr0, WordAddr1, SlaveAddrR,
         ReadDataByte, WriteMem, ReadMem, WriteDataByte, LastDataByte
    <3> QED BY <2>1, <3>1 DEF Abstract!vars
  <2> QED BY <2>2, <2>3
<1> QED BY <1>1, <1>2

\* The boot loader, clock by clock, implements BootSpec, which loads whole words of the image, in
\* any order, and releases the core when all are in place.
THEOREM BootRefinement == Spec => ImplementsBootSpec
<1>1. Init => Abstract!Init BY DEF Init, MasterInit, Abstract!Init
<1>2. BootInv /\ ImageInv /\ [Next]_vars => [Abstract!Next]_(Abstract!vars)
  <2> SUFFICES ASSUME BootInv, ImageInv, [Next]_vars PROVE [Abstract!Next]_(Abstract!vars) OBVIOUS
  <2>1. CASE Reset
    BY <2>1 DEF Reset, MasterReset, Abstract!Next, Abstract!Restart
  <2>2. CASE \E core_ack, wr_done \in Bit : Clock(core_ack, wr_done) BY <2>2, ClockImplements
  <2>3. CASE UNCHANGED vars BY <2>3 DEF vars, topVars, Abstract!vars
  <2> QED BY <2>1, <2>2, <2>3 DEF Next
<1> QED BY <1>1, <1>2, BootInvariant, ImageInvariant, PTL DEF Spec, ImplementsBootSpec, Abstract!Spec

------------------------------------------------------------------------------
(***************************************************************************)
(* The write-back copies the whole image: every page is filled, byte by    *)
(* byte, from the words read back from memory, its STOP commits it, and    *)
(* the slave address of the next page is repeated until the write cycle is *)
(* over.                                                                   *)
(***************************************************************************)

(***************************************************************************)
(* What the EEPROM holds once its write cycle, if one is running, is over; *)
(* how much of the copy that is; and how much of the page under way is in  *)
(* the page buffer.                                                        *)
(***************************************************************************)
EffMem == IF ee_act = 1 THEN CommitPage ELSE ee_mem

Copied(n) == \A i \in 0 .. n - 1 : EffMem[EEPROM_WRITE_ADDR + i] = ImageByte(i)

Filled(n) == \A o \in 0 .. n - 1 :
  o \in DOMAIN ee_buf /\ ee_buf[o] = ImageByte(addr_pointer - EEPROM_WRITE_ADDR + o)

\* The last byte of a page was sent and its STOP is over.
PageSent == (fsm = "POLL_TIP" /\ c_state = "IDLE") \/ fsm \in {"READ_ACK", "DONE_STATE"}

PagesInv ==
  /\ top \in AddressTops /\ mem_index > 0 => Copied(PagePos)
  /\ top \in WriteTops => Copied(addr_pointer - EEPROM_WRITE_ADDR)
  /\ top = "BOOT_FINISH" /\ BOOT_WRITEBACK => Copied(TOTAL) /\ ee_st = "off"

WordInv ==
  /\ top = "READ_MEM" /\ ((fsm = "SRAM_READ" /\ wb \in {"WAIT_ACK", "DONE"}) \/ fsm = "DONE_STATE")
       => \A j \in Lane : rd_word[j] = ImageByte(mem_index + j)
  /\ top \in WriteData => \A j \in Lane : data_word[j] = ImageByte(mem_index - 4 + j)

FillInv ==
  /\ top = "READ_MEM" => Filled(4 * page_buffer_index)
  /\ \A k \in Lane : top = WriteByteState[k + 1] =>
       Filled(4 * page_buffer_index + (IF BeforeByte THEN k ELSE k + 1))

StopInv ==
  generate_STO =>
    /\ fsm = "POLL_TIP" /\ c_state \in {"RXACK", "STOP"} => At("data", addr_pointer)
    /\ PageSent => Copied(mem_index) /\ ee_st = "off"

CopyInv == PagesInv /\ WordInv /\ FillInv /\ StopInv

------------------------------------------------------------------------------
\* A step of the EEPROM changes what it will hold only when a STOP commits a page.
LEMMA EffStep ==
  ASSUME ee_act \in {0, 1}, NEW ev, NEW b, NEW w, EepStep(ev, b, w), ee_act = 1 => UNCHANGED <<ee_ptr, ee_buf>>,
         w \in {0, 1}
  PROVE  EffMem' = IF ee_act = 0 /\ ev = "stop" /\ StopCommits THEN CommitPage ELSE EffMem
<1>1. UNCHANGED <<ee_ptr, ee_buf, ee_mem>> => CommitPage' = CommitPage BY DEF CommitPage, PageBase
<1>2. CASE ee_act = 1 /\ w = 1 BY <1>2 DEF EepStep, EffMem
<1>3. CASE ee_act = 1 /\ w = 0
  <2>1. ee_act' = 1 /\ UNCHANGED <<ee_ptr, ee_buf, ee_mem>> BY <1>3 DEF EepStep
  <2> QED BY <1>1, <1>3, <2>1 DEF EffMem
<1>4. CASE ee_act = 0 /\ ev = "stop" /\ StopCommits
  <2>1. ee_act' = 1 /\ UNCHANGED <<ee_ptr, ee_buf, ee_mem>> BY <1>4 DEF EepStep
  <2> QED BY <1>1, <1>4, <2>1 DEF EffMem
<1>5. CASE ee_act = 0 /\ ~(ev = "stop" /\ StopCommits)
  <2>1. ee_act' = 0 /\ UNCHANGED ee_mem BY <1>5 DEF EepStep
  <2> QED BY <1>5, <2>1 DEF EffMem
<1> QED BY <1>2, <1>3, <1>4, <1>5

\* While a write cycle runs nothing that arrives moves the pointer or the page buffer.
LEMMA WriteCycleUndisturbed ==
  ASSUME BootInv, NEW core_ack \in Bit, NEW wr_done \in Bit, Clock(core_ack, wr_done), ee_act = 1
  PROVE  UNCHANGED <<ee_ptr, ee_buf>>
<1> USE DEF Clock, BootInv
<1>0. EepStep(BusEvent(core_ack), sr, wr_done) OBVIOUS
<1>1. CASE BusEvent(core_ack) \in {"none", "start", "stop"} BY <1>0, <1>1 DEF EepStep
<1>2. CASE BusEvent(core_ack) \in {"ack", "nack"}
  <2>1. c_state = "TXACK" BY <1>2 DEF BusEvent
  <2>2. fsm = "POLL_TIP" /\ top \in ReadData BY <2>1, PhasesOnlyPolling, PhaseFacts
  <2>3. Ready BY <2>1, <2>2 DEF SessionInv, BeforeByte
  <2>4. ee_act = 0 BY <2>2, <2>3, ByteStates DEF Ready, At
  <2> QED BY <2>4
<1>3. CASE BusEvent(core_ack) = "byte"
  <2>1. c_state = "WRITE" BY <1>3 DEF BusEvent
  <2>2. fsm = "POLL_TIP" /\ we /\ ~sram_access /\ top # "BOOT_FINISH" BY <2>1, PhasesOnlyPolling, PhaseFacts
  <2>3. CASE generate_STA
    <3>1. ee_st = "ctrl" BY <2>1, <2>2, <2>3 DEF SessionInv, Addressed
    <3>2. RecvControl(sr) BY <1>0, <1>3, <3>1 DEF EepStep, RecvByte, RecvAddress, RecvData, RecvIgnored
    <3> QED BY <3>2 DEF RecvControl
  <2>4. CASE ~generate_STA
    <3>1. Ready BY <2>1, <2>2, <2>4 DEF SessionInv, BeforeByte
    <3>2. top \in {"WRITE_WORD_ADDR_BYTE0", "WRITE_WORD_ADDR_BYTE1"} \cup WriteData
      BY <2>2, <2>4 DEF generate_STA, we, sram_access, ControlInv, TypeOK, TopState
    <3>3. ee_act = 0 BY <3>1, <3>2, ByteStates DEF Ready, At
    <3> QED BY <3>3
  <2> QED BY <2>3, <2>4
<1> QED BY <1>1, <1>2, <1>3 DEF BusEvent

\* Only the STOP of a transfer with data changes what the EEPROM will hold.
LEMMA EffKept ==
  ASSUME BootInv, NEW core_ack \in Bit, NEW wr_done \in Bit, Clock(core_ack, wr_done),
         core_ack = 0 \/ c_state # "STOP" \/ ee_st # "data"
  PROVE  EffMem' = EffMem /\ \A n : Copied(n) => Copied(n)'
<1> USE DEF Clock, BootInv
<1>0. ee_act \in {0, 1} /\ wr_done \in {0, 1} BY DEF ControlInv, TypeOK, EepTypeOK, Bit
<1>1. ~(BusEvent(core_ack) = "stop" /\ StopCommits) BY DEF BusEvent, StopCommits
<1>2. EffMem' = EffMem BY <1>0, <1>1, EffStep, WriteCycleUndisturbed
<1> QED BY <1>2 DEF Copied

\* Where a STOP can be running.
LEMMA StopWhere ==
  ASSUME BootInv, c_state = "STOP"
  PROVE  (fsm = "POLL_TIP" /\ generate_STO) \/ ReadEnded \/ ReadEnding
<1> USE DEF BootInv
<1>1. CASE fsm = "POLL_TIP"
  BY <1>1, PhaseFacts DEF ReadEnded
<1>2. CASE fsm # "POLL_TIP"
  BY <1>2 DEF PollInv, CommandInv, FsmTop, Quiet, Written, ControlInv, TypeOK, FsmState
<1> QED BY <1>1, <1>2

------------------------------------------------------------------------------
\* The write-back of a page, in numbers.
LEMMA CopyNumbers ==
  ASSUME ControlInv, AddressInv, top \in WriteTops
  PROVE  /\ BOOT_WRITEBACK /\ EEPROM_WRITE_ADDR \in Nat /\ addr_pointer \in Nat /\ TOTAL \in Nat /\ mem_index \in Nat
         /\ EEPROM_WRITE_ADDR <= addr_pointer /\ addr_pointer % PageBytes = 0
         /\ PageBytes \in Nat \ {0} /\ page_buffer_index \in Nat /\ 4 * page_buffer_index + 4 <= PageBytes
         /\ addr_pointer + PageBytes <= EEPROM_WRITE_ADDR + TOTAL
         /\ EEPROM_WRITE_ADDR + TOTAL <= EepromBytes /\ EepromBytes \in Nat
         /\ generate_STO => mem_index = (addr_pointer - EEPROM_WRITE_ADDR) + PageBytes
<1>0. /\ TOTAL \in Nat \ {0} /\ mem_index \in 0 .. TOTAL /\ mem_index \in Nat
      /\ EEPROM_WRITE_ADDR \in Nat /\ addr_pointer \in Nat
      /\ PageBytes \in Nat \ {0} /\ PageWords \in Nat \ {0} /\ 4 * PageWords = PageBytes
      /\ page_buffer_index \in 0 .. PageWords - 1 /\ EepromBytes \in Nat
  BY Numbers
<1>1. BOOT_WRITEBACK /\ EEPROM_WRITE_ADDR <= addr_pointer /\ addr_pointer % PageBytes = 0
  BY DEF AddressInv
<1>2. /\ EEPROM_WRITE_ADDR % PageBytes = 0 /\ TOTAL % PageBytes = 0
      /\ EEPROM_WRITE_ADDR + TOTAL <= EepromBytes
  BY <1>1, LayoutAssumption
<1>3. 4 * page_buffer_index + 4 <= PageBytes BY <1>0
<1>4. addr_pointer < EEPROM_WRITE_ADDR + TOTAL
  <2>1. CASE top = "READ_MEM"
    <3>1. addr_pointer + 4 * page_buffer_index = EEPROM_WRITE_ADDR + mem_index /\ mem_index < TOTAL
      BY <2>1 DEF AddressInv, ControlInv, IndexInRange
    <3> QED BY <1>0, <3>1
  <2>2. CASE top \in WriteData
    <3>1. addr_pointer + 4 * page_buffer_index + 4 = EEPROM_WRITE_ADDR + mem_index BY <2>2 DEF AddressInv
    <3> QED BY <1>0, <3>1
  <2> QED BY <2>1, <2>2 DEF WriteTops
<1>5. (EEPROM_WRITE_ADDR + TOTAL) % PageBytes = 0
  <2> DEFINE u == EEPROM_WRITE_ADDR \div PageBytes
             v == TOTAL \div PageBytes
             e == EEPROM_WRITE_ADDR + TOTAL
  <2>1. u \in Nat /\ v \in Nat /\ e = u * PageBytes + v * PageBytes BY <1>0, <1>2
  <2> HIDE DEF u, v, e
  <2>2. u * PageBytes + v * PageBytes = (u + v) * PageBytes BY <1>0, <2>1
  <2>3. e = (u + v) * PageBytes + 0 /\ u + v \in Nat BY <1>0, <2>1, <2>2
  <2>4. ((u + v) * PageBytes + 0) % PageBytes = 0 BY <1>0, <2>3, DivMod
  <2>5. e % PageBytes = 0 BY <2>3, <2>4
  <2> QED BY <2>5 DEF e
<1>6. addr_pointer + PageBytes <= EEPROM_WRITE_ADDR + TOTAL
  <2> DEFINE e == EEPROM_WRITE_ADDR + TOTAL
  <2>1. e \in Nat /\ e % PageBytes = 0 /\ addr_pointer < e BY <1>0, <1>4, <1>5
  <2> HIDE DEF e
  <2>2. addr_pointer - (addr_pointer % PageBytes) + PageBytes <= e BY <1>0, <2>1, PageBounds
  <2>3. addr_pointer + PageBytes <= e BY <1>0, <1>1, <2>2
  <2> QED BY <2>3 DEF e
<1>7. generate_STO => mem_index = (addr_pointer - EEPROM_WRITE_ADDR) + PageBytes
  <2> SUFFICES ASSUME generate_STO PROVE mem_index = (addr_pointer - EEPROM_WRITE_ADDR) + PageBytes OBVIOUS
  <2>1. top \in WriteData /\ page_buffer_index = PageWords - 1 BY ByteStates DEF generate_STO, page_full
  <2>2. addr_pointer + 4 * page_buffer_index + 4 = EEPROM_WRITE_ADDR + mem_index BY <2>1 DEF AddressInv
  <2> QED BY <1>0, <2>1, <2>2
<1> QED BY <1>0, <1>1, <1>2, <1>3, <1>6, <1>7

\* A commit of the page at addr_pointer leaves the earlier pages of the copy alone.
LEMMA CommitKeeps ==
  ASSUME ControlInv, AddressInv, top \in WriteTops, PageBase = addr_pointer,
         NEW i \in Nat, i < addr_pointer - EEPROM_WRITE_ADDR
  PROVE  CommitPage[EEPROM_WRITE_ADDR + i] = ee_mem[EEPROM_WRITE_ADDR + i]
<1> DEFINE a == EEPROM_WRITE_ADDR + i
<1>0. /\ EEPROM_WRITE_ADDR \in Nat /\ addr_pointer \in Nat /\ TOTAL \in Nat /\ EepromBytes \in Nat
      /\ addr_pointer + PageBytes <= EEPROM_WRITE_ADDR + TOTAL /\ PageBytes \in Nat \ {0}
      /\ EEPROM_WRITE_ADDR + TOTAL <= EepromBytes
  BY CopyNumbers
<1>1. a \in Nat /\ a < addr_pointer /\ a \in 0 .. EepromBytes - 1 BY <1>0
<1> HIDE DEF a
<1>2. a % PageBytes \in Nat BY <1>0, <1>1
<1>3. a - (a % PageBytes) # addr_pointer BY <1>0, <1>1, <1>2
<1>4. a \in EepAddr BY <1>1 DEF EepAddr
<1>5. CommitPage[a] = ee_mem[a] BY <1>3, <1>4 DEF CommitPage
<1> QED BY <1>5 DEF a

\* A commit of the full page buffer completes the copy up to the end of the page.
LEMMA CommitFills ==
  ASSUME ControlInv, AddressInv, top \in WriteTops, PageBase = addr_pointer,
         Filled(PageBytes), NEW o \in 0 .. PageBytes - 1
  PROVE  CommitPage[addr_pointer + o] = ImageByte(addr_pointer - EEPROM_WRITE_ADDR + o)
<1> DEFINE a == addr_pointer + o
<1>0. /\ EEPROM_WRITE_ADDR \in Nat /\ addr_pointer \in Nat /\ TOTAL \in Nat /\ EepromBytes \in Nat
      /\ addr_pointer + PageBytes <= EEPROM_WRITE_ADDR + TOTAL /\ PageBytes \in Nat \ {0}
      /\ EEPROM_WRITE_ADDR + TOTAL <= EepromBytes /\ addr_pointer % PageBytes = 0
  BY CopyNumbers
<1>1. a \in 0 .. EepromBytes - 1 BY <1>0
<1>2. a % PageBytes = o /\ a - (a % PageBytes) = addr_pointer BY <1>0, PageOffsetOf
<1>3. o \in DOMAIN ee_buf /\ ee_buf[o] = ImageByte(addr_pointer - EEPROM_WRITE_ADDR + o) BY DEF Filled
<1> HIDE DEF a
<1>4. a \in EepAddr BY <1>1 DEF EepAddr
<1>5. CommitPage[a] = ee_buf[o] BY <1>2, <1>3, <1>4 DEF CommitPage
<1> QED BY <1>3, <1>5 DEF a

\* The life of a byte of the write-back, clock by clock: it is prepared, sent, acknowledged, the
\* page stopped if it was the last, and checked.
LEMMA WriteMoves ==
  ASSUME BootInv, NEW core_ack \in Bit, NEW wr_done \in Bit, Clock(core_ack, wr_done),
         top \in WriteData, fsm # "DONE_STATE"
  PROVE  \/ /\ c_state = "IDLE" /\ BeforeByte /\ ~PageSent
            /\ BeforeByte' /\ ~PageSent' /\ ~(fsm' = "POLL_TIP" /\ c_state' \in {"RXACK", "STOP"})
         \/ /\ fsm = "POLL_TIP" /\ c_state = "WRITE" /\ core_ack = 0 /\ fsm' = "POLL_TIP" /\ c_state' = "WRITE"
         \/ /\ fsm = "POLL_TIP" /\ c_state = "WRITE" /\ core_ack = 1 /\ fsm' = "POLL_TIP" /\ c_state' = "RXACK"
         \/ /\ fsm = "POLL_TIP" /\ c_state = "RXACK" /\ fsm' = "POLL_TIP"
            /\ c_state' = IF core_ack = 0 THEN "RXACK" ELSE IF generate_STO THEN "STOP" ELSE "IDLE"
         \/ /\ fsm = "POLL_TIP" /\ c_state = "STOP" /\ fsm' = "POLL_TIP" /\ generate_STO
            /\ c_state' = IF core_ack = 0 THEN "STOP" ELSE "IDLE"
         \/ /\ PageSent /\ c_state = "IDLE" /\ PageSent' /\ c_state' = "IDLE"
<1> USE DEF Clock, BootInv
<1>0. I2cTypeOK /\ fsm \in FsmState /\ wb \in WbState BY DEF ControlInv, TypeOK
<1>1. we /\ ~sram_access /\ ~generate_STA /\ ~ReadEnded /\ ~ReadEnding
  BY ByteStates DEF we, sram_access, generate_STA, ReadEnded, ReadEnding
<1>2. fsm \in {"IDLE", "WRITE_TXR", "WRITE_CR_FOR_WRITE_OP", "POLL_TIP", "READ_ACK"}
  BY <1>0, <1>1, ByteStates DEF FsmState, PollInv, FsmTop, ControlInv, Handshake
<1>3. I2cStep(core_ack, EepTx, ee_sda, i2c_wadr, i2c_wdat) OBVIOUS
<1>4. CASE fsm \in {"IDLE", "WRITE_TXR"}
  <2>1. fsm' \in {"WRITE_TXR", "WRITE_CR_FOR_WRITE_OP"}
    BY <1>1, <1>4, FsmMoves, ByteStates DEF start
  <2>2. c_state = "IDLE" BY <1>1, <1>4 DEF PollInv, CommandInv, Quiet
  <2> QED BY <1>4, <2>1, <2>2 DEF BeforeByte, PageSent
<1>5. CASE fsm = "WRITE_CR_FOR_WRITE_OP"
  <2>1. CASE wb # "DONE"
    <3>1. fsm' = fsm /\ c_state = "IDLE" BY <1>1, <1>5, <2>1, FsmMoves DEF PollInv, CommandInv, Quiet
    <3> QED BY <1>5, <3>1 DEF BeforeByte, PageSent
  <2>2. CASE wb = "DONE"
    <3>1. Written /\ i2c_wadr = "none" BY <1>1, <1>5, <2>2, AccessWrites DEF PollInv, CommandInv
    <3>2. c_state' = FirstPhase BY <1>3, <3>1, CmdFacts, WrittenBegins DEF Written
    <3>3. FirstPhase = "WRITE" BY <1>1, <3>1, CmdFacts DEF FirstPhase, Written
    <3>4. fsm' = "POLL_TIP" /\ top' = top BY <1>5, <2>2, FsmMoves, TopWaits
    <3>5. ~generate_STA' BY <1>1, <3>4 DEF generate_STA
    <3> QED BY <1>5, <3>1, <3>2, <3>3, <3>4, <3>5 DEF BeforeByte, PageSent, Written
  <2> QED BY <2>1, <2>2
<1>6. CASE fsm = "READ_ACK"
  <2>1. Answered(ack_out) /\ Quiet BY <1>6 DEF SessionInv, PollInv, CommandInv
  <2>2. ack_out = 0 BY <2>1, ByteStates DEF Answered
  <2>3. fsm' \in {"READ_ACK", "DONE_STATE"}
    <3>1. wb = "DONE" => "RXACK" \notin rd_sr BY <1>6, <2>2 DEF SessionInv
    <3> QED BY <1>6, <3>1, FsmMoves
  <2>4. i2c_wadr # "CR" BY <1>6, AccessWrites DEF WriteCommand
  <2>5. Quiet' BY <1>3, <2>1, <2>4, QuietStays DEF PollInv
  <2> QED BY <1>6, <2>1, <2>3, <2>5 DEF PageSent, Quiet
<1>7. CASE fsm = "POLL_TIP" /\ c_state = "IDLE"
  <2>1. fsm' \in {"POLL_TIP", "READ_ACK"} BY <1>1, <1>7, FsmMoves
  <2>2. i2c_wadr = "none" BY <1>7, AccessWrites DEF WriteCommand
  <2>3. Quiet'
    <3>1. CASE Quiet BY <1>3, <2>2, <3>1, QuietStays DEF PollInv
    <3>2. CASE ~Quiet
      <4>1. Busy /\ cmd_ack = 1 BY <1>7, <3>2 DEF PollInv, CommandInv, Busy
      <4> QED BY <1>0, <1>3, <2>2, <4>1, BusyGoesOn DEF PollInv
    <3> QED BY <3>1, <3>2
  <2> QED BY <1>7, <2>1, <2>3 DEF PageSent, Quiet
<1>8. CASE fsm = "POLL_TIP" /\ c_state # "IDLE"
  <2>1. fsm' = "POLL_TIP" BY <1>8, PhaseFacts, FsmMoves
  <2>2. c_state \in {"WRITE", "RXACK", "STOP"} /\ cr = Cmd /\ (c_state = "STOP" => generate_STO)
    BY <1>0, <1>1, <1>8, PhaseFacts, ByteStates DEF I2cTypeOK, Phase
  <2>3. "STO" \in cr <=> generate_STO BY <2>2, CmdFacts
  <2>4. ByteController(core_ack, EepTx, ee_sda) BY <1>3 DEF I2cStep
  <2> QED BY <1>8, <2>1, <2>2, <2>3, <2>4 DEF ByteController, Rest, BeginCommand, WaitPhase, EndStart, EndWrite,
          EndRead, EndAck, EndStop, Bit
<1> QED BY <1>2, <1>4, <1>5, <1>6, <1>7, <1>8

\* The STOP of a full page commits it to its place.
LEMMA PageCommitted ==
  ASSUME BootInv, CopyInv, NEW core_ack \in Bit, NEW wr_done \in Bit, Clock(core_ack, wr_done),
         generate_STO, fsm = "POLL_TIP", c_state = "STOP", core_ack = 1
  PROVE  EffMem' = CommitPage /\ EffMem = ee_mem /\ PageBase = addr_pointer /\ Filled(PageBytes) /\ ee_st' = "off"
<1> USE DEF Clock, BootInv, CopyInv
<1>0. top \in WriteData /\ top = WriteByteState[4] /\ top \in WriteTops
  BY ByteStates DEF generate_STO, WriteTops
<1>1. At("data", addr_pointer) BY DEF StopInv
<1>2. PageBytes \in Nat \ {0} /\ addr_pointer \in Nat /\ addr_pointer % PageBytes = 0 BY <1>0, CopyNumbers
<1>3. Filled(PageBytes)
  <2>1. ~BeforeByte BY DEF BeforeByte
  <2>2. 3 \in Lane /\ 3 + 1 = 4 BY ByteStates
  <2>3. Filled(4 * page_buffer_index + (3 + 1)) BY <1>0, <2>1, <2>2 DEF FillInv
  <2>4. 4 * page_buffer_index + (3 + 1) = PageBytes
    <3>1. page_buffer_index = PageWords - 1 BY DEF generate_STO, page_full
    <3>2. PageWords \in Nat /\ 4 * PageWords = PageBytes BY Numbers
    <3> QED BY <3>1, <3>2
  <2> QED BY <2>3, <2>4
<1>4. StopCommits
  <2>1. 0 \in 0 .. PageBytes - 1 BY <1>2
  <2>2. 0 \in DOMAIN ee_buf BY <1>3, <2>1 DEF Filled
  <2> QED BY <1>1, <2>2 DEF StopCommits, At
<1>5. BusEvent(core_ack) = "stop" BY DEF BusEvent
<1>6. EffMem' = CommitPage
  <2>1. ee_act = 0 /\ wr_done \in {0, 1} BY <1>1 DEF At, Bit
  <2> QED BY <1>4, <1>5, <2>1, EffStep
<1>7. EffMem = ee_mem /\ PageBase = addr_pointer BY <1>1, <1>2 DEF At, EffMem, PageBase
<1>8. ee_st' = "off" BY <1>5 DEF EepStep
<1> QED BY <1>3, <1>6, <1>7, <1>8

\* The pages of the copy that are done stay done.
LEMMA PagesStep ==
  ASSUME BootInv, CopyInv, NEW core_ack \in Bit, NEW wr_done \in Bit, Clock(core_ack, wr_done), fsm # "DONE_STATE"
  PROVE  PagesInv'
<1> USE DEF Clock, BootInv, CopyInv
<1>1. ByteStays /\ top' = top /\ mem_index' = mem_index /\ addr_pointer' = addr_pointer BY TopWaits DEF ByteStays
<1>2. PagePos' = PagePos BY <1>1 DEF PagePos
<1>3. CASE top \in AddressTops /\ mem_index > 0
  <2>1. top \notin WriteTops /\ top # "BOOT_FINISH" BY <1>3, ByteStates DEF AddressTops, WriteTops
  <2>2. CASE mem_index = TOTAL
    <3>1. \A i : i \notin 0 .. PagePos - 1 BY <2>2 DEF PagePos
    <3>2. Copied(PagePos)' BY <1>2, <3>1 DEF Copied
    <3> QED BY <1>1, <2>1, <3>2 DEF PagesInv
  <2>3. CASE mem_index # TOTAL
    <3>1. c_state # "STOP"
      <4>1. ~generate_STO /\ ~ReadEnded /\ ~ReadEnding
        BY <1>3, <2>3 DEF generate_STO, ReadEnded, ReadEnding, AddressTops
      <4> QED BY <4>1, StopWhere
    <3>2. Copied(PagePos)' BY <1>2, <1>3, <3>1, EffKept DEF PagesInv, Copied
    <3> QED BY <1>1, <2>1, <3>2 DEF PagesInv
  <2> QED BY <2>2, <2>3
<1>4. CASE top \in WriteTops
  <2>1. top \notin AddressTops /\ top # "BOOT_FINISH" BY <1>4, ByteStates DEF AddressTops, WriteTops
  <2> DEFINE n == addr_pointer - EEPROM_WRITE_ADDR
  <2>2. Copied(n) BY <1>4 DEF PagesInv
  <2>3. CASE core_ack = 1 /\ c_state = "STOP"
    <3>1. fsm = "POLL_TIP" /\ generate_STO
      <4>1. ~ReadEnded /\ ~ReadEnding BY <1>4, ByteStates DEF ReadEnded, ReadEnding, WriteTops
      <4> QED BY <2>3, <4>1, StopWhere
    <3>2. EffMem' = CommitPage /\ EffMem = ee_mem /\ PageBase = addr_pointer BY <2>3, <3>1, PageCommitted
    <3>3. \A i \in 0 .. n - 1 : CommitPage[EEPROM_WRITE_ADDR + i] = ee_mem[EEPROM_WRITE_ADDR + i]
      <4> TAKE i \in 0 .. n - 1
      <4>1. n \in Nat BY <1>4, CopyNumbers
      <4>2. i \in Nat /\ i < n BY <4>1
      <4> QED BY <1>4, <3>2, <4>2, CommitKeeps
    <3>4. \A i \in 0 .. n - 1 : EffMem'[EEPROM_WRITE_ADDR + i] = ImageByte(i)
      BY <2>2, <3>2, <3>3 DEF Copied
    <3>5. n' = n BY <1>1
    <3>6. Copied(n)' BY <3>4, <3>5 DEF Copied
    <3> QED BY <1>1, <2>1, <3>6 DEF PagesInv
  <2>4. CASE ~(core_ack = 1 /\ c_state = "STOP")
    <3>1. EffMem' = EffMem BY <2>4, EffKept DEF Bit
    <3>2. Copied(n)' BY <1>1, <2>2, <3>1 DEF Copied
    <3> QED BY <1>1, <2>1, <3>2 DEF PagesInv
  <2> QED BY <2>3, <2>4
<1>5. CASE top = "BOOT_FINISH" /\ BOOT_WRITEBACK
  <2>1. top \notin AddressTops \cup WriteTops BY <1>5, ByteStates DEF AddressTops, WriteTops
  <2>2. Copied(TOTAL) /\ ee_st = "off" BY <1>5 DEF PagesInv
  <2>3. EffMem' = EffMem BY <2>2, EffKept
  <2>4. c_state \in {"IDLE", "STOP"}
    <3>1. fsm = "IDLE" BY <1>5 DEF ControlInv, Handshake
    <3> QED BY <3>1 DEF PollInv, CommandInv, Quiet, Stopping
  <2>5. ee_st' = "off" BY <2>2, <2>4, EepWaits DEF EepStays
  <2> QED BY <1>1, <2>1, <2>2, <2>3, <2>5 DEF PagesInv, Copied
<1>6. CASE /\ ~(top \in AddressTops /\ mem_index > 0) /\ top \notin WriteTops
           /\ ~(top = "BOOT_FINISH" /\ BOOT_WRITEBACK)
  BY <1>1, <1>6 DEF PagesInv
<1> QED BY <1>3, <1>4, <1>5, <1>6

\* A word read back from memory is a word of the image, and so are the bytes sent of it.
LEMMA WordStep ==
  ASSUME BootInv, ImageInv, CopyInv, NEW core_ack \in Bit, NEW wr_done \in Bit, Clock(core_ack, wr_done),
         fsm # "DONE_STATE"
  PROVE  WordInv'
<1> USE DEF Clock, BootInv, CopyInv
<1>0. fsm \in FsmState /\ wb \in WbState BY DEF ControlInv, TypeOK
<1>1. top' = top /\ mem_index' = mem_index /\ data_word' = data_word BY TopWaits
<1>2. ASSUME top = "READ_MEM", (fsm' = "SRAM_READ" /\ wb' \in {"WAIT_ACK", "DONE"}) \/ fsm' = "DONE_STATE"
      PROVE  \A j \in Lane : rd_word'[j] = ImageByte(mem_index + j)
  <2>1. sram_access /\ ~we BY <1>2 DEF sram_access, we
  <2>2. fsm \in {"IDLE", "SRAM_READ"}
    BY <1>0, <1>2, <2>1 DEF FsmState, PollInv, FsmTop, ReadEnding, ControlInv, Handshake
  <2>3. fsm = "SRAM_READ" /\ wb # "IDLE"
    <3>1. fsm # "IDLE"
      <4> SUFFICES ASSUME fsm = "IDLE" PROVE FALSE OBVIOUS
      <4>1. fsm' # "DONE_STATE" /\ wb' = "IDLE" BY FsmMoves, WbMoves DEF ControlInv, Handshake
      <4> QED BY <1>2, <4>1
    <3>2. wb # "IDLE" BY <1>2, <2>2, <3>1, FsmMoves, WbMoves
    <3> QED BY <2>2, <3>1, <3>2
  <2>4. CASE wb = "ISSUE"
    <3>1. rd_word' = sram[mem_addr] BY <2>3, <2>4 DEF ReadData_Step, Sampled, wb_we, wb_addr, WriteCommand
    <3>2. mem_index < TOTAL BY <1>2 DEF ControlInv, IndexInRange
    <3>3. mem_addr \in SramAddr /\ ImageIndex(mem_addr) = mem_index BY <3>2, ImageIndexFacts
    <3>4. ~Loading BY <1>2, ByteStates DEF Loading, LoadTops, AddressTops
    <3>5. sram[mem_addr] = Image[mem_addr] BY <3>3, <3>4 DEF ImageInv, LoadInv
    <3>6. Image[mem_addr] = [k \in Lane |-> ImageByte(mem_index + k)] BY <3>3 DEF Image
    <3> QED BY <3>1, <3>5, <3>6
  <2>5. CASE wb # "ISSUE"
    <3>1. rd_word' = rd_word BY <2>5 DEF ReadData_Step, Sampled
    <3> QED BY <1>0, <1>2, <2>3, <2>5, <3>1 DEF WordInv, WbState
  <2> QED BY <2>4, <2>5
<1> QED BY <1>1, <1>2 DEF WordInv

\* The page buffer fills byte by byte.
LEMMA FillStep ==
  ASSUME BootInv, CopyInv, NEW core_ack \in Bit, NEW wr_done \in Bit, Clock(core_ack, wr_done), fsm # "DONE_STATE"
  PROVE  FillInv'
<1> USE DEF Clock, BootInv, CopyInv
<1>0. EepStep(BusEvent(core_ack), sr, wr_done) OBVIOUS
<1>1. /\ ByteStays /\ top' = top /\ mem_index' = mem_index /\ addr_pointer' = addr_pointer
      /\ page_buffer_index' = page_buffer_index
  BY TopWaits DEF ByteStays
<1>2. ~(core_ack = 1 /\ c_state = "WRITE") => \A n : Filled(n) => Filled(n)'
  <2> SUFFICES ASSUME ~(core_ack = 1 /\ c_state = "WRITE") PROVE \A n : Filled(n) => Filled(n)' OBVIOUS
  <2>1. BusEvent(core_ack) # "byte" BY DEF BusEvent, Bit
  <2>2. ee_buf' = ee_buf BY <1>0, <2>1 DEF EepStep, MasterAck
  <2> QED BY <1>1, <2>2 DEF Filled
<1>3. CASE top = "READ_MEM"
  <2>1. top \notin WriteData BY <1>3, ByteStates
  <2>2. c_state # "WRITE"
    <3> SUFFICES ASSUME c_state = "WRITE" PROVE FALSE OBVIOUS
    <3>1. fsm = "POLL_TIP" /\ ~sram_access BY PhasesOnlyPolling, PhaseFacts
    <3> QED BY <1>3, <3>1 DEF sram_access
  <2>3. Filled(4 * page_buffer_index)' BY <1>1, <1>2, <1>3, <2>2 DEF FillInv, Filled
  <2> QED BY <1>1, <2>1, <2>3, BytesDiffer DEF FillInv
<1>4. CASE top \in WriteData
  <2>1. PICK k \in Lane : top = WriteByteState[k + 1] BY <1>4, ByteStates
  <2>2. \A j \in Lane : top' = WriteByteState[j + 1] => j = k BY <1>1, <2>1, BytesDiffer
  <2>3. top' # "READ_MEM" BY <1>1, <1>4, ByteStates
  <2>4. ~generate_STA /\ ~generate_STA' BY <1>1, <1>4, ByteStates DEF generate_STA
  <2> DEFINE o == 4 * page_buffer_index + k
  <2>5. CASE fsm = "POLL_TIP" /\ c_state = "WRITE" /\ core_ack = 1
    <3>1. Ready /\ sr = w_byte /\ BeforeByte BY <2>4, <2>5 DEF SessionInv, BeforeByte
    <3>2. EepStep("byte", w_byte, wr_done) BY <1>0, <2>5, <3>1 DEF BusEvent
    <3>3. RecvData(w_byte) BY <1>1, <2>1, <3>1, <3>2, DataByte
    <3>4. /\ ee_ptr = addr_pointer + o /\ o \in 0 .. PageBytes - 1 /\ PageBytes \in Nat \ {0}
          /\ addr_pointer \in Nat /\ addr_pointer % PageBytes = 0
      BY <2>1, <3>1, WritePosition, Numbers DEF Ready, At
    <3>5. w_byte = ImageByte(addr_pointer - EEPROM_WRITE_ADDR + o)
      <4>1. w_byte = data_word[k] BY <2>1, ByteStates DEF w_byte
      <4>2. data_word[k] = ImageByte(mem_index - 4 + k) BY <1>4 DEF WordInv
      <4>3. mem_index - 4 + k = addr_pointer - EEPROM_WRITE_ADDR + o
        <5>1. EEPROM_WRITE_ADDR + mem_index - 4 + k = addr_pointer + o BY <2>1, WritePosition
        <5>2. EEPROM_WRITE_ADDR \in Nat /\ mem_index \in Nat BY Numbers
        <5>3. k \in Nat BY DEF Lane
        <5> HIDE DEF o
        <5> QED BY <3>4, <5>1, <5>2, <5>3
      <4> QED BY <4>1, <4>2, <4>3
    <3>6. Filled(o) BY <2>1, <3>1 DEF FillInv
    <3>7. (4 * page_buffer_index + (k + 1)) = o + 1
      <4>1. page_buffer_index \in Nat /\ k \in Nat BY Numbers DEF Lane
      <4> QED BY <4>1
    <3> HIDE DEF o
    <3>8. ee_ptr % PageBytes = o BY <3>4, PageOffsetOf
    <3>9. ee_buf' = [x \in DOMAIN ee_buf \cup {o} |-> IF x = o THEN w_byte ELSE ee_buf[x]]
      BY <3>3, <3>8 DEF RecvData
    <3>10. \A x \in 0 .. (o + 1) - 1 : x = o \/ x \in 0 .. o - 1 BY <3>4
    <3>11. \A x \in 0 .. (o + 1) - 1 :
             x \in DOMAIN ee_buf' /\ ee_buf'[x] = ImageByte(addr_pointer - EEPROM_WRITE_ADDR + x)
      BY <3>5, <3>6, <3>9, <3>10 DEF Filled
    <3>12. fsm' = "POLL_TIP" /\ c_state' = "RXACK" BY <1>4, <2>5, WriteMoves DEF PageSent, BeforeByte
    <3>13. ~BeforeByte' BY <3>12 DEF BeforeByte
    <3>14. Filled(4 * page_buffer_index + (k + 1))' BY <1>1, <3>7, <3>11 DEF Filled
    <3> QED BY <2>2, <2>3, <3>13, <3>14 DEF FillInv
  <2>6. CASE ~(fsm = "POLL_TIP" /\ c_state = "WRITE" /\ core_ack = 1)
    <3>1. BeforeByte' <=> BeforeByte
      BY <1>4, <2>4, <2>6, WriteMoves DEF BeforeByte, PageSent, Bit
    <3>2. c_state = "WRITE" => fsm = "POLL_TIP" BY PhasesOnlyPolling
    <3>3. \A n : Filled(n) => Filled(n)' BY <1>2, <2>6, <3>2
    <3>4. Filled(4 * page_buffer_index + (IF BeforeByte THEN k ELSE k + 1)) BY <2>1 DEF FillInv
    <3>5. CASE BeforeByte
      <4>1. Filled(4 * page_buffer_index + k)' BY <1>1, <3>3, <3>4, <3>5 DEF Filled
      <4> QED BY <2>2, <2>3, <3>1, <3>5, <4>1 DEF FillInv
    <3>6. CASE ~BeforeByte
      <4>1. Filled(4 * page_buffer_index + (k + 1))' BY <1>1, <3>3, <3>4, <3>6 DEF Filled
      <4> QED BY <2>2, <2>3, <3>1, <3>6, <4>1 DEF FillInv
    <3> QED BY <3>5, <3>6
  <2> QED BY <2>5, <2>6
<1>5. CASE top # "READ_MEM" /\ top \notin WriteData
  BY <1>1, <1>5, BytesDiffer DEF FillInv
<1> QED BY <1>3, <1>4, <1>5

\* The last byte of a page takes the pointer back to the start of the page; its STOP commits it.
LEMMA StopStep ==
  ASSUME BootInv, CopyInv, NEW core_ack \in Bit, NEW wr_done \in Bit, Clock(core_ack, wr_done), fsm # "DONE_STATE"
  PROVE  StopInv'
<1> USE DEF Clock, BootInv, CopyInv
<1>0. EepStep(BusEvent(core_ack), sr, wr_done) OBVIOUS
<1>1. /\ ByteStays /\ top' = top /\ mem_index' = mem_index /\ addr_pointer' = addr_pointer
      /\ generate_STO' = generate_STO
  BY TopWaits DEF ByteStays, generate_STO, page_full
<1>2. SUFFICES ASSUME generate_STO
               PROVE  /\ fsm' = "POLL_TIP" /\ c_state' \in {"RXACK", "STOP"} => At("data", addr_pointer)'
                      /\ PageSent' => Copied(mem_index)' /\ ee_st' = "off"
  BY <1>1 DEF StopInv
<1>3. top \in WriteData /\ top = WriteByteState[3 + 1] /\ 3 \in Lane /\ top \in WriteTops /\ ~generate_STA
  BY <1>2, ByteStates DEF generate_STO, WriteTops, generate_STA
<1>4. CASE c_state = "IDLE" /\ BeforeByte /\ ~PageSent'
  <2>1. ~(fsm' = "POLL_TIP" /\ c_state' \in {"RXACK", "STOP"}) BY <1>3, <1>4, WriteMoves DEF BeforeByte, PageSent
  <2> QED BY <1>4, <2>1
<1>5. CASE fsm = "POLL_TIP" /\ c_state = "WRITE" /\ core_ack = 0
  <2>1. fsm' = "POLL_TIP" /\ c_state' = "WRITE" BY <1>3, <1>5, WriteMoves DEF PageSent
  <2> QED BY <2>1 DEF PageSent
<1>6. CASE fsm = "POLL_TIP" /\ c_state = "WRITE" /\ core_ack = 1
  <2>1. fsm' = "POLL_TIP" /\ c_state' = "RXACK" BY <1>3, <1>6, WriteMoves DEF PageSent
  <2>2. Ready /\ sr = w_byte BY <1>3, <1>6 DEF SessionInv, BeforeByte
  <2>3. EepStep("byte", w_byte, wr_done) BY <1>0, <1>6, <2>2 DEF BusEvent
  <2>4. RecvData(w_byte) /\ ee_act' = 0 BY <1>1, <1>3, <2>2, <2>3, DataByte
  <2> DEFINE o == 4 * page_buffer_index + 3
  <2>5. /\ ee_ptr = addr_pointer + o /\ o = PageBytes - 1 /\ PageBytes \in Nat \ {0}
        /\ addr_pointer \in Nat /\ addr_pointer % PageBytes = 0
    BY <1>2, <1>3, <2>2, WritePosition, Numbers DEF Ready, At, generate_STO
  <2> HIDE DEF o
  <2>a. o \in 0 .. PageBytes - 1 BY <2>5
  <2>6. ee_ptr % PageBytes = o /\ PageBase = addr_pointer
    <3> DEFINE a == addr_pointer + o
    <3>1. a % PageBytes = o /\ a - (a % PageBytes) = addr_pointer BY <2>5, <2>a, PageOffsetOf
    <3>2. ee_ptr = a BY <2>5
    <3> HIDE DEF a
    <3> QED BY <3>1, <3>2 DEF PageBase
  <2>7. (o + 1) % PageBytes = 0
    <3>1. o + 1 = PageBytes BY <2>5
    <3> QED BY <2>5, <3>1
  <2>8. ee_ptr' = addr_pointer + 0 /\ ee_st' = "data" BY <2>4, <2>6, <2>7 DEF RecvData
  <2>9. At("data", addr_pointer)' BY <1>1, <2>4, <2>5, <2>8 DEF At
  <2> QED BY <2>1, <2>9 DEF PageSent
<1>7. CASE fsm = "POLL_TIP" /\ c_state = "RXACK"
  <2>1. fsm' = "POLL_TIP" /\ c_state' \in {"RXACK", "STOP"} BY <1>2, <1>3, <1>7, WriteMoves DEF PageSent
  <2>2. EepStays BY <1>0, <1>7, EepWaits
  <2>3. At("data", addr_pointer) BY <1>2, <1>7 DEF StopInv
  <2>4. At("data", addr_pointer)' BY <1>1, <2>2, <2>3 DEF At, EepStays
  <2> QED BY <2>1, <2>4 DEF PageSent
<1>8. CASE fsm = "POLL_TIP" /\ c_state = "STOP" /\ core_ack = 0
  <2>1. fsm' = "POLL_TIP" /\ c_state' = "STOP" BY <1>3, <1>8, WriteMoves DEF PageSent
  <2>2. EepStays BY <1>0, <1>8, EepWaits
  <2>3. At("data", addr_pointer) BY <1>2, <1>8 DEF StopInv
  <2>4. At("data", addr_pointer)' BY <1>1, <2>2, <2>3 DEF At, EepStays
  <2> QED BY <2>1, <2>4 DEF PageSent
<1>9. CASE fsm = "POLL_TIP" /\ c_state = "STOP" /\ core_ack = 1
  <2>1. fsm' = "POLL_TIP" /\ c_state' = "IDLE" BY <1>3, <1>9, WriteMoves DEF PageSent
  <2>2. EffMem' = CommitPage /\ EffMem = ee_mem /\ PageBase = addr_pointer /\ Filled(PageBytes) /\ ee_st' = "off"
    BY <1>2, <1>9, PageCommitted
  <2> DEFINE n == addr_pointer - EEPROM_WRITE_ADDR
  <2>3. /\ EEPROM_WRITE_ADDR \in Nat /\ addr_pointer \in Nat /\ EEPROM_WRITE_ADDR <= addr_pointer
        /\ PageBytes \in Nat \ {0} /\ mem_index = n + PageBytes
    BY <1>2, <1>3, CopyNumbers
  <2>4. ASSUME NEW i \in 0 .. mem_index - 1
        PROVE  CommitPage[EEPROM_WRITE_ADDR + i] = ImageByte(i)
    <3>1. CASE i < n
      <4>1. i \in 0 .. n - 1 /\ i \in Nat BY <2>3, <2>4, <3>1
      <4>2. ee_mem[EEPROM_WRITE_ADDR + i] = ImageByte(i) BY <1>3, <2>2, <4>1 DEF PagesInv, Copied
      <4> QED BY <1>3, <2>2, <3>1, <4>1, <4>2, CommitKeeps
    <3>2. CASE i >= n
      <4> DEFINE o == i - n
      <4>1. /\ o \in 0 .. PageBytes - 1 /\ EEPROM_WRITE_ADDR + i = addr_pointer + o
            /\ addr_pointer - EEPROM_WRITE_ADDR + o = i
        BY <2>3, <2>4, <3>2
      <4> HIDE DEF o
      <4>2. CommitPage[addr_pointer + o] = ImageByte(addr_pointer - EEPROM_WRITE_ADDR + o)
        BY <1>3, <2>2, <4>1, CommitFills
      <4> QED BY <4>1, <4>2
    <3>3. i \in Int /\ n \in Int BY <2>3, <2>4
    <3> QED BY <3>1, <3>2, <3>3
  <2>5. Copied(mem_index)' BY <1>1, <2>2, <2>4 DEF Copied
  <2> QED BY <2>1, <2>2, <2>5
<1>10. CASE PageSent /\ c_state = "IDLE"
  <2>1. c_state' = "IDLE" BY <1>3, <1>10, WriteMoves DEF PageSent, BeforeByte
  <2>2. EepStays BY <1>0, <1>10, EepWaits
  <2>3. Copied(mem_index) /\ ee_st = "off" BY <1>2, <1>10 DEF StopInv
  <2>4. EffMem' = EffMem BY <1>10, EffKept
  <2>5. Copied(mem_index)' BY <1>1, <2>3, <2>4 DEF Copied
  <2> QED BY <2>1, <2>2, <2>3, <2>5 DEF EepStays
<1> QED BY <1>3, <1>4, <1>5, <1>6, <1>7, <1>8, <1>9, <1>10, WriteMoves DEF Bit

\* The loader moves on: to the next byte, the next word, the next page, or to its end.
LEMMA CopyNextByte ==
  ASSUME BootInv, CopyInv, NEW core_ack \in Bit, NEW wr_done \in Bit, Clock(core_ack, wr_done), fsm = "DONE_STATE"
  PROVE  CopyInv'
<1> USE DEF Clock, BootInv, CopyInv, GoTo
<1>0. /\ TOTAL \in Nat \ {0} /\ mem_index \in 0 .. TOTAL /\ mem_index \in Nat
      /\ page_buffer_index \in Nat /\ EEPROM_WRITE_ADDR \in Nat /\ PageBytes \in Nat \ {0}
  BY Numbers
<1>1. fsm' = "IDLE" /\ done BY FsmMoves DEF done
<1>2. EffMem' = EffMem /\ ee_buf' = ee_buf /\ ee_st' = ee_st
  <2>1. c_state = "IDLE" \/ (c_state = "STOP" /\ ee_st = "off")
    <3>1. CASE Quiet BY <3>1 DEF Quiet
    <3>2. CASE Stopping /\ ReadEnding
      <4>1. Taken BY DEF SessionInv
      <4>2. ee_st = "off" BY <3>2, <4>1 DEF Taken, AfterRead, ReadEnding
      <4> QED BY <3>2, <4>2 DEF Stopping
    <3> QED BY <3>1, <3>2 DEF PollInv, CommandInv
  <2>2. EepStays /\ ee_buf' = ee_buf BY <2>1, EepWaits
  <2>3. EffMem' = EffMem BY <2>1, EffKept
  <2> QED BY <2>2, <2>3 DEF EepStays
<1>3. BeforeByte' /\ ~PageSent' /\ StopInv' BY <1>1 DEF BeforeByte, PageSent, StopInv
<1>4. top # "BOOT_FINISH" BY <1>1 DEF ControlInv, Handshake, done
<1>5. ~BeforeByte BY DEF BeforeByte
<1>6. \A n : Copied(n) <=> Copied(n)' BY <1>2 DEF Copied
<1>7. CASE top' \notin AddressTops \cup WriteTops \cup {"BOOT_FINISH"}
  <2>1. top' \notin WriteData /\ top' # "READ_MEM" BY <1>7 DEF WriteTops
  <2>2. PagesInv' BY <1>7 DEF PagesInv
  <2>3. WordInv' /\ FillInv' BY <2>1, BytesDiffer DEF WordInv, FillInv
  <2> QED BY <1>3, <2>2, <2>3
<1>8. CASE top' \in AddressTops
  <2>1. top' \notin WriteTops \cup {"BOOT_FINISH"} BY <1>8, ByteStates DEF AddressTops, WriteTops
  <2>2. top' \notin WriteData /\ top' # "READ_MEM" BY <2>1 DEF WriteTops
  <2>3. WordInv' /\ FillInv' BY <2>2, BytesDiffer DEF WordInv, FillInv
  <2>4. mem_index' > 0 => Copied(PagePos)'
    <3>1. CASE SlaveAddrW \/ WordAddr0
      <4>1. top \in AddressTops /\ mem_index' = mem_index /\ PagePos' = PagePos
        BY <3>1 DEF SlaveAddrW, WordAddr0, AddressTops, PagePos
      <4> QED BY <1>2, <4>1 DEF PagesInv, Copied
    <3>2. CASE WriteMem
      <4>1. last_read /\ mem_index' = mem_index + 4
        BY <1>8, <3>2, ByteStates DEF WriteMem, AddressTops
      <4>2. mem_index' = TOTAL BY <1>0, <4>1 DEF last_read
      <4>3. PagePos' = 0 BY <4>2 DEF PagePos
      <4>4. \A i : i \notin 0 .. 0 - 1 OBVIOUS
      <4> QED BY <4>3, <4>4 DEF Copied
    <3>3. CASE LastDataByte
      <4>1. mem_index # TOTAL /\ page_full /\ top = "WRITE_DATA_BYTE3" /\ mem_index' = mem_index
        BY <1>8, <3>3 DEF LastDataByte, AddressTops
      <4>2. generate_STO /\ PageSent BY <4>1 DEF generate_STO, PageSent
      <4>3. Copied(mem_index) BY <4>2 DEF StopInv
      <4>4. PagePos' = mem_index BY <4>1 DEF PagePos
      <4> QED BY <1>2, <4>3, <4>4 DEF Copied
    <3>4. ~(WordAddr1 \/ SlaveAddrR \/ ReadDataByte \/ ReadMem \/ WriteDataByte)
      BY <1>8, ByteStates DEF WordAddr1, SlaveAddrR, ReadDataByte, ReadMem, WriteDataByte, AddressTops
    <3> QED BY <1>1, <1>4, <3>1, <3>2, <3>3, <3>4 DEF TopStep, Finish, TopHold
  <2> QED BY <1>3, <1>8, <2>1, <2>3, <2>4 DEF PagesInv
<1>9. CASE top' = "BOOT_FINISH"
  <2>1. top' \notin WriteTops \cup AddressTops BY <1>9, ByteStates DEF AddressTops, WriteTops
  <2>2. top' \notin WriteData /\ top' # "READ_MEM" BY <2>1 DEF WriteTops
  <2>3. WordInv' /\ FillInv' BY <2>2, BytesDiffer DEF WordInv, FillInv
  <2>4. BOOT_WRITEBACK => Copied(TOTAL)' /\ ee_st' = "off"
    <3> SUFFICES ASSUME BOOT_WRITEBACK PROVE Copied(TOTAL)' /\ ee_st' = "off" OBVIOUS
    <3>1. LastDataByte
      BY <1>1, <1>4, <1>9, ByteStates DEF TopStep, Finish, TopHold, SlaveAddrW, WordAddr0, WordAddr1, SlaveAddrR,
         ReadDataByte, WriteMem, AfterLastRead, ReadMem, WriteDataByte
    <3>2. mem_index = TOTAL /\ top = "WRITE_DATA_BYTE3" BY <1>9, <3>1 DEF LastDataByte
    <3>3. top \in WriteTops /\ top \in WriteData BY <3>2, ByteStates DEF WriteTops
    <3>4. page_full
      <4>1. addr_pointer + PageBytes <= EEPROM_WRITE_ADDR + TOTAL /\ addr_pointer \in Nat
        BY <3>3, CopyNumbers
      <4>2. addr_pointer + 4 * page_buffer_index + 4 = EEPROM_WRITE_ADDR + mem_index BY <3>3 DEF AddressInv
      <4>3. PageWords \in Nat \ {0} /\ 4 * PageWords = PageBytes /\ page_buffer_index \in 0 .. PageWords - 1
        BY Numbers
      <4>4. page_buffer_index = PageWords - 1 BY <1>0, <3>2, <4>1, <4>2, <4>3
      <4> QED BY <4>4 DEF page_full
    <3>5. generate_STO /\ PageSent BY <3>2, <3>4 DEF generate_STO, PageSent
    <3>6. Copied(TOTAL) /\ ee_st = "off" BY <3>2, <3>5 DEF StopInv
    <3> QED BY <1>2, <3>6 DEF Copied
  <2> QED BY <1>3, <2>1, <2>3, <2>4 DEF PagesInv
<1>10. CASE top' = "READ_MEM"
  <2>1. top' \notin WriteData \cup AddressTops \cup {"BOOT_FINISH"} /\ top' \in WriteTops
    BY <1>10, ByteStates DEF AddressTops, WriteTops
  <2>2. WordInv' BY <1>1, <2>1 DEF WordInv
  <2>3. Copied(addr_pointer - EEPROM_WRITE_ADDR)' /\ Filled(4 * page_buffer_index)'
    <3>1. CASE WordAddr1
      <4>1. top = "WRITE_WORD_ADDR_BYTE1" /\ mem_index > 0 /\ UNCHANGED <<addr_pointer, page_buffer_index>>
        BY <1>10, <3>1 DEF WordAddr1
      <4>2. addr_pointer = EEPROM_WRITE_ADDR + PagePos /\ page_buffer_index = 0 /\ Copied(PagePos)
        BY <1>0, <4>1 DEF AddressInv, AddressTops, PagesInv
      <4>3. PagePos \in Nat BY <1>0 DEF PagePos
      <4> HIDE DEF PagePos
      <4>4. addr_pointer' - EEPROM_WRITE_ADDR = PagePos BY <1>0, <4>1, <4>2, <4>3
      <4>5. \A o : o \notin 0 .. 4 * 0 - 1 OBVIOUS
      <4> QED BY <1>2, <4>1, <4>2, <4>4, <4>5 DEF Copied, Filled
    <3>2. CASE LastDataByte
      <4>1. top = "WRITE_DATA_BYTE3" /\ page_buffer_index' = page_buffer_index + 1 /\ addr_pointer' = addr_pointer
        BY <1>10, <3>2 DEF LastDataByte
      <4>2. top = WriteByteState[3 + 1] /\ 3 \in Lane /\ top \in WriteTops BY <4>1, ByteStates DEF WriteTops
      <4>3. Filled(4 * page_buffer_index + (3 + 1)) BY <1>5, <4>2 DEF FillInv
      <4>4. 4 * page_buffer_index' = 4 * page_buffer_index + (3 + 1) BY <1>0, <4>1
      <4>5. Filled(4 * page_buffer_index)' BY <1>2, <4>1, <4>3, <4>4 DEF Filled
      <4>6. Copied(addr_pointer - EEPROM_WRITE_ADDR)' BY <1>2, <4>1, <4>2 DEF PagesInv, Copied
      <4> QED BY <4>5, <4>6
    <3>3. WordAddr1 \/ LastDataByte
      BY <1>1, <1>4, <1>10, ByteStates DEF TopStep, Finish, TopHold, SlaveAddrW, WordAddr0, SlaveAddrR,
         ReadDataByte, WriteMem, AfterLastRead, ReadMem, WriteDataByte
    <3> QED BY <3>1, <3>2, <3>3
  <2>4. PagesInv' BY <2>1, <2>3 DEF PagesInv
  <2>5. FillInv' BY <2>1, <2>3, BytesDiffer DEF FillInv
  <2> QED BY <1>3, <2>2, <2>4, <2>5
<1>11. CASE top' \in WriteData
  <2>1. top' \notin AddressTops \cup {"BOOT_FINISH", "READ_MEM"} /\ top' \in WriteTops
    BY <1>11, ByteStates DEF AddressTops, WriteTops
  <2>2. CASE ReadMem
    <3>1. /\ top = "READ_MEM" /\ top' = "WRITE_DATA_BYTE0" /\ mem_index' = mem_index + 4 /\ data_word' = rd_word
          /\ UNCHANGED <<addr_pointer, page_buffer_index>>
      BY <2>2 DEF ReadMem
    <3>2. \A j \in Lane : rd_word[j] = ImageByte(mem_index + j) BY <3>1 DEF WordInv
    <3>3. \A j \in Lane : mem_index' - 4 + j = mem_index + j BY <1>0, <3>1, ByteStates
    <3>4. WordInv' BY <2>1, <3>1, <3>2, <3>3 DEF WordInv
    <3>5. PagesInv' BY <1>2, <2>1, <3>1 DEF PagesInv, Copied, WriteTops
    <3>6. Filled(4 * page_buffer_index) /\ 4 * page_buffer_index + 0 = 4 * page_buffer_index
      BY <1>0, <3>1 DEF FillInv
    <3>7. Filled(4 * page_buffer_index + 0)' BY <1>2, <3>1, <3>6 DEF Filled
    <3>8. \A k \in Lane : top' = WriteByteState[k + 1] => k = 0 BY <3>1, ByteStates, BytesDiffer
    <3>9. FillInv' BY <1>3, <2>1, <3>7, <3>8 DEF FillInv
    <3> QED BY <1>3, <3>4, <3>5, <3>9
  <2>3. CASE WriteDataByte
    <3>1. PICK k \in 0 .. 2 : /\ GoTo(WriteByteState[k + 1], WriteByteState[k + 2])
                              /\ UNCHANGED <<mem_index, addr_pointer, page_buffer_index, data_word>>
      BY <2>3 DEF WriteDataByte
    <3>2. top = WriteByteState[k + 1] /\ k \in Lane /\ k + 1 \in Lane /\ k + 2 = (k + 1) + 1
      BY <3>1, ByteStates
    <3>3. top \in WriteData /\ top \in WriteTops BY <3>2, BytesDiffer DEF WriteTops
    <3>4. WordInv' BY <2>1, <3>1, <3>3 DEF WordInv
    <3>5. PagesInv' BY <1>2, <2>1, <3>1, <3>3 DEF PagesInv, Copied
    <3>6. Filled(4 * page_buffer_index + (k + 1)) BY <1>5, <3>2 DEF FillInv
    <3>7. Filled(4 * page_buffer_index + (k + 1))' BY <1>2, <3>1, <3>6 DEF Filled
    <3>8. \A j \in Lane : top' = WriteByteState[j + 1] => j = k + 1 BY <3>1, <3>2, BytesDiffer
    <3>9. FillInv' BY <1>3, <2>1, <3>7, <3>8 DEF FillInv
    <3> QED BY <1>3, <3>4, <3>5, <3>9
  <2>4. ReadMem \/ WriteDataByte
    BY <1>1, <1>4, <1>11, ByteStates DEF TopStep, Finish, TopHold, SlaveAddrW, WordAddr0, WordAddr1, SlaveAddrR,
       ReadDataByte, WriteMem, AfterLastRead, LastDataByte
  <2> QED BY <2>2, <2>3, <2>4
<1> QED BY <1>7, <1>8, <1>9, <1>10, <1>11 DEF WriteTops

\* CopyInv is an invariant: the pages before the one under way are copied or being written, the
\* bytes of that page sent so far are in the page buffer, each in its place.
THEOREM CopyInvariant == Spec => []CopyInv
<1>1. Init => CopyInv
  <2> SUFFICES ASSUME Init PROVE CopyInv OBVIOUS
  <2>1. top = "WRITE_SLAVE_ADDR_W_BIT" /\ mem_index = 0 BY DEF Init, MasterInit
  <2>2. top \notin WriteTops \cup {"BOOT_FINISH"} /\ ~(mem_index > 0) /\ ~generate_STO
    BY <2>1, ByteStates DEF WriteTops, generate_STO
  <2> QED BY <2>2, BytesDiffer DEF CopyInv, PagesInv, WordInv, FillInv, StopInv, WriteTops
<1>2. BootInv /\ ImageInv /\ CopyInv /\ [Next]_vars => CopyInv'
  <2> SUFFICES ASSUME BootInv, ImageInv, CopyInv, [Next]_vars PROVE CopyInv' OBVIOUS
  <2>1. CASE Reset
    <3>1. top' = "WRITE_SLAVE_ADDR_W_BIT" /\ mem_index' = 0 BY <2>1 DEF Reset, MasterReset
    <3>2. top' \notin WriteTops \cup {"BOOT_FINISH"} /\ ~(mem_index' > 0) /\ ~generate_STO'
      BY <3>1, ByteStates DEF WriteTops, generate_STO
    <3> QED BY <3>2, BytesDiffer DEF CopyInv, PagesInv, WordInv, FillInv, StopInv, WriteTops
  <2>2. CASE \E core_ack, wr_done \in Bit : Clock(core_ack, wr_done)
    <3>1. PICK core_ack \in Bit, wr_done \in Bit : Clock(core_ack, wr_done) BY <2>2
    <3>2. CASE fsm = "DONE_STATE" BY <3>1, <3>2, CopyNextByte
    <3>3. CASE fsm # "DONE_STATE" BY <3>1, <3>3, PagesStep, WordStep, FillStep, StopStep DEF CopyInv
    <3> QED BY <3>2, <3>3
  <2>3. CASE UNCHANGED vars
    <3> USE <2>3 DEF vars, topVars, wbVars, i2cVars, eeVars
    <3>1. CommitPage' = CommitPage BY DEF CommitPage, PageBase
    <3>2. EffMem' = EffMem BY <3>1 DEF EffMem
    <3>3. \A n : Copied(n)' = Copied(n) BY <3>2 DEF Copied
    <3>4. PagesInv' = PagesInv BY <3>3 DEF PagesInv, PagePos, AddressTops
    <3>5. WordInv' = WordInv BY DEF WordInv
    <3>6. FillInv' = FillInv
      <4>1. \A n : Filled(n)' = Filled(n) BY DEF Filled
      <4>3. UNCHANGED <<top, page_buffer_index, fsm, c_state, generate_STA>> BY DEF generate_STA
      <4> HIDE <2>3 DEF vars, topVars, wbVars, i2cVars, eeVars
      <4>2. BeforeByte' = BeforeByte BY <4>3 DEF BeforeByte
      <4>4. \A k \in Lane : (top = WriteByteState[k + 1] =>
                              Filled(4 * page_buffer_index + (IF BeforeByte THEN k ELSE k + 1)))'
                         = (top = WriteByteState[k + 1] =>
                              Filled(4 * page_buffer_index + (IF BeforeByte THEN k ELSE k + 1)))
        BY <4>1, <4>2, <4>3
      <4>5. (top = "READ_MEM" => Filled(4 * page_buffer_index))'
              = (top = "READ_MEM" => Filled(4 * page_buffer_index))
        BY <4>1, <4>3
      <4> QED BY <4>4, <4>5, Zenon DEF FillInv
    <3>7. generate_STO' = generate_STO BY DEF generate_STO, page_full
    <3>8. PageSent' = PageSent BY DEF PageSent, At
    <3>9. StopInv' = StopInv BY <3>3, <3>7, <3>8 DEF StopInv, At
    <3> QED BY <3>4, <3>5, <3>6, <3>9 DEF CopyInv
  <2> QED BY <2>1, <2>2, <2>3 DEF Next
<1> QED BY <1>1, <1>2, BootInvariant, ImageInvariant, PTL DEF Spec

\* When a boot with write-back is over and the EEPROM is ready again the copy is complete, the last
\* page included, for memories and pages of any size, any image, and resets at any time.
THEOREM CopyComplete == Spec => []WriteBackComplete
<1>1. CopyInv => WriteBackComplete
  BY DEF CopyInv, PagesInv, Copied, EffMem, WriteBackComplete
<1> QED BY <1>1, CopyInvariant, PTL
==============================================================================
