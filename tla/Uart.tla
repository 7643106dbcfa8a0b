-------------------------------- MODULE Uart --------------------------------
(***************************************************************************)
(* The UART without FIFO (wbuart_no_fifo.v, rxuart.v, txuart.v), one step  *)
(* per clock.  The bits of a byte are left out: a byte is on the wire for  *)
(* some number of clocks, and then all of it has passed.  The registers    *)
(* have the names of the Verilog; rx_empty, whatever its name says, is 1   *)
(* when RX_DATA holds a byte.                                              *)
(*                                                                         *)
(* The bytes that arrive are 1, 2, ...  A byte cut off on the wire, and    *)
(* what a reset leaves in the data register, is 0.                         *)
(***************************************************************************)
EXTENDS Naturals, Sequences

VARIABLES
  cr,                         \* CONTROL, as the set of its bits that are 1
  rx_stage, rx_bits, rx_data, \* rxuart: state, byte on the wire, o_data
  rx_empty_d, rx_empty, r_rx_overflow,
  r_tx_data, tx_empty_n,
  tx_busy, tx_busy_d, tx_sr,  \* txuart: busy, and the byte it sends
  r_wb_addr, r_wb_ack,
  in, out                     \* the wires: bytes the peer began, bytes it got

uartVars == <<cr, rx_stage, rx_bits, rx_data, rx_empty_d, rx_empty, r_rx_overflow,
              r_tx_data, tx_empty_n, tx_busy, tx_busy_d, tx_sr, r_wb_addr, r_wb_ack,
              in, out>>

Bit == {0, 1}
Reset == {"TX_RST", "RX_RST"}
CrBit == {"TX_INT_EN", "TX_EN", "RX_INT_EN", "RX_EN"} \cup Reset
Nothing == <<0, 0>>           \* no byte, in place of a byte to send

\* A write of SETUP resets the receiver; the reset bits last a clock.
Control(adr, we, dat) ==
  cr' = IF we /\ adr = "CONTROL" THEN dat
        ELSE IF we /\ adr = "SETUP" THEN cr \cup Reset
        ELSE cr \ Reset

(***************************************************************************)
(* rxuart.  o_data changes one clock before the strobe.                    *)
(***************************************************************************)
ByteBegins ==
  /\ rx_stage = "idle" /\ rx_stage' = "bits"
  /\ in' = in + 1 /\ rx_bits' = in + 1
  /\ UNCHANGED rx_data

ByteEnds ==
  /\ rx_stage = "bits" /\ rx_stage' = "pre_wr"
  /\ rx_data' = rx_bits
  /\ UNCHANGED <<rx_bits, in>>

Receiver ==
  \/ "RX_RST" \in cr' /\ rx_stage' = "idle" /\ rx_data' = 0 /\ UNCHANGED <<rx_bits, in>>
  \/ /\ "RX_RST" \notin cr'
     /\ \/ "RX_EN" \in cr /\ ByteBegins
        \/ ByteEnds
        \/ rx_stage = "pre_wr" /\ rx_stage' = "wr" /\ UNCHANGED <<rx_bits, rx_data, in>>
        \/ rx_stage = "wr" /\ rx_stage' = "idle" /\ UNCHANGED <<rx_bits, rx_data, in>>
        \/ /\ rx_stage \in {"idle", "bits"}
           /\ rx_bits' = IF "RX_EN" \in cr THEN rx_bits ELSE 0
           /\ UNCHANGED <<rx_stage, rx_data, in>>

(***************************************************************************)
(* The flags of RX_DATA: a read latches rx_empty_d, and the clock after    *)
(* the acknowledge begins clears both.                                     *)
(***************************************************************************)
RxFlags_ClearAny(adr, stb) ==
  IF rx_stage = "wr" THEN rx_empty_d' = 1 /\ UNCHANGED <<rx_empty, r_rx_overflow>>
  ELSE IF r_wb_ack = 0 /\ r_wb_addr = "RX_DATA" THEN
    rx_empty' = 0 /\ rx_empty_d' = 0 /\ r_rx_overflow' = 0
  ELSE
    /\ rx_empty' = IF rx_empty = 0 /\ stb /\ adr = "RX_DATA" THEN rx_empty_d ELSE rx_empty
    /\ UNCHANGED <<rx_empty_d, r_rx_overflow>>

RxFlags(adr, stb) ==
  IF rx_stage = "wr" THEN
    /\ rx_empty_d' = 1
    /\ r_rx_overflow' = IF rx_empty_d = 1 THEN 0 ELSE r_rx_overflow
    /\ UNCHANGED rx_empty
  ELSE IF rx_empty = 1 /\ r_wb_ack = 0 /\ r_wb_addr = "RX_DATA" THEN
    rx_empty' = 0 /\ rx_empty_d' = 0 /\ r_rx_overflow' = 0
  ELSE
    /\ rx_empty' = IF rx_empty = 0 /\ stb /\ adr = "RX_DATA" THEN rx_empty_d ELSE rx_empty
    /\ UNCHANGED <<rx_empty_d, r_rx_overflow>>

(***************************************************************************)
(* The transmitter.  A byte that is sent while TX_EN is off is lost.  ends *)
(* says that this is the last clock of a byte, or of the pause after reset.*)
(***************************************************************************)
TxRegister(adr, we, dat) ==
  IF we /\ adr = "TX_DATA" THEN r_tx_data' = dat /\ tx_empty_n' = 1
  ELSE /\ tx_empty_n' = IF tx_busy_d = 0 /\ tx_busy = 1 THEN 0 ELSE tx_empty_n
       /\ UNCHANGED r_tx_data

Sending == IF "TX_EN" \in cr THEN tx_sr ELSE Nothing

Transmitter(ends) ==
  /\ tx_busy_d' = tx_busy
  /\ IF tx_busy = 0 THEN
       /\ tx_busy' = tx_empty_n
       /\ tx_sr' = IF tx_empty_n = 1 THEN r_tx_data ELSE Nothing
       /\ ~ends /\ UNCHANGED out
     ELSE IF ends THEN
       /\ tx_busy_d = 1 /\ tx_busy' = 0 /\ tx_sr' = Nothing
       /\ out' = IF Sending = Nothing THEN out ELSE Append(out, Sending)
     ELSE tx_sr' = Sending /\ UNCHANGED <<tx_busy, out>>

(***************************************************************************)
(* A clock: the address on the bus, a strobe, a write and its word.        *)
(***************************************************************************)
UartStep(adr, stb, we, dat, ends) ==
  /\ Control(adr, we, dat)
  /\ Receiver
  /\ RxFlags(adr, stb)
  /\ TxRegister(adr, we, dat)
  /\ Transmitter(ends)
  /\ r_wb_addr' = adr /\ r_wb_ack' = IF stb THEN 1 ELSE 0

o_uart_rx_int == "RX_INT_EN" \in cr /\ rx_empty_d = 1
o_uart_tx_int == "TX_INT_EN" \in cr /\ tx_busy = 0

\* What a read samples, one clock after its strobe.
ReadData(adr) ==
  [CONTROL  |-> IF adr = "CONTROL" THEN cr ELSE {},
   RX_EMPTY |-> IF adr = "RX_DATA" THEN rx_empty ELSE 0,
   RX_BYTE  |-> IF adr = "RX_DATA" THEN rx_data ELSE 0,
   TX_BUSY  |-> IF adr = "TX_DATA" THEN tx_busy ELSE 0]

UartInit ==
  /\ cr = Reset
  /\ rx_stage = "idle" /\ rx_bits = 0 /\ rx_data = 0
  /\ rx_empty_d = 0 /\ rx_empty = 0 /\ r_rx_overflow = 0
  /\ r_tx_data = Nothing /\ tx_empty_n = 0
  /\ tx_busy = 1 /\ tx_busy_d = 1 /\ tx_sr = Nothing
  /\ r_wb_addr = "none" /\ r_wb_ack = 0
  /\ in = 0 /\ out = <<>>

UartTypeOK ==
  /\ cr \subseteq CrBit
  /\ rx_stage \in {"idle", "bits", "pre_wr", "wr"}
  /\ {rx_empty_d, rx_empty, r_rx_overflow, tx_empty_n, tx_busy, tx_busy_d, r_wb_ack} \subseteq Bit
  /\ in \in Nat /\ {rx_bits, rx_data} \subseteq 0 .. in
  /\ r_wb_addr \in {"none", "SETUP", "CONTROL", "RX_DATA", "TX_DATA"}
  /\ {r_tx_data, tx_sr} \subseteq Nat \X Nat
  /\ out \in Seq(Nat \X Nat)
==============================================================================
