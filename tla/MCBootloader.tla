---------------------------- MODULE MCBootloader -----------------------------
(***************************************************************************)
(* Four words: two of instruction memory, two of data memory, in pages of  *)
(* two words, so that loading crosses from one memory to the other and the *)
(* write-back from one page to the next.  Byte values are base 16, so the  *)
(* write-back address needs both address bytes.  Every byte of the image   *)
(* is different, and no word of it is what the SRAM powers up with.        *)
(***************************************************************************)
EXTENDS Bootloader

MCByte == 0 .. Radix - 1
MCEepromInit == [a \in 0 .. EepromBytes - 1 |-> IF a < 16 THEN a ELSE 15]
MCSramInit == [a \in SramAddr |-> [k \in Lane |-> 15]]
==============================================================================
