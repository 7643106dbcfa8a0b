-------------------------- MODULE MCFullPeripheral --------------------------
(***************************************************************************)
(* FullPeripheral for TLC: an EEPROM of 16 bytes and pages of four, bytes  *)
(* below 8.                                                                *)
(***************************************************************************)
EXTENDS FullPeripheral

MCByte == 0 .. 7
MCEeprom == [a \in 0 .. 15 |-> 0]
==============================================================================
