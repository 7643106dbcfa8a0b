----------------------------- MODULE MCI2cDriver -----------------------------
(***************************************************************************)
(* I2cDriver for TLC.  Byte has the addresses of the devices (2, and 3 to  *)
(* read; 4 and 5 of the second one), the data bytes 1 and 2, and the first *)
(* bytes past them that a driver out of step would send or receive.        *)
(***************************************************************************)
EXTENDS I2cDriver

MCByte == 0 .. 5
==============================================================================
