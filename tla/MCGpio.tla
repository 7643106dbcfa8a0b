------------------------------- MODULE MCGpio -------------------------------
(***************************************************************************)
(* Small instances of Gpio.                                                *)
(***************************************************************************)
EXTENDS Gpio
==============================================================================
