----------------------------- MODULE MCSharedBus -----------------------------
(***************************************************************************)
(* Every slave is read and written by whole words, as the declarations of  *)
(* the devices' registers make the compiler do, and the GPIO by a part of  *)
(* a word too; only memory is accessed misaligned.                         *)
(***************************************************************************)
EXTENDS SharedBus

MCFull == {a \in Kind : a.full}
MCAccess == MCFull \cup {[to |-> "gpio", we |-> TRUE, full |-> FALSE]}
MCMisaligned == {a \in MCFull : a.to \in {"imem", "dmem"}}
==============================================================================
