------------------------ MODULE MCNestedInterrupts ------------------------
(***************************************************************************)
(* Small instances of NestedInterrupts.                                    *)
(***************************************************************************)
EXTENDS NestedInterrupts
==============================================================================
