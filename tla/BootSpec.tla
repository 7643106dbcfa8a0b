------------------------------ MODULE BootSpec -------------------------------
(***************************************************************************)
(* What booting promises, without the machinery: memory is only ever given *)
(* words of the boot image, each at its own address, the core is released  *)
(* only when all of them are in place, and from then on memory is left     *)
(* alone.  A reset takes the core back into reset and leaves memory as it  *)
(* is.                                                                     *)
(***************************************************************************)
CONSTANTS Addr, Image, PowerUp     \* Image, PowerUp \in [Addr -> words]

VARIABLES mem, released

vars == <<mem, released>>

Init == mem = PowerUp /\ released = 0

LoadWord(a) ==
  /\ released = 0
  /\ mem' = [mem EXCEPT ![a] = Image[a]]
  /\ UNCHANGED released

Release ==
  /\ mem = Image
  /\ released' = 1
  /\ UNCHANGED mem

Restart ==
  /\ released' = 0
  /\ UNCHANGED mem

Next == (\E a \in Addr : LoadWord(a)) \/ Release \/ Restart

Spec == Init /\ [][Next]_vars
==============================================================================
