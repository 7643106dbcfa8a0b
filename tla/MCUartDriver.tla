---------------------------- MODULE MCUartDriver ----------------------------
(***************************************************************************)
(* UartDriver for TLC: the calls of each run.  Sizes 1 and 2 tell a first, *)
(* a last and a next byte apart; size 0 is refused or does nothing.        *)
(***************************************************************************)
EXTENDS UartDriver

Of(fns, sizes) == [fn : fns, size : sizes]

NoCall == {}
Transfers == Of({"Transmit", "Transmit_IT", "Receive_IT"}, {2}) \cup Of({"Transmit_IT", "Receive"}, {1})
Sends == Of({"Transmit"}, {0, 1})
ReceivesIT == Of({"Receive_IT"}, {1})
PollsAndControls == Of({"Receive"}, {0, 2}) \cup
  Of({"Transmit", "TX_Enable", "TX_Disable", "TX_Reset", "RX_Enable", "RX_Disable", "RX_Reset"}, {1})
==============================================================================
