---------------------------- MODULE MCInterrupts ----------------------------
(***************************************************************************)
(* Interrupts with the three interrupts of the board and one of lower      *)
(* priority: the JTAG UART, the switches, the timer, and a device of a     *)
(* program.  The handlers of 1 and 3 let others interrupt them.            *)
(***************************************************************************)
EXTENDS Interrupts
=============================================================================
