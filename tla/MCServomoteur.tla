--------------------------- MODULE MCServomoteur ---------------------------
(***************************************************************************)
(* Servomoteur scaled down for TLC: pulses of 1 to 5 ticks in a period of  *)
(* 8, two-bit positions, and writes whose upper bits are dropped.          *)
(***************************************************************************)
EXTENDS Servomoteur
=============================================================================
