------------------------------ MODULE MCRadar ------------------------------
(***************************************************************************)
(* The radar, and the two loops that main() can be built with instead of   *)
(* it, in ticks of 10 ms with the real durations: a delay of 1, a pause of *)
(* 30, a telemeter that cools down for 10 and whose sensor answers within  *)
(* 4.  The sweep is cut to 40 degrees, twice the lag and more; the         *)
(* readings have one to four digits.                                       *)
(***************************************************************************)
EXTENDS Radar
=============================================================================
