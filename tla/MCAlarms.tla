------------------------------ MODULE MCAlarms ------------------------------
(***************************************************************************)
(* Alarms with a tick counter of two bits, which wraps every fourth tick,  *)
(* and as many alarms as it takes to stop one on each side of the walk.    *)
(***************************************************************************)
EXTENDS Alarms
=============================================================================
