---------------------------- MODULE MCTelemetre ----------------------------
(***************************************************************************)
(* Telemetre scaled down for TLC.  The constants keep the order of the     *)
(* real ones: a trigger of a few edges, a cooldown longer than it, echoes  *)
(* that are shorter than the cooldown, longer than it, truncated by        *)
(* dist_cm and long enough to overflow the product.                        *)
(***************************************************************************)
EXTENDS Telemetre
=============================================================================
