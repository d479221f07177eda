----------------------------- MODULE MCJtagUart -----------------------------
(***************************************************************************)
(* JtagUart scaled down for TLC: buffers that hold two characters and      *)
(* FIFOs of two, so that both fill up, wrap around and run dry.  For       *)
(* safety a behaviour has all the characters ahead of it; for liveness it  *)
(* moves those of one direction and has the other's behind it.             *)
(***************************************************************************)
EXTENDS JtagUart

BothWays == {<<0, 0>>}
OneWay == {<<0, MaxRx>>, <<MaxTx, 0>>}
=============================================================================
