------------------------------ MODULE MCFdTable ------------------------------
(***************************************************************************)
(* The calls on file descriptors with two descriptors beside the standard  *)
(* streams: a device that only takes writes, the UART, which reads and     *)
(* writes, and a file system.                                              *)
(***************************************************************************)
EXTENDS FileCalls

CONSTANTS null, uart, zip

MCProvides(d) ==
  IF d = null THEN {"write"}
  ELSE IF d = uart THEN {"read", "write"}
  ELSE {"read", "lseek", "fstat"}
=============================================================================
