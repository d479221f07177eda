-------------------------------- MODULE Pwm --------------------------------
(***************************************************************************)
(* What a hobby servo needs of its command line: pulses of MinHigh to      *)
(* MaxHigh clock edges, one every Period edges exactly, until a reset cuts *)
(* the line and starts it over.                                            *)
(***************************************************************************)
EXTENDS Integers

CONSTANTS MinHigh, MaxHigh, Period

VARIABLES
  line,   \* level of the command line
  age     \* edges since the line last rose, or Off since the last reset

pwmVars == <<line, age>>

Off == -1

Init == line = 0 /\ age = Off

\* The line rises when a period is over, or for the first time.
Rise ==
  /\ line = 0
  /\ age \in {Off, Period - 1}
  /\ line' = 1 /\ age' = 0

Fall ==
  /\ line = 1
  /\ age + 1 \in MinHigh .. MaxHigh
  /\ line' = 0 /\ age' = age + 1

Hold ==
  /\ age # Off
  /\ age + 1 < (IF line = 1 THEN MaxHigh ELSE Period)
  /\ age' = age + 1
  /\ UNCHANGED line

Cut == line' = 0 /\ age' = Off

Next == Rise \/ Fall \/ Hold \/ Cut

Spec == Init /\ [][Next]_pwmVars
=============================================================================
