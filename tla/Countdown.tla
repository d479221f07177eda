----------------------------- MODULE Countdown -----------------------------
(***************************************************************************)
(* What the system clock promises to those who start alarms: an alarm      *)
(* goes off at the tick it was started for, neither before nor after, and  *)
(* is then started again or forgotten, as its callback says.               *)
(***************************************************************************)
EXTENDS Integers

CONSTANTS
  Alarm,
  Delays,     \* arguments of a start
  Periods     \* what callbacks return, 0 to be forgotten

VARIABLE left   \* ticks until an alarm goes off, or Off

Off == -1

Init == left = [a \in Alarm |-> Off]

Start(a, n) ==
  /\ left[a] = Off
  /\ left' = [left EXCEPT ![a] = n + 1]

Stop(a) == left' = [left EXCEPT ![a] = Off]

\* Time goes on only when everyone who is due has been called.
Tick ==
  /\ \A a \in Alarm : left[a] # 0
  /\ left' = [a \in Alarm |-> IF left[a] = Off THEN Off ELSE left[a] - 1]

GoOff(a, r) ==
  /\ left[a] = 0
  /\ left' = [left EXCEPT ![a] = IF r = 0 THEN Off ELSE r]

Next ==
  \/ Tick
  \/ \E a \in Alarm : \/ \E n \in Delays : Start(a, n)
                      \/ Stop(a)
                      \/ \E r \in Periods : GoOff(a, r)

Spec == Init /\ [][Next]_left
=============================================================================
