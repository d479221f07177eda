------------------------------ MODULE Ranging ------------------------------
(***************************************************************************)
(* What the telemeter promises to whoever reads its register, one clock    *)
(* edge at a time: it sends a trigger, a flight later the reading changes, *)
(* once, and no trigger follows before Gap edges have passed.  A reset may *)
(* lose track of the sensor; until a trigger finds it idle again readings  *)
(* mean nothing.                                                           *)
(***************************************************************************)
EXTENDS Integers

CONSTANTS
  Gap,       \* least number of edges between two triggers
  Cap,       \* where the count of edges stops
  Readings   \* values of the register

VARIABLES
  phase,     \* "flight" from a trigger to its reading, "rest", or "lost"
  since,     \* edges since the last trigger, up to Cap
  reading

rangingVars == <<phase, since, reading>>

Later == since' = (IF since < Cap THEN since + 1 ELSE Cap)

Init == phase = "lost" /\ since = 0 /\ reading = 0

Trigger ==
  /\ \/ phase = "rest" /\ since >= Gap /\ phase' = "flight"
     \/ phase = "lost" /\ phase' \in {"flight", "lost"}
  /\ since' = 0
  /\ UNCHANGED reading

Result ==
  /\ phase = "flight"
  /\ phase' = "rest"
  /\ reading' \in Readings
  /\ Later

Wait ==
  /\ Later
  /\ UNCHANGED <<phase, reading>>

\* A measurement nobody can vouch for.
Garble ==
  /\ phase = "lost"
  /\ reading' \in Readings
  /\ Later
  /\ UNCHANGED phase

Abort ==
  /\ phase' = "lost"
  /\ UNCHANGED <<since, reading>>

Next == Trigger \/ Result \/ Wait \/ Garble \/ Abort

Spec == Init /\ [][Next]_rangingVars
=============================================================================
