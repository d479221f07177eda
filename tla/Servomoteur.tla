---------------------------- MODULE Servomoteur ----------------------------
(***************************************************************************)
(* The servo controller: the state machine E0..E2 of servomoteur.vhd and   *)
(* the position register of servomoteur_Avalon.vhd in front of it, which   *)
(* the processor writes on any clock edge, in the middle of a pulse too.   *)
(***************************************************************************)
EXTENDS Integers

CONSTANTS
  PulseWidthMin_ticks, PulseWidthMax_ticks, Period_ticks,
  PosMod,         \* 2^position'length
  Writes,         \* values the processor writes
  ServoResets     \* TRUE if rst_n may fall

\* 0.5 ms, 2.5 ms and 20 ms; the pulse always fits in the period.
ASSUME TicksAssumption ==
  /\ PulseWidthMin_ticks \in Nat
  /\ PulseWidthMax_ticks \in Nat
  /\ Period_ticks \in Nat
  /\ PulseWidthMin_ticks <= PulseWidthMax_ticks
  /\ PulseWidthMax_ticks < Period_ticks

ASSUME BusAssumption ==
  /\ PosMod \in Nat \ {0}
  /\ Writes \subseteq Nat
  /\ ServoResets \in BOOLEAN

VARIABLES
  rst_n,
  state,          \* State
  counter, Active_ticks, commande,
  i_position,     \* of the Avalon wrapper
  age,            \* history: edges since commande rose, Off since a reset
  lo, hi          \* history: least and greatest width asked of this pulse

machine == <<state, counter, Active_ticks, commande>>
servoVars == <<rst_n, machine, i_position, age, lo, hi>>

Level == {0, 1}
Off == -1
Span == PulseWidthMax_ticks - PulseWidthMin_ticks

\* The width in ticks that stands for a position.
Target(p) == PulseWidthMin_ticks + (p * Span) \div PosMod

ServoInit ==
  /\ rst_n = 0
  /\ state = "E0" /\ counter = 0 /\ Active_ticks = 0 /\ commande = 0
  /\ i_position = 0
  /\ age = Off /\ lo = PulseWidthMax_ticks /\ hi = PulseWidthMin_ticks

\* What every edge may do beside the CASE: the wrapper latches a write, whose
\* low bits are the position.
Edge ==
  /\ rst_n = 1
  /\ UNCHANGED rst_n
  /\ i_position' \in {i_position} \union {wd % PosMod : wd \in Writes}

Older == age' = (IF age = Off THEN Off ELSE age + 1)

\* Mutant: counter goes on from the last period.
E0_KeepsCounter ==
  /\ state = "E0"
  /\ Edge /\ Older
  /\ state' = "E1"
  /\ UNCHANGED <<counter, Active_ticks, commande, lo, hi>>

E0 ==
  /\ state = "E0"
  /\ Edge /\ Older
  /\ counter' = 0
  /\ state' = "E1"
  /\ UNCHANGED <<Active_ticks, commande, lo, hi>>

\* Mutant: the pulse ends when counter reaches Active_ticks.
E1_Reaches ==
  /\ state = "E1"
  /\ Edge
  /\ commande' = 1
  /\ counter' = counter + 1
  /\ Active_ticks' = Target(i_position)
  /\ age' = IF commande = 0 THEN 0 ELSE age + 1
  /\ state' = IF counter >= Active_ticks THEN "E2" ELSE "E1"
  /\ lo' = IF counter = 0 \/ Target(i_position) < lo THEN Target(i_position) ELSE lo
  /\ hi' = IF counter = 0 \/ Target(i_position) > hi THEN Target(i_position) ELSE hi

\* Mutant: Active_ticks is computed once, for the first pulse.
E1_LatchesOnce ==
  /\ state = "E1"
  /\ Edge
  /\ commande' = 1
  /\ counter' = counter + 1
  /\ Active_ticks' = IF Active_ticks = 0 THEN Target(i_position) ELSE Active_ticks
  /\ age' = IF commande = 0 THEN 0 ELSE age + 1
  /\ state' = IF counter > Active_ticks THEN "E2" ELSE "E1"
  /\ UNCHANGED <<lo, hi>>

\* counter is compared with the Active_ticks of the edge before: at counter = 0
\* with what the last pulse, or the power-up, left there.
E1 ==
  /\ state = "E1"
  /\ Edge
  /\ commande' = 1
  /\ counter' = counter + 1
  /\ Active_ticks' = Target(i_position)
  /\ age' = IF commande = 0 THEN 0 ELSE age + 1
  /\ IF counter > Active_ticks
       THEN state' = "E2" /\ UNCHANGED <<lo, hi>>
       ELSE /\ UNCHANGED state
            /\ lo' = IF counter = 0 \/ Target(i_position) < lo
                       THEN Target(i_position) ELSE lo
            /\ hi' = IF counter = 0 \/ Target(i_position) > hi
                       THEN Target(i_position) ELSE hi

\* Mutant: the period is one edge short.
E2_Early ==
  /\ state = "E2"
  /\ Edge /\ Older
  /\ commande' = 0
  /\ counter' = counter + 1
  /\ state' = IF counter >= Period_ticks THEN "E0" ELSE "E2"
  /\ UNCHANGED <<Active_ticks, lo, hi>>

E2 ==
  /\ state = "E2"
  /\ Edge /\ Older
  /\ commande' = 0
  /\ counter' = counter + 1
  /\ state' = IF counter > Period_ticks THEN "E0" ELSE "E2"
  /\ UNCHANGED <<Active_ticks, lo, hi>>

\* rst_n falls, at once and whatever the clock does: Active_ticks is not in the
\* reset branch.
ServoReset ==
  /\ ServoResets
  /\ rst_n = 1
  /\ rst_n' = 0
  /\ commande' = 0 /\ counter' = 0 /\ state' = "E0"
  /\ i_position' = 0
  /\ age' = Off
  /\ UNCHANGED <<Active_ticks, lo, hi>>

Release ==
  /\ rst_n = 0
  /\ rst_n' = 1
  /\ UNCHANGED <<machine, i_position, age, lo, hi>>

Clock == E0 \/ E1 \/ E2

ServoNext == Clock \/ ServoReset \/ Release

ServoSpec == ServoInit /\ [][ServoNext]_servoVars

\* The clock runs, and the reset key is let go.
ServoFairSpec == ServoSpec /\ WF_servoVars(Clock) /\ WF_servoVars(Release)

-----------------------------------------------------------------------------
(* Properties *)

ServoTypeOK ==
  /\ rst_n \in Level
  /\ state \in {"E0", "E1", "E2"}
  /\ counter \in 0 .. Period_ticks + 2
  /\ Active_ticks \in Nat
  /\ commande \in Level
  /\ i_position \in 0 .. PosMod - 1
  /\ age \in {Off} \union 0 .. Period_ticks + 2
  /\ lo \in Nat /\ hi \in Nat

\* A pulse that no reset cuts is two edges longer than a width asked for while
\* it lasted: it is never shorter than the least nor longer than the greatest
\* of them, however the position register changes during the pulse, and it is
\* exact when the register keeps still.  Widths of earlier pulses do not count,
\* although Active_ticks still holds one when the pulse starts.
PulseFollows ==
  [][commande = 1 /\ commande' = 0 /\ rst_n' = 1
       => age + 1 \in lo + 2 .. hi + 2]_servoVars

\* Every pulse lies within the servo's range and starts exactly one period,
\* Period_ticks + 3 edges, after the one before, unless a reset cuts it.
Servo == INSTANCE Pwm WITH
  MinHigh <- PulseWidthMin_ticks + 2,
  MaxHigh <- PulseWidthMax_ticks + 2,
  Period <- Period_ticks + 3,
  line <- commande

DrivesServo == Servo!Spec

\* When the position comes to rest the servo receives, for ever after, pulses
\* of exactly the width that stands for it.
SettlesOnPosition ==
  \A p \in {wd % PosMod : wd \in Writes} :
    <>[](rst_n = 1 /\ i_position = p)
      => []<>(state = "E2" /\ commande = 1 /\ counter = Target(p) + 2)
-----------------------------------------------------------------------------
(* The inductive invariant: age is counter seen from the rise of commande,  *)
(* and counter never gets far from the widths asked for.                    *)

Asked == PulseWidthMin_ticks <= lo /\ lo <= hi /\ hi <= PulseWidthMax_ticks

PulseInv ==
  /\ rst_n = 0 => state = "E0" /\ counter = 0
  /\ state = "E0" => /\ commande = 0
                     /\ \/ counter = 0 /\ age = Off
                        \/ counter = Period_ticks + 2 /\ age = counter - 1
  /\ state = "E1" /\ counter = 0 =>
       commande = 0 /\ age \in {Off, Period_ticks + 2}
  /\ state = "E1" /\ counter > 0 =>
       /\ commande = 1 /\ age = counter - 1 /\ Asked
       /\ lo <= Active_ticks /\ Active_ticks <= hi
       /\ counter <= hi + 1
  /\ state = "E2" =>
       /\ age = counter - 1
       /\ counter > 1 /\ counter < Period_ticks + 2
       /\ commande = 1 => Asked /\ counter \in lo + 2 .. hi + 2

ServoInv == ServoTypeOK /\ PulseInv
=============================================================================
