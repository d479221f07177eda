----------------------------- MODULE Telemetre -----------------------------
(***************************************************************************)
(* The ultrasonic telemeter: the state machine E0..E5 of TELEMETRE_US.vhd, *)
(* clocked at 50 MHz, facing the HC-SR04 sensor it triggers.               *)
(*                                                                         *)
(* Every rising edge of clk is one action (E0, ..., E5), every register    *)
(* keeps the name of its VHDL signal.  The echo line is asynchronous: the  *)
(* sensor moves it between edges, any number of times.  The reset is       *)
(* asynchronous too and is held for as long as KEY(0) is down; the clock   *)
(* goes on ticking meanwhile (EdgeInReset).                                *)
(***************************************************************************)
EXTENDS Integers

CONSTANTS
  TriggerTicks,   \* trigger_duration_ticks
  CooldownTicks,  \* module_cooldown_ticks
  Mult, Div,      \* dist_cm = counter2 * Mult / Div
  IntMod,         \* 2^32: an INTEGER product keeps its low 32 bits
  DistMod,        \* 2^dist_cm'length
  MinReaction,    \* sensor: edges from the trigger's rise to the echo
  MinEcho,        \* sensor: fewest clock edges an echo lasts
  MaxEcho,        \* sensor: most clock edges an echo lasts (its own timeout)
  PowerUp,        \* levels the registers without a reset may start at
  Faults          \* subset of {"reset", "miss"}: what may disturb a cycle

ASSUME TicksAssumption ==
  /\ TriggerTicks \in Nat
  /\ CooldownTicks \in Nat

ASSUME ConversionAssumption ==
  /\ Mult \in Nat
  /\ Div \in Nat \ {0}
  /\ DistMod \in Nat \ {0}
  /\ IntMod \in Nat \ {0}

\* The testbench's sensor answers 10 us = TriggerTicks edges after the rise;
\* one edge less is still early enough for the machine to see the whole echo.
ASSUME SensorAssumption ==
  /\ MinReaction \in Nat
  /\ MinReaction >= TriggerTicks - 1
  /\ MinEcho \in Nat
  /\ MaxEcho \in Nat
  /\ PowerUp \subseteq {0, 1}

VARIABLES
  rst_n,              \* reset line, active low
  state,              \* State
  counter1, counter2,
  echo_r, echo_rr,    \* the two synchronizer stages of echo
  trig, dist_cm,
  sensor,             \* "idle", "armed" by a trigger, or driving echo "high"
  age,                \* history: edges since trig rose, up to AgeCap
  width,              \* history: edges that sampled the last echo high
  disturbed           \* history: a reset interfered with this cycle

machine == <<state, counter1, counter2, echo_r, echo_rr, trig, dist_cm>>
history == <<age, width, disturbed>>
vars == <<rst_n, machine, sensor, history>>

Level == {0, 1}
States == {"E0", "E1", "E2", "E3", "E4", "E5"}

echo == IF sensor = "high" THEN 1 ELSE 0

\* Edges between two rises of trig when nothing disturbs the machine: the
\* pulse, an echo seen at once, the cooldown and the four edges around them.
Spacing == CooldownTicks + TriggerTicks + 6
AgeCap == Spacing + 1
Older(n) == IF n < AgeCap THEN n + 1 ELSE AgeCap

-----------------------------------------------------------------------------
(* dist_cm <= to_unsigned(counter2 * 343 / 1000000, 10): a 32-bit signed   *)
(* product, a division that truncates towards zero, the low 10 bits.       *)

Signed(n) ==
  LET low == n % IntMod IN IF 2 * low >= IntMod THEN low - IntMod ELSE low

Quotient(n) == IF n >= 0 THEN n \div Div ELSE -((-n) \div Div)

\* Mutant: the division comes first.
DistanceDividesFirst(count) == (Quotient(Signed(count)) * Mult) % DistMod

Distance(count) == Quotient(Signed(count * Mult)) % DistMod

\* The echoes the conversion can represent: no overflow, no truncation.
InRange(count) == 2 * (count * Mult) < IntMod /\ count * Mult < Div * DistMod

-----------------------------------------------------------------------------
Init ==
  /\ rst_n = 0
  /\ state = "E0" /\ counter1 = 0 /\ counter2 = 0
  /\ echo_r \in PowerUp /\ echo_rr \in PowerUp
  /\ trig \in PowerUp /\ dist_cm = 0
  /\ sensor = "idle"
  /\ age = 0 /\ width = 0 /\ disturbed = TRUE

\* Time passes for the sensor too: its echo does not outlast MaxEcho edges.
Elapse ==
  /\ sensor = "high" => width < MaxEcho
  /\ width' = width + echo

\* What every rising edge does outside the CASE.
Edge ==
  /\ rst_n = 1
  /\ echo_r' = echo
  /\ echo_rr' = echo_r
  /\ Elapse
  /\ UNCHANGED rst_n

\* An edge that leaves trig and the sensor alone.
Quiet == age' = Older(age) /\ UNCHANGED <<sensor, disturbed>>

E0 ==
  /\ state = "E0"
  /\ Edge /\ Quiet
  /\ counter2' = 0
  /\ state' = "E1"
  /\ UNCHANGED <<counter1, trig, dist_cm>>

\* trig rises on the first edge of E1, unless a reset left it high: only a
\* rise arms the sensor, and only when it is not busy with an earlier one.
E1 ==
  /\ state = "E1"
  /\ Edge
  /\ trig' = 1
  /\ counter1' = counter1 + 1
  /\ state' = IF counter1 > TriggerTicks THEN "E2" ELSE "E1"
  /\ IF trig = 0
       THEN /\ age' = 0
            /\ sensor' = IF sensor = "idle" THEN "armed" ELSE sensor
            /\ disturbed' = (sensor # "idle")
       ELSE Quiet
  /\ UNCHANGED <<counter2, dist_cm>>

\* Mutant: trig <= '0' is missing.
E2_TrigStays ==
  /\ state = "E2"
  /\ Edge /\ Quiet
  /\ IF echo_rr = 1
       THEN counter2' = 0 /\ state' = "E3"
       ELSE UNCHANGED <<counter2, state>>
  /\ UNCHANGED <<trig, counter1, dist_cm>>

E2 ==
  /\ state = "E2"
  /\ Edge /\ Quiet
  /\ trig' = 0
  /\ IF echo_rr = 1
       THEN counter2' = 0 /\ state' = "E3"
       ELSE UNCHANGED <<counter2, state>>
  /\ UNCHANGED <<counter1, dist_cm>>

\* Mutant: the edge that finds the echo low is not counted.
E3_MissesLast ==
  /\ state = "E3"
  /\ Edge /\ Quiet
  /\ counter2' = counter2 + echo_rr
  /\ state' = IF echo_rr = 0 THEN "E4" ELSE "E3"
  /\ UNCHANGED <<counter1, trig, dist_cm>>

\* Mutant: dist_cm follows the count while it runs.
E3_Live ==
  /\ state = "E3"
  /\ Edge /\ Quiet
  /\ counter2' = counter2 + 1
  /\ dist_cm' = Distance(counter2)
  /\ state' = IF echo_rr = 0 THEN "E4" ELSE "E3"
  /\ UNCHANGED <<counter1, trig>>

E3 ==
  /\ state = "E3"
  /\ Edge /\ Quiet
  /\ counter2' = counter2 + 1
  /\ state' = IF echo_rr = 0 THEN "E4" ELSE "E3"
  /\ UNCHANGED <<counter1, trig, dist_cm>>

E4 ==
  /\ state = "E4"
  /\ Edge /\ Quiet
  /\ dist_cm' = Distance(counter2)
  /\ state' = "E5"
  /\ UNCHANGED <<counter1, counter2, trig>>

\* Mutant: counter1 is not cleared for the next trigger.
E5_KeepsCounter1 ==
  /\ state = "E5"
  /\ Edge /\ Quiet
  /\ counter2' = counter2 + 1
  /\ state' = IF counter2 > CooldownTicks THEN "E0" ELSE "E5"
  /\ UNCHANGED <<counter1, trig, dist_cm>>

\* Mutant: the cooldown is one edge short.
E5_Early ==
  /\ state = "E5"
  /\ Edge /\ Quiet
  /\ counter1' = 0
  /\ counter2' = counter2 + 1
  /\ state' = IF counter2 >= CooldownTicks THEN "E0" ELSE "E5"
  /\ UNCHANGED <<trig, dist_cm>>

E5 ==
  /\ state = "E5"
  /\ Edge /\ Quiet
  /\ counter1' = 0
  /\ counter2' = counter2 + 1
  /\ state' = IF counter2 > CooldownTicks THEN "E0" ELSE "E5"
  /\ UNCHANGED <<trig, dist_cm>>

\* Mutant: counter1 is missing from the reset branch.
Reset_KeepsCounter1 ==
  /\ "reset" \in Faults
  /\ rst_n = 1
  /\ rst_n' = 0
  /\ state' = "E0" /\ counter2' = 0
  /\ disturbed' = TRUE
  /\ UNCHANGED <<counter1, echo_r, echo_rr, trig, dist_cm, sensor, age, width>>

\* rst_n falls: the machine restarts at once.  trig, dist_cm and the
\* synchronizer are not in the reset branch and keep their values.
Reset ==
  /\ "reset" \in Faults
  /\ rst_n = 1
  /\ rst_n' = 0
  /\ state' = "E0" /\ counter1' = 0 /\ counter2' = 0
  /\ disturbed' = TRUE
  /\ UNCHANGED <<echo_r, echo_rr, trig, dist_cm, sensor, age, width>>

Release ==
  /\ rst_n = 0
  /\ rst_n' = 1
  /\ UNCHANGED <<machine, sensor, history>>

EdgeInReset ==
  /\ rst_n = 0
  /\ Elapse
  /\ age' = Older(age)
  /\ UNCHANGED <<rst_n, machine, sensor, disturbed>>

-----------------------------------------------------------------------------
(* The sensor of the testbench: wait until trig = '1', react, hold echo    *)
(* high for the time of flight, let it fall.                               *)

\* An answer to a trigger that a reset disowned may come at any time.
EchoRise ==
  /\ sensor = "armed"
  /\ age >= MinReaction \/ disturbed
  /\ sensor' = "high"
  /\ width' = 0
  /\ UNCHANGED <<rst_n, machine, age, disturbed>>

EchoFall ==
  /\ sensor = "high"
  /\ width >= MinEcho
  /\ sensor' = "idle"
  /\ UNCHANGED <<rst_n, machine, history>>

\* The sensor is unplugged or did not notice the trigger: no echo comes.
Miss ==
  /\ "miss" \in Faults
  /\ sensor = "armed"
  /\ sensor' = "idle"
  /\ UNCHANGED <<rst_n, machine, history>>

Clock == E0 \/ E1 \/ E2 \/ E3 \/ E4 \/ E5 \/ EdgeInReset

Next == Clock \/ Reset \/ Release \/ EchoRise \/ EchoFall \/ Miss

Spec == Init /\ [][Next]_vars

\* The clock runs, the reset key is let go, and an armed sensor answers with
\* an echo that ends.
FairSpec ==
  /\ Spec
  /\ WF_vars(Clock)
  /\ WF_vars(Release)
  /\ WF_vars(EchoRise)
  /\ WF_vars(EchoFall)
-----------------------------------------------------------------------------
(* Properties *)

TypeOK ==
  /\ rst_n \in Level
  /\ state \in States
  /\ counter1 \in Nat /\ counter2 \in Nat
  /\ echo_r \in Level /\ echo_rr \in Level
  /\ trig \in Level
  /\ dist_cm \in 0 .. DistMod - 1
  /\ sensor \in {"idle", "armed", "high"}
  /\ age \in 0 .. AgeCap
  /\ width \in Nat
  /\ disturbed \in BOOLEAN

\* The trigger pulse is never shorter than the HC-SR04 needs, even when resets
\* cut the machine short: when trig falls it has been high for more than
\* TriggerTicks edges (E1 and E2; trig is not in the reset branch).
TriggerWide == [][trig = 1 /\ trig' = 0 => age > TriggerTicks]_vars

\* Unless a reset interferes, the sensor is never triggered again before the
\* pulse, the echo and the cooldown are over: two rises of trig are at least
\* Spacing + 1 edges apart, although the cooldown of E5 goes on counting from
\* the length of the echo (counter2 is not cleared between E3 and E5).
TriggerSpaced ==
  [][trig = 0 /\ trig' = 1 /\ ~disturbed => age >= Spacing]_vars

\* While the sensor has not answered the trigger, E2 sees no echo: what the
\* synchronizer kept from before the trigger, or from before a reset that
\* stopped it, is flushed by the time the machine listens.
NoStaleEcho == state = "E2" /\ sensor = "armed" => echo_r = 0 /\ echo_rr = 0

\* The count handed to the conversion in E4 is the number of edges the echo
\* was high for, neither one more nor one less, in every cycle that no reset
\* interferes with.
MeasureExact == state = "E4" /\ ~disturbed => counter2 = width

\* Resets may cut a measurement short (the machine can start listening in the
\* middle of an echo) but they never lengthen one.
NeverLong == state = "E4" => counter2 <= width

\* End to end: the distance that appears on dist_cm is the echo's length
\* converted to whole centimetres, rounded down, if the echo is in range.
ReadingFaithful ==
  [][dist_cm' # dist_cm /\ ~disturbed /\ InRange(width)
       => /\ dist_cm' * Div <= width * Mult
          /\ width * Mult < (dist_cm' + 1) * Div]_vars

\* What the reader of dist_cm relies on, faults included: a reading changes only
\* at the end of the flight of a trigger, once, and triggers keep their distance.
Flying == (state = "E1" /\ counter1 > 0) \/ state \in {"E2", "E3", "E4"}

Reader == INSTANCE Ranging WITH
  Gap <- Spacing,
  Cap <- AgeCap,
  Readings <- 0 .. DistMod - 1,
  phase <- IF disturbed THEN "lost" ELSE IF Flying THEN "flight" ELSE "rest",
  since <- age,
  reading <- dist_cm

ServesReader == Reader!Spec

\* E2 and E3 have no timeout, yet the telemeter goes on measuring for ever if
\* the resets end and the sensor answers every trigger by an echo of at least
\* one edge.  One thing still stops it: a reset in the middle of an echo, whose
\* new trigger the busy sensor does not notice.
KeepsRanging ==
  <>[](rst_n = 1) /\ (sensor = "armed" ~> sensor = "high" /\ width > 0)
    => []<>(state = "E4") \/ <>[](state = "E2" /\ disturbed)

-----------------------------------------------------------------------------
(* The inductive invariant behind the safety properties *)

\* The trigger pulse: counter1 counts the edges since trig rose.
PulseInv ==
  /\ rst_n = 0 => state = "E0" /\ disturbed
  /\ state = "E0" => counter1 = 0
  /\ state \in {"E0", "E1"} /\ counter1 = 0 /\ trig = 1 => disturbed
  /\ state = "E1" => /\ counter1 <= TriggerTicks + 1
                     /\ counter1 > 0 => trig = 1 /\ age >= counter1 - 1
                     /\ counter1 > 0 /\ ~disturbed => age = counter1 - 1
  /\ state = "E2" /\ (trig = 1 \/ ~disturbed) => age > TriggerTicks
  /\ state \in {"E3", "E4", "E5"} => trig = 0

\* The cooldown: counter2 lags behind age by the edges of the states that do
\* not count, whatever the echo was.
CooldownInv ==
  ~disturbed /\ age < AgeCap =>
    /\ state = "E3" => age >= TriggerTicks + 2 + counter2
    /\ state = "E4" => age >= TriggerTicks + 2 + counter2
    /\ state = "E5" => age >= TriggerTicks + 3 + counter2
    /\ state = "E0" => age >= TriggerTicks + CooldownTicks + 5
    /\ state = "E1" /\ trig = 0 => age >= Spacing

\* The synchronizer holds samples of the current echo only, once the machine
\* has been in E1 for two edges.
Armed == sensor = "armed"
Listening == (state = "E1" /\ counter1 > 1) \/ state = "E2"
PipelineInv ==
  /\ state = "E1" /\ counter1 > 0 => (Armed => echo_r = 0) /\ echo_r <= width
  /\ Listening =>
       /\ Armed => echo_r = 0 /\ echo_rr = 0
       /\ ~Armed => echo_r + echo_rr <= width
  /\ state \in {"E3", "E4", "E5"} => ~Armed
\* The bound on the count: each counted edge is a sample that left the
\* synchronizer high, or the edge that saw it low.
BoundInv ==
  /\ state = "E3" => IF echo_rr = 1 THEN counter2 + 2 + echo_r <= width
                                     ELSE counter2 + 1 <= width
  /\ state = "E4" => counter2 <= width

\* The exact count of an undisturbed cycle: the machine is in E2 before the
\* first sample of the echo leaves the synchronizer.
ExactInv ==
  ~disturbed =>
    /\ state = "E1" /\ counter1 = 1 =>
         echo_r = 0 /\ (sensor = "high" => width = 0)
    /\ state = "E1" /\ counter1 > 0 =>
         /\ sensor = "high" => age >= MinReaction
         /\ echo_r = 1 => age >= MinReaction + 1
         /\ counter1 > 1 /\ echo_rr = 1 => age >= MinReaction + 2
    /\ Listening =>
         /\ sensor = "high" => echo_r = (IF width = 0 THEN 0 ELSE 1)
         /\ sensor = "high" \/ echo_r = 1 \/ echo_rr = 1
              => width = echo_r + echo_rr
    /\ state = "E3" /\ echo_rr = 1 =>
         /\ counter2 + 2 + echo_r = width
         /\ sensor = "high" => echo_r = 1
    /\ state = "E3" /\ echo_rr = 0 =>
         sensor = "idle" /\ echo_r = 0 /\ counter2 + 1 = width
    /\ state = "E4" => counter2 = width
    /\ ~Flying \/ state = "E4" => sensor = "idle"

IInv ==
  TypeOK /\ PulseInv /\ CooldownInv /\ PipelineInv /\ BoundInv /\ ExactInv
=============================================================================
