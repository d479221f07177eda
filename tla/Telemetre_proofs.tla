-------------------------- MODULE Telemetre_proofs --------------------------
(***************************************************************************)
(* Proofs about the telemeter, for every trigger and cooldown duration,    *)
(* every conversion and every sensor SensorAssumption allows, with resets  *)
(* and missed triggers at any time.                                        *)
(***************************************************************************)
EXTENDS Telemetre, TLAPS

USE TicksAssumption, ConversionAssumption, SensorAssumption

\* The conversion always yields a value that dist_cm can hold.
LEMMA DistanceType ==
  ASSUME NEW count \in Nat
  PROVE  Distance(count) \in 0 .. DistMod - 1
<1>1. count * Mult \in Nat
  OBVIOUS
<1>2. Signed(count * Mult) \in Int
  <2>1. (count * Mult) % IntMod \in Int
    BY <1>1
  <2>2. QED
    BY <2>1 DEF Signed
<1>3. \A n \in Int : Quotient(n) \in Int
  <2>1. \A n \in Nat : n \div Div \in Int
    OBVIOUS
  <2>2. QED
    BY <2>1 DEF Quotient
<1>4. QED
  BY <1>2, <1>3 DEF Distance

\* The line the machine samples is a level.
LEMMA EchoType == echo \in {0, 1}
  BY DEF echo

\* An age grows by one edge and stops at AgeCap.
LEMMA OlderType ==
  ASSUME NEW n \in 0 .. AgeCap
  PROVE  /\ Older(n) \in 0 .. AgeCap
         /\ n < AgeCap => Older(n) = n + 1
         /\ n = AgeCap => Older(n) = AgeCap
  BY DEF Older, AgeCap, Spacing
-----------------------------------------------------------------------------
(* The inductive invariant, one lemma for each of its conjuncts.           *)

\* The inductive invariant holds at power-up, whatever trig and the two
\* synchronizer stages start at.
LEMMA InitInv == Init => IInv
  BY DEF Init, IInv, TypeOK, PulseInv, CooldownInv, PipelineInv, BoundInv,
         ExactInv, Level, States, Listening, Armed, Flying, AgeCap, Spacing

\* Every step keeps every register within its type.
LEMMA TypeStep ==
  ASSUME TypeOK, [Next]_vars
  PROVE  TypeOK'
<1> USE DEF TypeOK, Level, States
<1>1. CASE E0
  BY <1>1, EchoType, OlderType DEF E0, Edge, Quiet, Elapse
<1>2. CASE E1
  <2>1. age' \in 0 .. AgeCap
    BY <1>2, OlderType DEF E1, Quiet, AgeCap, Spacing
  <2>2. sensor' \in {"idle", "armed", "high"} /\ disturbed' \in BOOLEAN
    BY <1>2 DEF E1, Quiet
  <2>. QED
    BY <1>2, <2>1, <2>2, EchoType DEF E1, Edge, Elapse
<1>3. CASE E2
  BY <1>3, EchoType, OlderType DEF E2, Edge, Quiet, Elapse
<1>4. CASE E3
  BY <1>4, EchoType, OlderType DEF E3, Edge, Quiet, Elapse
<1>5. CASE E4
  BY <1>5, DistanceType, EchoType, OlderType DEF E4, Edge, Quiet, Elapse
<1>6. CASE E5
  BY <1>6, EchoType, OlderType DEF E5, Edge, Quiet, Elapse
<1>7. CASE EdgeInReset
  BY <1>7, EchoType, OlderType DEF EdgeInReset, Elapse, machine
<1>8. CASE Reset
  BY <1>8, EchoType, OlderType DEF Reset
<1>9. CASE Release
  BY <1>9, EchoType, OlderType DEF Release, machine, history
<1>10. CASE EchoRise
  BY <1>10, EchoType, OlderType DEF EchoRise, machine
<1>11. CASE EchoFall
  BY <1>11, EchoType, OlderType DEF EchoFall, machine, history
<1>12. CASE Miss
  BY <1>12, EchoType, OlderType DEF Miss, machine, history
<1>13. CASE UNCHANGED vars
  BY <1>13 DEF vars, machine, history
<1>. QED
  BY <1>1, <1>2, <1>3, <1>4, <1>5, <1>6, <1>7, <1>8, <1>9, <1>10, <1>11,
     <1>12, <1>13 DEF Next, Clock

\* The trigger pulse lasts as long as counter1 says, and longer after a reset.
LEMMA PulseStep ==
  ASSUME TypeOK, PulseInv, [Next]_vars
  PROVE  PulseInv'
<1> USE DEF TypeOK, PulseInv, Level, States, AgeCap, Spacing
<1>1. CASE E0
  BY <1>1, OlderType DEF E0, Edge, Quiet, Elapse
<1>2. CASE E1
  <2>1. CASE trig = 0
    <3>1. counter1 = 0
      BY <1>2, <2>1 DEF E1
    <3>. QED
      BY <1>2, <2>1, <3>1 DEF E1, Edge
  <2>2. CASE trig = 1
    <3>1. age' \in Nat /\ age' >= age /\ (age < AgeCap => age' = age + 1)
      BY <1>2, <2>2, OlderType DEF E1, Quiet
    <3>2. /\ rst_n' = 1 /\ trig' = 1 /\ counter1' = counter1 + 1
          /\ disturbed' = disturbed
      BY <1>2, <2>2 DEF E1, Edge, Quiet
    <3>3. state' = IF counter1 > TriggerTicks THEN "E2" ELSE "E1"
      BY <1>2 DEF E1
    <3>. QED
      BY <1>2, <2>2, <3>1, <3>2, <3>3 DEF E1
  <2>. QED
    BY <2>1, <2>2
<1>3. CASE E2
  BY <1>3, OlderType DEF E2, Edge, Quiet, Elapse
<1>4. CASE E3
  BY <1>4, OlderType DEF E3, Edge, Quiet, Elapse
<1>5. CASE E4
  BY <1>5, OlderType DEF E4, Edge, Quiet, Elapse
<1>6. CASE E5
  BY <1>6, OlderType DEF E5, Edge, Quiet, Elapse
<1>7. CASE EdgeInReset
  BY <1>7, OlderType DEF EdgeInReset, Elapse, machine
<1>8. CASE Reset
  BY <1>8, OlderType DEF Reset
<1>9. CASE Release
  BY <1>9, OlderType DEF Release, machine, history
<1>10. CASE EchoRise
  BY <1>10, OlderType DEF EchoRise, machine
<1>11. CASE EchoFall
  BY <1>11, OlderType DEF EchoFall, machine, history
<1>12. CASE Miss
  BY <1>12, OlderType DEF Miss, machine, history
<1>13. CASE UNCHANGED vars
  BY <1>13 DEF vars, machine, history
<1>. QED
  BY <1>1, <1>2, <1>3, <1>4, <1>5, <1>6, <1>7, <1>8, <1>9, <1>10, <1>11,
     <1>12, <1>13 DEF Next, Clock

\* The age of the cycle is ahead of counter2 by the edges it does not count.
LEMMA CooldownStep ==
  ASSUME TypeOK, PulseInv, CooldownInv, [Next]_vars
  PROVE  CooldownInv'
<1> USE DEF TypeOK, PulseInv, CooldownInv, Level, States, AgeCap, Spacing
<1>1. CASE E0
  BY <1>1, OlderType DEF E0, Edge, Quiet, Elapse
<1>2. CASE E1
  BY <1>2, OlderType DEF E1, Edge, Quiet, Elapse
<1>3. CASE E2
  BY <1>3, OlderType DEF E2, Edge, Quiet, Elapse
<1>4. CASE E3
  BY <1>4, OlderType DEF E3, Edge, Quiet, Elapse
<1>5. CASE E4
  BY <1>5, OlderType DEF E4, Edge, Quiet, Elapse
<1>6. CASE E5
  BY <1>6, OlderType DEF E5, Edge, Quiet, Elapse
<1>7. CASE EdgeInReset
  BY <1>7, OlderType DEF EdgeInReset, Elapse, machine
<1>8. CASE Reset
  BY <1>8, OlderType DEF Reset
<1>9. CASE Release
  BY <1>9, OlderType DEF Release, machine, history
<1>10. CASE EchoRise
  BY <1>10, OlderType DEF EchoRise, machine
<1>11. CASE EchoFall
  BY <1>11, OlderType DEF EchoFall, machine, history
<1>12. CASE Miss
  BY <1>12, OlderType DEF Miss, machine, history
<1>13. CASE UNCHANGED vars
  BY <1>13 DEF vars, machine, history
<1>. QED
  BY <1>1, <1>2, <1>3, <1>4, <1>5, <1>6, <1>7, <1>8, <1>9, <1>10, <1>11,
     <1>12, <1>13 DEF Next, Clock

\* The synchronizer is flushed before the machine listens to it.
LEMMA PipelineStep ==
  ASSUME TypeOK, PulseInv, PipelineInv, [Next]_vars
  PROVE  PipelineInv'
<1> USE DEF TypeOK, PulseInv, PipelineInv, Level, States, Armed, Listening, echo
<1>1. CASE E0
  BY <1>1 DEF E0, Edge, Quiet, Elapse
<1>2. CASE E1
  BY <1>2 DEF E1, Edge, Quiet, Elapse
<1>3. CASE E2
  BY <1>3 DEF E2, Edge, Quiet, Elapse
<1>4. CASE E3
  BY <1>4 DEF E3, Edge, Quiet, Elapse
<1>5. CASE E4
  BY <1>5 DEF E4, Edge, Quiet, Elapse
<1>6. CASE E5
  BY <1>6 DEF E5, Edge, Quiet, Elapse
<1>7. CASE EdgeInReset
  BY <1>7 DEF EdgeInReset, Elapse, machine
<1>8. CASE Reset
  BY <1>8 DEF Reset
<1>9. CASE Release
  BY <1>9 DEF Release, machine, history
<1>10. CASE EchoRise
  BY <1>10 DEF EchoRise, machine
<1>11. CASE EchoFall
  BY <1>11 DEF EchoFall, machine, history
<1>12. CASE Miss
  BY <1>12 DEF Miss, machine, history
<1>13. CASE UNCHANGED vars
  BY <1>13 DEF vars, machine, history
<1>. QED
  BY <1>1, <1>2, <1>3, <1>4, <1>5, <1>6, <1>7, <1>8, <1>9, <1>10, <1>11,
     <1>12, <1>13 DEF Next, Clock

\* The count never runs ahead of the samples.
LEMMA BoundStep ==
  ASSUME TypeOK, PipelineInv, BoundInv, [Next]_vars
  PROVE  BoundInv'
<1> USE DEF TypeOK, PipelineInv, BoundInv, Level, States, Armed, Listening, echo
<1>1. CASE E0
  BY <1>1 DEF E0, Edge, Quiet, Elapse
<1>2. CASE E1
  BY <1>2 DEF E1, Edge, Quiet, Elapse
<1>3. CASE E2
  BY <1>3 DEF E2, Edge, Quiet, Elapse
<1>4. CASE E3
  BY <1>4 DEF E3, Edge, Quiet, Elapse
<1>5. CASE E4
  BY <1>5 DEF E4, Edge, Quiet, Elapse
<1>6. CASE E5
  BY <1>6 DEF E5, Edge, Quiet, Elapse
<1>7. CASE EdgeInReset
  BY <1>7 DEF EdgeInReset, Elapse, machine
<1>8. CASE Reset
  BY <1>8 DEF Reset
<1>9. CASE Release
  BY <1>9 DEF Release, machine, history
<1>10. CASE EchoRise
  BY <1>10 DEF EchoRise, machine
<1>11. CASE EchoFall
  BY <1>11 DEF EchoFall, machine, history
<1>12. CASE Miss
  BY <1>12 DEF Miss, machine, history
<1>13. CASE UNCHANGED vars
  BY <1>13 DEF vars, machine, history
<1>. QED
  BY <1>1, <1>2, <1>3, <1>4, <1>5, <1>6, <1>7, <1>8, <1>9, <1>10, <1>11,
     <1>12, <1>13 DEF Next, Clock

\* In an undisturbed cycle the count is exact.
LEMMA ExactStep ==
  ASSUME TypeOK, PulseInv, PipelineInv, ExactInv, [Next]_vars
  PROVE  ExactInv'
<1> USE DEF TypeOK, PulseInv, PipelineInv, ExactInv, Level, States, Armed,
           Listening, Flying, echo, AgeCap, Spacing
<1>1. CASE E0
  BY <1>1, OlderType DEF E0, Edge, Quiet, Elapse
<1>2. CASE E1
  <2>1. CASE trig = 0
    <3>1. counter1 = 0 /\ counter1' = 1
      BY <1>2, <2>1 DEF E1
    <3>2. disturbed' = (sensor # "idle") /\ (sensor = "idle" => sensor' = "armed")
      BY <1>2, <2>1 DEF E1
    <3>3. state' = "E1"
      BY <1>2, <3>1 DEF E1
    <3>4. echo_r' = echo
      BY <1>2 DEF E1, Edge
    <3>5. CASE sensor = "idle"
      <4>1. sensor' = "armed" /\ echo_r' = 0
        BY <3>2, <3>4, <3>5
      <4>. QED
        BY <3>1, <3>3, <4>1
    <3>6. CASE sensor # "idle"
      BY <3>2, <3>6
    <3>. QED
      BY <3>5, <3>6
  <2>2. CASE trig = 1 /\ ~disturbed
    <3>1. counter1 > 0 /\ age = counter1 - 1
      BY <1>2, <2>2 DEF E1
    <3>0. age' = age + 1
      BY <1>2, <2>2, <3>1, OlderType DEF E1, Quiet
    <3>2. CASE counter1 = 1
      BY <1>2, <2>2, <3>1, <3>0, <3>2 DEF E1, Edge, Quiet, Elapse
    <3>3. CASE counter1 > 1
      <4>1. echo_rr = 0
        BY <1>2, <2>2, <3>1, <3>3 DEF E1
      <4>. QED
        BY <1>2, <2>2, <3>1, <3>0, <3>3, <4>1 DEF E1, Edge, Quiet, Elapse
    <3>. QED
      BY <3>1, <3>2, <3>3
  <2>3. CASE trig = 1 /\ disturbed
    BY <1>2, <2>3 DEF E1, Quiet
  <2>. QED
    BY <2>1, <2>2, <2>3
<1>3. CASE E2
  <2>1. CASE disturbed
    BY <1>3, <2>1 DEF E2, Quiet
  <2>2. CASE ~disturbed /\ echo_rr = 0
    <3>1. age' \in Nat /\ age' >= age /\ (age < AgeCap => age' = age + 1)
      BY <1>3, OlderType DEF E2, Quiet
    <3>2. /\ state' = "E2" /\ sensor' = sensor
          /\ echo_r' = echo /\ echo_rr' = echo_r /\ width' = width + echo
          /\ disturbed' = disturbed
      BY <1>3, <2>2 DEF E2, Edge, Quiet, Elapse
    <3>. QED
      BY <1>3, <2>2, <3>1, <3>2 DEF E2
  <2>3. CASE ~disturbed /\ echo_rr = 1
    BY <1>3, <2>3 DEF E2, Edge, Quiet, Elapse
  <2>. QED
    BY <2>1, <2>2, <2>3
<1>4. CASE E3
  BY <1>4, OlderType DEF E3, Edge, Quiet, Elapse
<1>5. CASE E4
  BY <1>5, OlderType DEF E4, Edge, Quiet, Elapse
<1>6. CASE E5
  BY <1>6, OlderType DEF E5, Edge, Quiet, Elapse
<1>7. CASE EdgeInReset
  BY <1>7, OlderType DEF EdgeInReset, Elapse, machine
<1>8. CASE Reset
  BY <1>8, OlderType DEF Reset
<1>9. CASE Release
  BY <1>9, OlderType DEF Release, machine, history
<1>10. CASE EchoRise
  BY <1>10, OlderType DEF EchoRise, machine
<1>11. CASE EchoFall
  BY <1>11, OlderType DEF EchoFall, machine, history
<1>12. CASE Miss
  BY <1>12, OlderType DEF Miss, machine, history
<1>13. CASE UNCHANGED vars
  BY <1>13 DEF vars, machine, history
<1>. QED
  BY <1>1, <1>2, <1>3, <1>4, <1>5, <1>6, <1>7, <1>8, <1>9, <1>10, <1>11,
     <1>12, <1>13 DEF Next, Clock

-----------------------------------------------------------------------------
(* Theorems *)

\* Every edge of the clock, every move of the reset line and of the sensor
\* preserves the inductive invariant.
LEMMA NextInv == IInv /\ [Next]_vars => IInv'
  BY TypeStep, PulseStep, CooldownStep, PipelineStep, BoundStep, ExactStep
     DEF IInv

\* The inductive invariant holds in every reachable state.
THEOREM Invariance == Spec => []IInv
  BY InitInv, NextInv, PTL DEF Spec

\* Every register keeps its type: in particular dist_cm always holds a value
\* of dist_cm'length bits, whatever the product overflowed to.
THEOREM TypeCorrect == Spec => []TypeOK
<1>1. IInv => TypeOK
  BY DEF IInv
<1>. QED
  BY <1>1, Invariance, PTL

\* E2 never takes a sample older than its trigger for the echo.
THEOREM StaleEchoIgnored == Spec => []NoStaleEcho
<1>1. IInv => NoStaleEcho
  BY DEF IInv, PipelineInv, NoStaleEcho, Listening, Armed
<1>. QED
  BY <1>1, Invariance, PTL

\* In a cycle no reset interferes with, the count of E4 is the exact length of
\* the echo in clock edges.
THEOREM MeasureIsExact == Spec => []MeasureExact
<1>1. IInv => MeasureExact
  BY DEF IInv, ExactInv, MeasureExact
<1>. QED
  BY <1>1, Invariance, PTL

\* Whatever resets do, the count of E4 never exceeds the length of the echo.
THEOREM MeasureNeverLong == Spec => []NeverLong
<1>1. IInv => NeverLong
  BY DEF IInv, BoundInv, NeverLong
<1>. QED
  BY <1>1, Invariance, PTL

\* No reset, however timed, produces a trigger pulse too short for the sensor.
THEOREM TriggerIsWide == Spec => TriggerWide
<1>1. IInv /\ [Next]_vars => [trig = 1 /\ trig' = 0 => age > TriggerTicks]_vars
  <2> SUFFICES ASSUME IInv, Next, trig = 1, trig' = 0
               PROVE  age > TriggerTicks
    BY DEF vars
  <2>1. E2
    BY DEF Next, Clock, E0, E1, E3, E4, E5, EdgeInReset, Reset, Release,
           EchoRise, EchoFall, Miss, machine
  <2>. QED
    BY <2>1 DEF E2, IInv, PulseInv
<1>. QED
  BY <1>1, Invariance, PTL DEF Spec, TriggerWide

\* Two triggers that no reset separates are more than Spacing edges apart.
THEOREM TriggersAreSpaced == Spec => TriggerSpaced
<1>1. IInv /\ [Next]_vars
        => [trig = 0 /\ trig' = 1 /\ ~disturbed => age >= Spacing]_vars
  <2> SUFFICES ASSUME IInv, Next, trig = 0, trig' = 1, ~disturbed
               PROVE  age >= Spacing
    BY DEF vars
  <2>1. E1
    BY DEF Next, Clock, E0, E2, E3, E4, E5, EdgeInReset, Reset, Release,
           EchoRise, EchoFall, Miss, machine
  <2>2. age < AgeCap \/ age = AgeCap
    BY DEF IInv, TypeOK, AgeCap, Spacing
  <2>. QED
    BY <2>1, <2>2 DEF E1, IInv, CooldownInv, AgeCap, Spacing
<1>. QED
  BY <1>1, Invariance, PTL DEF Spec, TriggerSpaced

\* The conversion is the division of the exact product, rounded down, for the
\* counts whose product fits in an INTEGER and whose quotient fits in dist_cm.
LEMMA ConversionExact ==
  ASSUME NEW count \in Nat, InRange(count)
  PROVE  /\ Distance(count) * Div <= count * Mult
         /\ count * Mult < (Distance(count) + 1) * Div
<1> DEFINE n == count * Mult
           q == n \div Div
<1>1. n \in Nat /\ 2 * n < IntMod /\ n < Div * DistMod
  BY DEF InRange
<1>2. Signed(n) = n
  <2>1. n % IntMod = n
    BY <1>1
  <2>. QED
    BY <1>1, <2>1 DEF Signed
<1>3. Quotient(n) = q
  BY <1>1 DEF Quotient
<1>4. q \in Nat /\ Div * q <= n /\ n < Div * (q + 1)
  BY <1>1
<1>5. q < DistMod
  BY <1>1, <1>4
<1>6. Distance(count) = q
  <2>1. q % DistMod = q
    BY <1>4, <1>5
  <2>. QED
    BY <1>2, <1>3, <2>1 DEF Distance
<1>. HIDE DEF q, n
<1>. QED
  BY <1>1, <1>4, <1>6 DEF n

\* End to end: a distance that appears on dist_cm is the true one, rounded down
\* to the centimetre, if the echo was in range and no reset interfered.
THEOREM ReadingIsFaithful == Spec => ReadingFaithful
<1> DEFINE P == dist_cm' # dist_cm /\ ~disturbed /\ InRange(width)
                  => /\ dist_cm' * Div <= width * Mult
                     /\ width * Mult < (dist_cm' + 1) * Div
<1>1. IInv /\ [Next]_vars => [P]_vars
  <2> SUFFICES ASSUME IInv, Next, dist_cm' # dist_cm, ~disturbed, InRange(width)
               PROVE  /\ dist_cm' * Div <= width * Mult
                      /\ width * Mult < (dist_cm' + 1) * Div
    BY DEF vars
  <2>1. E4
    BY DEF Next, Clock, E0, E1, E2, E3, E5, EdgeInReset, Reset, Release,
           EchoRise, EchoFall, Miss, machine
  <2>2. counter2 = width /\ dist_cm' = Distance(counter2) /\ width \in Nat
    BY <2>1 DEF E4, IInv, ExactInv, TypeOK
  <2>. QED
    BY <2>2, ConversionExact
<1>. QED
  BY <1>1, Invariance, PTL DEF Spec, ReadingFaithful

\* The telemeter implements Ranging, whatever resets and missed triggers do: the
\* reader of dist_cm sees one new reading per flight, at its end, and flights
\* that keep their distance.
THEOREM Implementation == Spec => ServesReader
<1> DEFINE Phase == IF disturbed THEN "lost"
                    ELSE IF Flying THEN "flight" ELSE "rest"
<1>1. Init => Reader!Init
  BY DEF Init, Reader!Init
<1>2. IInv /\ [Next]_vars => [Reader!Next]_Reader!rangingVars
  <2> SUFFICES ASSUME IInv, Next
               PROVE  Reader!Next \/ UNCHANGED Reader!rangingVars
    BY DEF vars, machine, history, Flying, Reader!rangingVars
  <2> USE DEF Reader!Next, Reader!rangingVars
  <2>1. age' = Older(age) => Reader!Later
    BY DEF Older, Reader!Later
  <2>2. CASE E0 \/ E2 \/ E3 \/ E5
    <3>1. Phase' = Phase /\ dist_cm' = dist_cm /\ age' = Older(age)
      BY <2>2 DEF E0, E2, E3, E5, Quiet, Flying, IInv, TypeOK, PulseInv
    <3>. QED
      BY <2>1, <3>1 DEF Reader!Wait
  <2>3. CASE E1
    <3>1. CASE trig = 0
      <4>1. disturbed \/ (~Flying /\ age >= Spacing)
        <5>1. age < AgeCap \/ age = AgeCap
          BY DEF IInv, TypeOK, AgeCap, Spacing
        <5>. QED
          BY <2>3, <3>1, <5>1 DEF E1, IInv, TypeOK, PulseInv, CooldownInv,
             Flying, AgeCap, Spacing
      <4>2. state' \in {"E1", "E2"} /\ counter1' > 0
        BY <2>3 DEF E1, IInv, TypeOK
      <4>3. Phase' \in {"flight", "lost"} /\ (~disturbed => Phase' = "flight")
        BY <2>3, <3>1, <4>1, <4>2 DEF E1, Flying, IInv, ExactInv
      <4>4. age' = 0 /\ dist_cm' = dist_cm
        BY <2>3, <3>1 DEF E1
      <4>. QED
        BY <4>1, <4>3, <4>4 DEF Reader!Trigger
    <3>2. CASE trig # 0
      <4>1. age' = Older(age) /\ dist_cm' = dist_cm /\ disturbed' = disturbed
        BY <2>3, <3>2 DEF E1, Quiet
      <4>2. ~disturbed => counter1 > 0
        BY <2>3, <3>2 DEF E1, IInv, TypeOK, PulseInv, Level
      <4>3. state' \in {"E1", "E2"} /\ counter1' > 0
        BY <2>3 DEF E1, IInv, TypeOK
      <4>4. Phase' = Phase
        BY <2>3, <4>1, <4>2, <4>3 DEF E1, Flying
      <4>. QED
        BY <2>1, <4>1, <4>4 DEF Reader!Wait
    <3>. QED
      BY <3>1, <3>2
  <2>4. CASE E4
    <3>1. dist_cm' \in 0 .. DistMod - 1
      BY <2>4, DistanceType DEF E4, IInv, TypeOK
    <3>2. age' = Older(age) /\ disturbed' = disturbed
      BY <2>4 DEF E4, Quiet
    <3>3. CASE disturbed
      BY <2>1, <3>1, <3>2, <3>3 DEF Reader!Garble
    <3>4. CASE ~disturbed
      BY <2>1, <2>4, <3>1, <3>2, <3>4 DEF E4, Flying, Reader!Result
    <3>. QED
      BY <3>3, <3>4
  <2>5. CASE EdgeInReset
    <3>1. age' = Older(age) /\ UNCHANGED <<disturbed, state, counter1, dist_cm>>
      BY <2>5 DEF EdgeInReset, machine
    <3>. QED
      BY <2>1, <3>1 DEF Reader!Wait, Flying
  <2>6. CASE Reset
    BY <2>6 DEF Reset, Reader!Abort
  <2>7. CASE Release \/ EchoRise \/ EchoFall \/ Miss
    <3>1. UNCHANGED <<disturbed, state, counter1, dist_cm, age>>
      BY <2>7 DEF Release, EchoRise, EchoFall, Miss, machine, history
    <3>. QED
      BY <3>1 DEF Flying
  <2>. QED
    BY <2>2, <2>3, <2>4, <2>5, <2>6, <2>7 DEF Next, Clock
<1>. QED
  BY <1>1, <1>2, Invariance, PTL DEF Spec, ServesReader, Reader!Spec
=============================================================================
