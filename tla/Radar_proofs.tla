---------------------------- MODULE Radar_proofs ----------------------------
(***************************************************************************)
(* Proofs about the radar, for every sweep, delay and cycle of the         *)
(* telemeter, for each of the three loops, with resets at any time; and    *)
(* about the servo controller that it points.                              *)
(***************************************************************************)
EXTENDS Radar, Servomoteur, TLAPS

USE SweepAssumption, RangingAssumption

-----------------------------------------------------------------------------
(* Arithmetic: products of constants are beyond the decision procedures,   *)
(* so what is needed of them is stated once.                               *)

LEMMA ProductGrows ==
  ASSUME NEW a \in Nat, NEW b \in Nat, NEW n \in Nat, a <= b
  PROVE  a * n \in Nat /\ b * n \in Nat /\ a * n <= b * n
OBVIOUS

LEMMA ProductNext ==
  ASSUME NEW m \in Nat, NEW n \in Nat
  PROVE  m * n \in Nat /\ (m + 1) * n = m * n + n
OBVIOUS

\* The quotient, and what bounds it.
LEMMA Quotient ==
  ASSUME NEW a \in Nat, NEW n \in Nat \ {0}
  PROVE  /\ a \div n \in Nat
         /\ (a \div n) * n <= a
         /\ a < (a \div n) * n + n
OBVIOUS

LEMMA QuotientGrows ==
  ASSUME NEW a \in Nat, NEW b \in Nat, NEW n \in Nat \ {0}, a <= b
  PROVE  a \div n <= b \div n
<1> DEFINE q == a \div n
           r == b \div n
<1>1. q \in Nat /\ r \in Nat /\ q * n <= a /\ b < r * n + n
  BY Quotient
<1>2. (r + 1) * n = r * n + n /\ r * n \in Nat /\ q * n \in Nat
  BY <1>1, ProductNext
<1>3. ASSUME r + 1 <= q PROVE FALSE
  <2>1. (r + 1) * n <= q * n
    BY <1>1, <1>3, ProductGrows
  <2>. HIDE DEF q, r
  <2>. QED
    BY <2>1, <1>1, <1>2
<1>. HIDE DEF q, r
<1>4. q <= r
  BY <1>1, <1>3
<1>. QED
  BY <1>4 DEF q, r

\* The register grows with the angle, from 0 to PosMax.
LEMMA PositionGrows ==
  ASSUME NEW x \in Nat, NEW y \in Nat, x <= y
  PROVE  Position(x) \in Nat /\ Position(y) \in Nat /\ Position(x) <= Position(y)
<1>1. x * PosMax \in Nat /\ y * PosMax \in Nat /\ x * PosMax <= y * PosMax
  BY ProductGrows
<1>. QED
  BY <1>1, Quotient, QuotientGrows DEF Position

LEMMA PositionEnds ==
  /\ Position(0) = 0
  /\ \A x \in 0 .. LastAngle : Position(x) \in 0 .. PosMax
<1>1. Position(0) = 0
  <2>1. 0 * PosMax = 0
    OBVIOUS
  <2>2. \A n \in Nat \ {0} : 0 \div n = 0
    OBVIOUS
  <2>. QED
    BY <2>1, <2>2 DEF Position
<1>2. Position(LastAngle) = PosMax
  <2>1. \A a \in Nat, n \in Nat \ {0} : (n * a) \div n = a
    <3> SUFFICES ASSUME NEW a \in Nat, NEW n \in Nat \ {0}
                 PROVE  (n * a) \div n = a
      OBVIOUS
    <3> DEFINE q == (n * a) \div n
    <3>1. n * a \in Nat /\ n * a = a * n
      OBVIOUS
    <3>2. q \in Nat /\ q * n <= a * n /\ a * n < q * n + n
      BY <3>1, Quotient
    <3>3. q * n + n = (q + 1) * n
      BY <3>2, ProductNext
    <3> HIDE DEF q
    <3>4. ASSUME a + 1 <= q PROVE FALSE
      <4>1. (a + 1) * n <= q * n /\ (a + 1) * n = a * n + n
        BY <3>2, <3>4, ProductGrows, ProductNext
      <4>. QED
        BY <4>1, <3>1, <3>2
    <3>5. ASSUME q + 1 <= a PROVE FALSE
      <4>1. (q + 1) * n <= a * n
        BY <3>2, <3>5, ProductGrows
      <4>. QED
        BY <4>1, <3>1, <3>2, <3>3
    <3>6. q = a
      BY <3>2, <3>4, <3>5
    <3>. QED
      BY <3>6 DEF q
  <2>. QED
    BY <2>1 DEF Position
<1>. QED
  BY <1>1, <1>2, PositionGrows

\* What the angle some steps before was.
LEMMA BackType ==
  ASSUME NEW m \in Nat, i \in Nat
  PROVE  Back(m) \in Nat /\ Back(m) <= i
<1>1. m * Increment \in Nat
  BY ProductNext
<1>. QED
  BY <1>1 DEF Back

-----------------------------------------------------------------------------
(* Types                                                                   *)

LEMMA DistanceIsNat == ASSUME TypeOK PROVE distance \in Nat /\ reading \in Nat
BY DEF TypeOK

\* Whatever digit is written, a display keeps seven bits of it.
LEMMA LatchType ==
  ASSUME s \in [Digits -> Pattern], NEW d \in 0 .. 5, NEW n \in Nat
  PROVE  Latch(s, d, Word(n % 10)) \in [Digits -> Pattern]
<1>1. n % 10 \in 0 .. 9
  OBVIOUS
<1>2. \A c \in 0 .. 9 : SevenSeg[c + 1] \in Int
  BY DEF SevenSeg
<1>3. Word(n % 10) \in Int
  BY <1>1, <1>2 DEF Word
<1>4. DataOut(d, Word(n % 10)) \in Pattern
  <2>1. \A w \in Int : w % 128 \in 0 .. 127
    OBVIOUS
  <2>. QED
    BY <1>3, <2>1 DEF DataOut, Pattern
<1>. QED
  BY <1>4 DEF Latch

\* The registers start within their types.
LEMMA InitInv == RadarInit => IInv
<1> SUFFICES ASSUME RadarInit PROVE IInv
  OBVIOUS
<1> USE DEF RadarInit, Init
<1>1. TypeOK
  BY DEF TypeOK, Cleared, Digits, Pattern, Unknown
<1>2. Places
  BY DEF Places, Sweeping
<1>3. Cycle
  BY DEF Cycle, Unknown
<1>4. LagInv
  BY DEF LagInv, Sweeping
<1>. QED
  BY <1>1, <1>2, <1>3, <1>4 DEF IInv

\* What a tick does to the processor, whatever the telemeter does.
LEMMA TickElapses == Tick => Elapse
BY DEF Tick, Ping, Pong, Idle, Noise

\* Every step keeps every register within its type.
LEMMA TypeStep ==
  ASSUME TypeOK, Places, [RadarNext]_vars
  PROVE  TypeOK'
<1> USE DEF TypeOK
<1>1. CASE Tick
  <2>1. Elapse
    BY <1>1, TickElapses
  <2>2. wait' \in 0 .. (IF Delay > Pause THEN Delay ELSE Pause)
    BY <2>1 DEF Elapse
  <2>3. /\ phase' \in {"flight", "rest", "lost"} /\ since' \in 0 .. Cap
        /\ reading' \in Readings \union {0}
        /\ aim' \in {Unknown} \union 0 .. PosMax
        /\ subject' \in {Unknown} \union 0 .. PosMax
    <3>1. CASE Ping
      BY <3>1 DEF Ping, Trigger
    <3>2. CASE Pong
      BY <3>2 DEF Pong, Result, Later
    <3>3. CASE Idle
      BY <3>3 DEF Idle, Wait, Later
    <3>4. CASE Noise
      BY <3>4 DEF Noise, Garble, Later
    <3>. QED
      BY <1>1, <3>1, <3>2, <3>3, <3>4 DEF Tick
  <2>. QED
    BY <2>1, <2>2, <2>3 DEF Elapse
<1>2. CASE Hello
  BY <1>2 DEF Hello, telemeter
<1>3. ASSUME Point \/ PointAndShow PROVE TypeOK'
  <2>1. position' = Position(i)
    BY <1>3 DEF Point, PointAndShow
  <2>2. i \in 0 .. LastAngle
    BY <1>3 DEF Point, PointAndShow, Places, Sweeping
  <2>3. position' \in 0 .. PosMax
    BY <2>1, <2>2, PositionEnds
  <2>4. CASE Point
    BY <2>3, <2>4 DEF Point, telemeter
  <2>5. CASE PointAndShow
    BY <2>3, <2>5 DEF PointAndShow, telemeter
  <2>. QED
    BY <1>3, <2>4, <2>5
<1>4. CASE Read
  BY <1>4 DEF Read, telemeter
<1>5. CASE PrintPair
  BY <1>5, DistanceIsNat DEF PrintPair, telemeter
<1>6. CASE Digit
  <2>1. s' \in [Digits -> Pattern]
    BY <1>6, LatchType DEF Digit
  <2>2. num' \in Nat
    <3>1. \A n \in Nat : n \div 10 \in Nat
      OBVIOUS
    <3>. QED
      BY <1>6, <3>1 DEF Digit
  <2>3. k' \in 0 .. 6
    BY <1>6 DEF Digit
  <2>. QED
    BY <1>6, <2>1, <2>2, <2>3 DEF Digit, telemeter
<1>7. CASE NextAngle
  <2>1. i <= LastAngle
    BY <1>7 DEF NextAngle, Places, Sweeping
  <2>. QED
    BY <1>7, <2>1 DEF NextAngle, telemeter
<1>8. CASE Home
  BY <1>8 DEF Home, telemeter
<1>9. CASE Restart
  BY <1>9 DEF Restart, telemeter
<1>10. CASE AngleShown
  BY <1>10 DEF AngleShown, telemeter
<1>11. CASE ReadAtOnce
  BY <1>11 DEF ReadAtOnce, telemeter
<1>12. CASE ReadingShown
  BY <1>12 DEF ReadingShown, telemeter
<1>13. CASE Reset
  BY <1>13 DEF Reset, Abort, Cleared, Digits, Pattern
<1>14. CASE UNCHANGED vars
  BY <1>14 DEF vars, telemeter, program
<1>. QED
  BY <1>1, <1>2, <1>3, <1>4, <1>5, <1>6, <1>7, <1>8, <1>9, <1>10, <1>11, <1>12,
     <1>13, <1>14 DEF RadarNext, Processor

\* The phases of the telemeter keep their times.
LEMMA CycleStep ==
  ASSUME TypeOK, Cycle, [RadarNext]_vars
  PROVE  Cycle'
<1> USE DEF TypeOK, Cycle, Unknown
<1>1. CASE Ping
  BY <1>1 DEF Ping, Trigger
<1>2. CASE Pong
  BY <1>2 DEF Pong, Result, Later
<1>3. CASE Idle
  BY <1>3 DEF Idle, Wait, Later
<1>4. CASE Noise
  BY <1>4 DEF Noise, Garble, Later
<1>5. CASE Processor
  BY <1>5 DEF Processor, Hello, Point, Read, PrintPair, Digit, NextAngle, Home,
              Restart, PointAndShow, AngleShown, ReadAtOnce, ReadingShown, telemeter
<1>6. CASE Reset
  BY <1>6 DEF Reset, Abort
<1>7. CASE UNCHANGED vars
  BY <1>7 DEF vars, telemeter
<1>. QED
  BY <1>1, <1>2, <1>3, <1>4, <1>5, <1>6, <1>7 DEF RadarNext, Tick

\* The angle the register was last written for is that of the loop.
LEMMA PlacesStep ==
  ASSUME TypeOK, Places, [RadarNext]_vars
  PROVE  Places'
<1> USE DEF TypeOK, Places, Sweeping
<1>1. CASE Tick
  <2>1. Elapse
    BY <1>1, TickElapses
  <2>2. \A m \in Nat : Back(m)' = Back(m) /\ Position(i)' = Position(i)
    BY <2>1 DEF Elapse, Back, Position
  <2>. QED
    BY <2>1, <2>2 DEF Elapse, Back
<1>2. CASE Hello
  <2>1. i' = 0 /\ position' = position /\ Back(1)' = 0
    <3>1. 1 * Increment \in Nat
      OBVIOUS
    <3>. QED
      BY <1>2, <3>1 DEF Hello, Back
  <2>2. Position(0) = 0
    BY PositionEnds
  <2>. QED
    BY <1>2, <2>1, <2>2 DEF Hello, telemeter
<1>3. CASE Point
  BY <1>3 DEF Point, telemeter
<1>4. CASE Read
  BY <1>4 DEF Read, telemeter
<1>5. CASE PrintPair
  BY <1>5 DEF PrintPair, telemeter
<1>6. CASE Digit
  BY <1>6 DEF Digit, telemeter
<1>7. CASE NextAngle
  <2>1. CASE app # "radar"
    BY <1>7, <2>1 DEF NextAngle, telemeter
  <2>2. CASE app = "radar"
    <3>1. i' = i + Increment /\ Back(1)' = i /\ position = Position(i)
      BY <1>7, <2>2 DEF NextAngle, Back
    <3>2. Position(i) <= Position(i')
      BY <3>1, PositionGrows
    <3>. QED
      BY <1>7, <2>2, <3>1, <3>2 DEF NextAngle, telemeter
  <2>. QED
    BY <2>1, <2>2
<1>8. CASE Home
  BY <1>8 DEF Home, telemeter
<1>9. CASE Restart
  <2>1. i' = 0 /\ position' = position /\ Back(1)' = 0
    BY <1>9 DEF Restart, Back
  <2>2. Position(0) = 0
    BY PositionEnds
  <2>. QED
    BY <1>9, <2>1, <2>2 DEF Restart, telemeter
<1>10. CASE PointAndShow \/ AngleShown
  BY <1>10 DEF PointAndShow, AngleShown, telemeter
<1>11. CASE ReadAtOnce \/ ReadingShown
  BY <1>11 DEF ReadAtOnce, ReadingShown, telemeter
<1>12. CASE Reset
  BY <1>12 DEF Reset
<1>13. CASE UNCHANGED vars
  <2>1. Back(1)' = Back(1)
    BY <1>13 DEF vars, program, Back
  <2>. QED
    BY <1>13, <2>1 DEF vars, telemeter, program
<1>. QED
  BY <1>1, <1>2, <1>3, <1>4, <1>5, <1>6, <1>7, <1>8, <1>9, <1>10, <1>11, <1>12,
     <1>13 DEF RadarNext, Processor
-----------------------------------------------------------------------------
(* The lag: the angles before were written long enough ago.                *)

LEMMA LagIsNat ==
  /\ Lag \in Nat
  /\ MaxGap + MaxFlight < Lag * Delay + Delay
  /\ \A m \in 0 .. Lag : m \in Nat /\ m * Delay \in Nat /\ m * Increment \in Nat
BY Quotient, ProductNext DEF Lag

LEMMA HeldType ==
  ASSUME TypeOK, Places, app = "radar", pc \in Sweeping
  PROVE  Held \in 0 .. Delay
BY DEF TypeOK, Places, Sweeping, Held

\* The register is at no angle before that of the loop.
LEMMA OnCourse ==
  ASSUME TypeOK, Places, app = "radar", pc \in Sweeping,
         NEW m \in Nat, 0 < Held + m * Delay
  PROVE  Position(Back(m)) <= position
<1>1. i \in Nat /\ position \in Nat /\ Back(m) \in Nat /\ Back(m) <= i
  BY BackType DEF TypeOK
<1>2. CASE pc # "point"
  <2>1. position = Position(i)
    BY <1>2 DEF Places, Sweeping
  <2>. QED
    BY <2>1, <1>1, PositionGrows
<1>3. CASE pc = "point"
  <2>1. m >= 1
    <3>1. 0 * Delay = 0 /\ Held = 0
      BY <1>3 DEF Held
    <3>. QED
      BY <3>1
  <2>2. 1 * Increment <= m * Increment /\ m * Increment \in Nat /\ 1 * Increment \in Nat
    BY <2>1, ProductGrows
  <2>3. Back(1) \in Nat /\ Back(m) <= Back(1)
    BY <1>1, <2>2, BackType DEF Back
  <2>4. Position(Back(m)) \in Nat /\ Position(Back(1)) \in Nat
        /\ Position(Back(m)) <= Position(Back(1))
    BY <1>1, <2>3, PositionGrows
  <2>5. Position(Back(1)) <= position
    BY <1>3 DEF Places
  <2>. QED
    BY <2>4, <2>5, <1>1
<1>. QED
  BY <1>2, <1>3

\* A tick ages a value by no more than it lengthens the time an angle is held.
LEMMA Ages ==
  ASSUME TypeOK, Places, app = "radar", pc \in Sweeping, Elapse,
         NEW x, NEW a \in Nat, NEW b \in Nat, a + 1 <= b, NotBefore(x, a),
         NEW m \in 0 .. Lag, b < Held' + m * Delay
  PROVE  Position(Back(m))' <= x
<1>1. m * Delay \in Nat
  BY LagIsNat
<1>2. Held \in 0 .. Delay /\ Held' \in Nat /\ Held' <= Held + 1
  <2>1. wait \in Nat /\ (pc = "sleep" => wait <= Delay)
    BY DEF TypeOK, Places
  <2>2. wait' \in Nat /\ wait' <= wait /\ wait <= wait' + 1 /\ pc' = pc
    BY <2>1 DEF Elapse
  <2>. QED
    BY <2>1, <2>2, HeldType DEF Held
<1>3. a < Held + m * Delay
  <2>1. \A h, g, p \in Nat : g <= h + 1 /\ b < g + p => a < h + p
    OBVIOUS
  <2>2. Held \in Nat
    BY <1>2
  <2>. QED
    BY <1>1, <1>2, <2>1, <2>2
<1>4. Position(Back(m)) <= x
  BY <1>3 DEF NotBefore
<1>5. Position(Back(m))' = Position(Back(m))
  BY DEF Elapse, Back, Position
<1>. QED
  BY <1>4, <1>5

\* What the processor does between two angles: what was not before stays so.
LEMMA Stays ==
  ASSUME TypeOK, app = "radar", i' = i, NEW x, NEW a \in Nat, NotBefore(x, a),
         Held' = Held, NEW m \in 0 .. Lag, a < Held' + m * Delay
  PROVE  Position(Back(m))' <= x
BY DEF NotBefore, Back, Position

\* The next angle takes each step one further back.
LEMMA NextStays ==
  ASSUME TypeOK, i' = i + Increment, NEW x, NEW a \in Nat, NotBefore(x, a),
         Held = Delay, Held' = 0, NEW m \in 0 .. Lag, a < Held' + m * Delay
  PROVE  Position(Back(m))' <= x
<1>1. m # 0
  <2>1. 0 * Delay = 0
    OBVIOUS
  <2>. QED
    BY <2>1
<1> DEFINE n == m - 1
<1>2. n \in 0 .. Lag /\ n \in Nat /\ m = n + 1
  BY <1>1, LagIsNat
<1>3. /\ m * Delay = n * Delay + Delay /\ n * Delay \in Nat
      /\ m * Increment = n * Increment + Increment /\ n * Increment \in Nat
  BY <1>2, ProductNext
<1> HIDE DEF n
<1>4. Position(Back(n)) <= x
  BY <1>2, <1>3 DEF NotBefore
<1>5. Back(m)' = Back(n)
  BY <1>3 DEF TypeOK, Back
<1>. QED
  BY <1>4, <1>5 DEF Position

\* At angle zero the register is not before where it ever was.
LEMMA ZeroStays ==
  ASSUME i' = 0, NEW x \in Nat, NEW m \in 0 .. Lag
  PROVE  Position(Back(m))' <= x
<1>1. Back(m)' = 0
  BY LagIsNat DEF Back
<1>2. Position(0) = 0
  BY PositionEnds
<1>. QED
  BY <1>1, <1>2 DEF Position
\* A tick of the telemeter: a trigger takes the position of now, and what was
\* the last trigger becomes the one before.
LEMMA LagTick ==
  ASSUME TypeOK, Places, Cycle, LagInv, Tick
  PROVE  LagInv'
<1>1. Elapse /\ app' = app /\ pc' = pc
  BY TickElapses DEF Elapse
<1> SUFFICES ASSUME app = "radar", pc \in Sweeping, NEW m \in 0 .. Lag
             PROVE  /\ phase' # "lost" /\ since' < Held' + m * Delay =>
                         Position(Back(m))' <= aim'
                    /\ phase' = "flight" /\ subject' # Unknown
                       /\ since' + MaxGap + 1 < Held' + m * Delay =>
                         Position(Back(m))' <= subject'
  BY <1>1 DEF LagInv, NotBefore, Sweeping
<1>2. /\ since \in Nat /\ since <= MaxGap /\ MaxGap \in Nat
      /\ phase # "lost" => NotBefore(aim, since)
      /\ phase = "flight" /\ subject # Unknown => NotBefore(subject, since + MaxGap + 1)
  BY DEF TypeOK, Cycle, LagInv
<1>3. CASE Ping
  <2>1. /\ phase \in {"rest", "lost"} /\ since' = 0 /\ aim' = position
        /\ subject' = subject
        /\ phase = "lost" => subject = Unknown
        /\ phase = "rest" => subject = aim
    BY <1>3 DEF Ping, Trigger, Cycle
  <2>2. ASSUME 0 < Held' + m * Delay PROVE Position(Back(m))' <= position
    <3>1. m * Delay \in Nat /\ m \in Nat
      BY LagIsNat
    <3>2. CASE 0 < Held + m * Delay
      <4>1. Position(Back(m)) <= position
        BY <3>1, <3>2, OnCourse
      <4>. QED
        BY <4>1, <1>1 DEF Elapse, Back, Position
    <3>3. CASE ~ (0 < Held + m * Delay)
      <4>1. pc = "point" \/ (pc = "sleep" /\ wait = Delay)
        <5>1. Held \in 0 .. Delay /\ wait \in Nat
          BY HeldType DEF TypeOK
        <5>2. Held = 0
          BY <3>1, <3>3, <5>1
        <5>. QED
          BY <5>1, <5>2 DEF Held
      <4>2. CASE pc = "point"
        BY <4>2, <2>2, <3>3, <1>1 DEF Held
      <4>3. CASE pc = "sleep"
        <5>1. position = Position(i)
          BY <4>3 DEF Places, Sweeping
        <5>2. i \in Nat /\ Back(m) \in Nat /\ Back(m) <= i
          BY <3>1, BackType DEF TypeOK
        <5>3. Position(Back(m)) <= position
          BY <5>1, <5>2, PositionGrows
        <5>. QED
          BY <5>3, <1>1 DEF Elapse, Back, Position
      <4>. QED
        BY <4>1, <4>2, <4>3
    <3>. QED
      BY <3>2, <3>3
  <2>3. ASSUME phase' = "flight", subject' # Unknown,
               since' + MaxGap + 1 < Held' + m * Delay
        PROVE  Position(Back(m))' <= subject'
    <3>1. phase = "rest" /\ NotBefore(subject, since)
      BY <2>1, <2>3, <1>2
    <3>2. MaxGap + 1 < Held' + m * Delay /\ MaxGap + 1 \in Nat
      BY <2>1, <2>3
    <3>3. Position(Back(m))' <= subject
      BY <3>1, <3>2, <1>1, <1>2, Ages
    <3>. QED
      BY <3>3, <2>1
  <2>. QED
    BY <2>1, <2>2, <2>3
<1>4. CASE Pong
  <2>1. phase = "flight" /\ phase' = "rest" /\ since' = since + 1 /\ aim' = aim
    BY <1>4, <1>2 DEF Pong, Result, Later
  <2>2. NotBefore(aim, since)
    BY <2>1, <1>2
  <2>. QED
    BY <2>1, <2>2, <1>1, <1>2, Ages
<1>5. CASE Idle
  <2>1. phase' = phase /\ since' = since + 1 /\ aim' = aim /\ subject' = subject
    BY <1>5, <1>2 DEF Idle, Wait, Later, Cycle
  <2>2. ASSUME phase' # "lost", since' < Held' + m * Delay
        PROVE  Position(Back(m))' <= aim'
    <3>1. NotBefore(aim, since) /\ since + 1 < Held' + m * Delay
      BY <2>1, <2>2, <1>2
    <3>. QED
      BY <2>1, <3>1, <1>1, <1>2, Ages
  <2>3. ASSUME phase' = "flight", subject' # Unknown,
               since' + MaxGap + 1 < Held' + m * Delay
        PROVE  Position(Back(m))' <= subject'
    <3> DEFINE a == since + MaxGap + 1
    <3>1. NotBefore(subject, a)
      BY <2>1, <2>3, <1>2
    <3>2. a \in Nat /\ a + 1 \in Nat /\ a + 1 < Held' + m * Delay
      BY <2>1, <2>3, <1>2
    <3> HIDE DEF a
    <3>3. Position(Back(m))' <= subject
      BY <3>1, <3>2, <1>1, Ages
    <3>. QED
      BY <3>3, <2>1
  <2>. QED
    BY <2>2, <2>3
<1>6. CASE Noise
  BY <1>6 DEF Noise, Garble
<1>. QED
  BY <1>3, <1>4, <1>5, <1>6 DEF Tick

\* A step of the program leaves the telemeter alone.
LEMMA LagProcessor ==
  ASSUME TypeOK, Places, Cycle, LagInv, Processor
  PROVE  LagInv'
<1>1. /\ phase' = phase /\ since' = since /\ aim' = aim /\ subject' = subject
      /\ app' = app
  BY DEF Processor, Hello, Point, Read, PrintPair, Digit, NextAngle, Home, Restart,
         PointAndShow, AngleShown, ReadAtOnce, ReadingShown, telemeter
<1> SUFFICES ASSUME app = "radar", pc' \in Sweeping, NEW m \in 0 .. Lag
             PROVE  /\ phase # "lost" /\ since < Held' + m * Delay =>
                         Position(Back(m))' <= aim
                    /\ phase = "flight" /\ subject # Unknown
                       /\ since + MaxGap + 1 < Held' + m * Delay =>
                         Position(Back(m))' <= subject
  BY <1>1 DEF LagInv, NotBefore, Sweeping
<1>2. /\ since \in Nat /\ since + MaxGap + 1 \in Nat
      /\ phase # "lost" => aim \in Nat
      /\ subject # Unknown => subject \in Nat
  BY DEF TypeOK, Cycle
<1>3. pc \in Sweeping =>
        /\ phase # "lost" => NotBefore(aim, since)
        /\ phase = "flight" /\ subject # Unknown =>
             NotBefore(subject, since + MaxGap + 1)
  BY DEF LagInv
<1> DEFINE b == since + MaxGap + 1
<1> HIDE DEF b
<1>4. CASE Hello \/ Restart
  <2>1. i' = 0
    BY <1>4 DEF Hello, Restart
  <2>. QED
    BY <2>1, <1>2, ZeroStays
<1>5. CASE Point \/ Read \/ PrintPair \/ Digit
  <2>1. i' = i /\ Held' = Held /\ pc \in Sweeping
    BY <1>5 DEF Point, Read, PrintPair, Digit, Held, Sweeping
  <2>. QED
    BY <2>1, <1>2, <1>3, Stays
<1>6. CASE NextAngle
  <2>1. i' = i + Increment /\ Held = Delay /\ Held' = 0 /\ pc \in Sweeping
    BY <1>6 DEF NextAngle, Held, Sweeping, Places
  <2>. QED
    BY <2>1, <1>2, <1>3, NextStays
<1>7. CASE Home \/ PointAndShow \/ AngleShown \/ ReadAtOnce \/ ReadingShown
  BY <1>7 DEF Home, PointAndShow, AngleShown, ReadAtOnce, ReadingShown, Places,
              Sweeping
<1>. QED
  BY <1>4, <1>5, <1>6, <1>7 DEF Processor

\* Every reading keeps its age within the lag.
LEMMA LagStep ==
  ASSUME TypeOK, Places, Cycle, LagInv, [RadarNext]_vars
  PROVE  LagInv'
<1>1. CASE Reset
  BY <1>1 DEF Reset, LagInv, Sweeping
<1>2. CASE UNCHANGED vars
  BY <1>2 DEF vars, telemeter, program, LagInv, NotBefore, Held, Back, Position, Sweeping
<1>. QED
  BY <1>1, <1>2, LagTick, LagProcessor DEF RadarNext

-----------------------------------------------------------------------------
(* The theorems                                                            *)

\* Whatever the telemeter does and whichever loop runs, the registers keep their
\* types, each loop its places, and every reading its age.
THEOREM Invariance == RadarSpec => []IInv
<1>1. RadarInit => IInv
  BY InitInv
<1>2. IInv /\ [RadarNext]_vars => IInv'
  BY TypeStep, PlacesStep, CycleStep, LagStep DEF IInv
<1>. QED
  BY <1>1, <1>2, PTL DEF RadarSpec

\* Only the end of the sleep takes a reading.
LEMMA ReadingIsRead ==
  ASSUME Places, [RadarNext]_vars, Reading
  PROVE  Read /\ app = "radar"
<1>1. CASE Tick
  BY <1>1, TickElapses DEF Elapse, Reading
<1>2. CASE Processor
  BY <1>2 DEF Reading, Processor, Hello, Point, Read, PrintPair, Digit, NextAngle,
              Home, Restart, PointAndShow, AngleShown, ReadAtOnce, ReadingShown, Places
<1>3. CASE Reset
  BY <1>3 DEF Reset, Reading
<1>4. CASE UNCHANGED vars
  BY <1>4 DEF vars, program, Reading
<1>. QED
  BY <1>1, <1>2, <1>3, <1>4 DEF RadarNext

\* A reading taken at the end of the sleep is of one of the last Lag angles.
LEMMA ReadingLags ==
  ASSUME IInv, [RadarNext]_vars, Reading
  PROVE  subject >= Position(Back(Lag))
<1> USE DEF IInv
<1>1. app = "radar" /\ wait = 0 /\ pc = "sleep"
  BY ReadingIsRead DEF Read
<1>2. /\ Held = Delay /\ Lag \in 0 .. Lag
      /\ Lag * Delay \in Nat /\ MaxGap + MaxFlight < Delay + Lag * Delay
  BY <1>1, LagIsNat DEF Held
<1>3. since \in Nat /\ phase \in {"flight", "rest", "lost"} /\ subject \in Int
      /\ Position(Back(Lag)) \in Nat
  <2>1. Back(Lag) \in Nat
    BY LagIsNat, BackType DEF TypeOK
  <2>2. Position(Back(Lag)) \in Nat
    BY <2>1, PositionGrows
  <2>. QED
    BY <2>2 DEF TypeOK, Unknown
<1>4. subject # Unknown /\ phase # "lost"
  BY DEF Reading, Cycle
<1>5. CASE phase = "flight"
  <2>1. since + MaxGap + 1 < Held + Lag * Delay
    BY <1>2, <1>3, <1>5 DEF Cycle
  <2>2. NotBefore(subject, since + MaxGap + 1)
    BY <1>1, <1>4, <1>5 DEF LagInv, Sweeping
  <2>. QED
    BY <2>1, <2>2, <1>2, <1>3 DEF NotBefore
<1>6. CASE phase = "rest"
  <2>1. since < Held + Lag * Delay
    BY <1>2, <1>3 DEF Cycle
  <2>2. NotBefore(subject, since)
    BY <1>1, <1>6 DEF LagInv, Sweeping, Cycle
  <2>. QED
    BY <2>1, <2>2, <1>2, <1>3 DEF NotBefore
<1>. QED
  BY <1>3, <1>4, <1>5, <1>6
\* The distance printed beside an angle is at most Lag steps behind it.
THEOREM LagIsBounded == RadarSpec => BoundedLag
<1>1. IInv /\ [RadarNext]_vars => [Reading => subject >= Position(Back(Lag))]_vars
  BY ReadingLags
<1>. QED
  BY <1>1, Invariance, PTL DEF RadarSpec, BoundedLag

-----------------------------------------------------------------------------
(* The pause: what the far end of a sweep left behind is replaced in time. *)

LEMMA AheadType ==
  ASSUME TypeOK
  PROVE  Ahead \in Nat
BY DEF TypeOK, Ahead

LEMMA AheadInit == RadarInit => AheadInv
BY DEF RadarInit, Init, AheadInv

\* A tick takes one off what remains and adds one to the age.
LEMMA AheadTick ==
  ASSUME TypeOK, Places, Cycle, AheadInv, Tick
  PROVE  AheadInv'
<1>1. /\ app' = app /\ position' = position /\ position \in Nat /\ aim \in Int
      /\ subject \in Int /\ since \in Nat /\ MaxGap \in Nat /\ MaxFlight \in Nat
  BY TickElapses DEF Elapse, TypeOK, Unknown
<1>2. Ahead \in Nat /\ Ahead' \in Nat /\ Ahead <= Ahead' + 1
  <2>1. wait \in Nat /\ wait' \in Nat /\ wait <= wait' + 1 /\ pc' = pc /\ i' = i
    BY TickElapses DEF TypeOK, Elapse
  <2>. QED
    BY <2>1 DEF Ahead
<1> DEFINE h == Ahead
           g == Ahead'
<1>3. /\ h \in Nat /\ g \in Nat /\ h <= g + 1
      /\ app = "radar" /\ phase # "lost" /\ aim > position =>
           MaxGap + MaxFlight < h + since
      /\ app = "radar" /\ phase = "flight" /\ subject > position =>
           MaxFlight <= h + since
  BY <1>2, Zenon DEF AheadInv
<1>4. AheadInv' <=>
        (app' = "radar" =>
          /\ phase' # "lost" /\ aim' > position' => MaxGap + MaxFlight < g + since'
          /\ phase' = "flight" /\ subject' > position' => MaxFlight <= g + since')
  BY Zenon DEF AheadInv
<1> HIDE DEF h, g
<1>5. CASE Ping
  <2>1. /\ since' = 0 /\ aim' = position /\ subject' = subject
        /\ phase' = "flight" => phase = "rest" \/ subject = Unknown
    BY <1>5 DEF Ping, Trigger, Cycle
  <2>2. phase = "rest" => subject = aim /\ since <= MaxGap
    BY DEF Cycle
  <2>. QED
    BY <1>1, <1>3, <1>4, <2>1, <2>2 DEF Unknown
<1>6. CASE Pong
  BY <1>1, <1>3, <1>4, <1>6 DEF Pong, Result, Later, Cycle
<1>7. CASE Idle
  <2>1. since' = since + 1 /\ phase' = phase /\ aim' = aim /\ subject' = subject
    BY <1>1, <1>7 DEF Idle, Wait, Later, Cycle
  <2>. QED
    BY <1>1, <1>3, <1>4, <2>1
<1>8. CASE Noise
  BY <1>4, <1>8 DEF Noise, Garble
<1>. QED
  BY <1>5, <1>6, <1>7, <1>8 DEF Tick

\* The loop never takes off more than the pause has put on.
LEMMA AheadProcessor ==
  ASSUME TypeOK, Places, Cycle, AheadInv, PauseOutlasts, Processor
  PROVE  AheadInv'
<1>1. /\ phase' = phase /\ since' = since /\ aim' = aim /\ subject' = subject
      /\ app' = app /\ since \in Nat /\ MaxGap \in Nat /\ MaxFlight \in Nat
      /\ Ahead \in Nat /\ position \in Nat /\ aim \in Int /\ subject \in Int
      /\ i \in Nat /\ wait \in Nat
  BY AheadType DEF Processor, Hello, Point, Read, PrintPair, Digit, NextAngle, Home,
         Restart, PointAndShow, AngleShown, ReadAtOnce, ReadingShown, telemeter,
         TypeOK, Unknown
<1>2. CASE Home
  <2>1. Ahead' = Pause + Delay
    BY <1>2 DEF Home, Ahead
  <2>. QED
    BY <2>1, <1>1 DEF AheadInv, PauseOutlasts
<1>3. CASE PointAndShow \/ AngleShown \/ ReadAtOnce \/ ReadingShown
  BY <1>1, <1>3 DEF PointAndShow, AngleShown, ReadAtOnce, ReadingShown, Places, AheadInv
<1>4. ASSUME ~ Home, app = "radar" PROVE position <= position' /\ position' \in Nat
  <2>1. CASE Point
    BY <2>1, <1>1, PositionGrows DEF Point, Places, Sweeping
  <2>2. CASE Hello \/ Read \/ PrintPair \/ Digit \/ NextAngle \/ Restart
    BY <2>2, <1>1 DEF Hello, Read, PrintPair, Digit, NextAngle, Restart
  <2>3. CASE PointAndShow \/ AngleShown \/ ReadAtOnce \/ ReadingShown
    BY <2>3, <1>4 DEF PointAndShow, AngleShown, ReadAtOnce, ReadingShown, Places
  <2>. QED
    BY <1>4, <2>1, <2>2, <2>3 DEF Processor
<1>5. CASE Hello \/ Point \/ Read \/ PrintPair \/ Digit \/ NextAngle \/ Restart
  <2> SUFFICES ASSUME app = "radar" PROVE AheadInv'
    BY <1>1 DEF AheadInv
  <2>1. Ahead' \in Nat /\ Ahead <= Ahead'
    BY <1>1, <1>5 DEF Hello, Point, Read, PrintPair, Digit, NextAngle, Restart, Ahead
  <2>2. position <= position' /\ position' \in Nat
    <3>1. CASE Home
      BY <3>1, <1>5 DEF Hello, Point, Read, PrintPair, Digit, NextAngle, Restart, Home
    <3>. QED
      BY <3>1, <1>4
  <2> DEFINE h == Ahead
             g == Ahead'
  <2>3. /\ h \in Nat /\ g \in Nat /\ h <= g
        /\ phase # "lost" /\ aim > position => MaxGap + MaxFlight < h + since
        /\ phase = "flight" /\ subject > position => MaxFlight <= h + since
    BY <1>1, <2>1, Zenon DEF AheadInv
  <2>4. AheadInv' <=>
          (app' = "radar" =>
            /\ phase' # "lost" /\ aim' > position' => MaxGap + MaxFlight < g + since'
            /\ phase' = "flight" /\ subject' > position' => MaxFlight <= g + since')
    BY Zenon DEF AheadInv
  <2> HIDE DEF h, g
  <2>. QED
    BY <2>2, <2>3, <2>4, <1>1
<1>. QED
  BY <1>2, <1>3, <1>5 DEF Processor

LEMMA AheadStep ==
  ASSUME TypeOK, Places, Cycle, AheadInv, PauseOutlasts, [RadarNext]_vars
  PROVE  AheadInv'
<1>1. CASE Reset
  BY <1>1 DEF Reset, Abort, AheadInv
<1>2. CASE UNCHANGED vars
  BY <1>2 DEF vars, telemeter, program, AheadInv, Ahead
<1>. QED
  BY <1>1, <1>2, AheadTick, AheadProcessor DEF RadarNext

\* At the end of the sleep nothing is left to replace it.
LEMMA ReadingBehind ==
  ASSUME TypeOK, Places, Cycle, AheadInv, [RadarNext]_vars, Reading
  PROVE  subject <= position
<1>1. /\ app = "radar" /\ Ahead = 0 /\ position \in Nat /\ subject \in Int
      /\ since \in Nat /\ phase \in {"flight", "rest", "lost"}
      /\ MaxGap \in Nat /\ MaxFlight \in Nat
  BY ReadingIsRead DEF Read, Ahead, TypeOK, Unknown
<1>. QED
  BY <1>1 DEF AheadInv, Cycle, Reading

\* With a pause that outlasts a cycle and a flight of the telemeter, no distance
\* is printed beside an angle that was measured further on.
THEOREM NothingAhead == ASSUME PauseOutlasts PROVE RadarSpec => NeverAhead
<1>1. RadarInit => AheadInv
  BY AheadInit
<1>2. IInv /\ AheadInv /\ [RadarNext]_vars => AheadInv'
  BY PauseOutlasts, AheadStep DEF IInv
<1>3. IInv /\ AheadInv /\ [RadarNext]_vars => [Reading => subject <= position]_vars
  BY ReadingBehind DEF IInv
<1>. QED
  BY <1>1, <1>2, <1>3, Invariance, PTL DEF RadarSpec, NeverAhead

-----------------------------------------------------------------------------
(* The displays                                                            *)

\* The word that printNumHex writes for a digit draws it.
LEMMA WordDraws ==
  \A c \in 0 .. 9, d \in 0 .. 5 : Lit(DataOut(d, Word(c))) = Glyph[c + 1]
<1>1. ASSUME NEW d \in 0 .. 5
      PROVE  /\ DataOut(d, Word(0)) = 64 /\ DataOut(d, Word(1)) = 121
             /\ DataOut(d, Word(2)) = 36 /\ DataOut(d, Word(3)) = 48
             /\ DataOut(d, Word(4)) = 25 /\ DataOut(d, Word(5)) = 18
             /\ DataOut(d, Word(6)) = 2 /\ DataOut(d, Word(7)) = 120
             /\ DataOut(d, Word(8)) = 0 /\ DataOut(d, Word(9)) = 16
  BY DEF DataOut, Word, SevenSeg
<1>2. ASSUME NEW p \in Nat
      PROVE  Lit(p) = {bit \in 0 .. 6 :
               \/ bit = 0 /\ p % 2 = 0
               \/ bit = 1 /\ (p \div 2) % 2 = 0
               \/ bit = 2 /\ (p \div 4) % 2 = 0
               \/ bit = 3 /\ (p \div 8) % 2 = 0
               \/ bit = 4 /\ (p \div 16) % 2 = 0
               \/ bit = 5 /\ (p \div 32) % 2 = 0
               \/ bit = 6 /\ (p \div 64) % 2 = 0}
  BY DEF Lit, SegmentBit
<1>3. /\ Lit(64) = Glyph[1] /\ Lit(121) = Glyph[2] /\ Lit(36) = Glyph[3]
      /\ Lit(48) = Glyph[4] /\ Lit(25) = Glyph[5]
  BY <1>2 DEF Glyph, Frame
<1>4. /\ Lit(18) = Glyph[6] /\ Lit(2) = Glyph[7] /\ Lit(120) = Glyph[8]
      /\ Lit(0) = Glyph[9] /\ Lit(16) = Glyph[10]
  BY <1>2 DEF Glyph, Frame
<1>5. SUFFICES ASSUME NEW c \in 0 .. 9, NEW d \in 0 .. 5
               PROVE  Lit(DataOut(d, Word(c))) = Glyph[c + 1]
  OBVIOUS
<1>6. c \in {0, 1, 2, 3, 4, 5, 6, 7, 8, 9}
  OBVIOUS
<1>. QED
  BY <1>1, <1>3, <1>4, <1>6

\* Dividing by ten once more.
LEMMA NextWeight ==
  ASSUME NEW x \in Nat, NEW d \in 0 .. 5
  PROVE  (x \div Weight[d + 1]) \div 10 = x \div Weight[d + 2]
BY DEF Weight

\* A turn of the loop writes its digit and leaves the other displays alone.
LEMMA TurnDraws ==
  ASSUME NEW t \in [Digits -> Pattern], NEW x \in Nat, NEW d \in 0 .. 5,
         NEW n, n = x \div Weight[d + 1]
  PROVE  /\ Draws(Latch(t, d, Word(n % 10))[d], x, d)
         /\ \A e \in Digits : e # d => Latch(t, d, Word(n % 10))[e] = t[e]
         /\ n \div 10 = x \div Weight[d + 2]
<1> DEFINE c == n % 10
<1>1. n \in Nat
  BY DEF Weight
<1>2. c \in 0 .. 9
  BY <1>1
<1>3. d % 8 = d
  OBVIOUS
<1>4. n \div 10 = x \div Weight[d + 2]
  BY NextWeight
<1>5. Lit(DataOut(d, Word(c))) = Glyph[c + 1]
  BY <1>2, WordDraws
<1>6. Glyph[c + 1] = Glyph[((x \div Weight[d + 1]) % 10) + 1]
  OBVIOUS
<1> HIDE DEF c
<1>7. /\ Latch(t, d, Word(c))[d] = DataOut(d, Word(c))
      /\ \A e \in Digits : e # d => Latch(t, d, Word(c))[e] = t[e]
  BY <1>3 DEF Latch, Digits
<1>8. Draws(Latch(t, d, Word(c))[d], x, d)
  BY <1>5, <1>6, <1>7 DEF Draws
<1>. QED
  BY <1>4, <1>7, <1>8 DEF c

LEMMA DisplayingInit == RadarInit => Displaying /\ DisplayShowsNumber
BY DEF RadarInit, Displaying, DisplayShowsNumber

\* The steps that leave the displays, and what they are written from, alone.
LEMMA DisplayFrame ==
  ASSUME Tick \/ Hello \/ Point \/ PointAndShow \/ AngleShown \/ ReadAtOnce
           \/ ReadingShown \/ Read \/ PrintPair \/ Home \/ NextAngle \/ Restart
           \/ UNCHANGED vars
  PROVE  s' = s /\ app' = app
BY TickElapses DEF Elapse, Hello, Point, PointAndShow, AngleShown, ReadAtOnce,
   ReadingShown, Read, PrintPair, Home, NextAngle, Restart, vars, program

\* Each turn of printNumHex writes one more digit of the same number, in each of
\* the three loops.
LEMMA DisplayingStep ==
  ASSUME TypeOK, Places, Displaying, [RadarNext]_vars
  PROVE  Displaying'
<1> USE DEF Displaying
<1>1. i \in Nat /\ distance \in Nat /\ Shown \in Nat /\ k \in 0 .. 6
  BY DistanceIsNat DEF TypeOK, Shown
<1>2. ASSUME Tick \/ UNCHANGED vars PROVE Displaying'
  <2>1. UNCHANGED <<app, pc, i, distance, k, num, position, s>>
    BY <1>2, TickElapses DEF Elapse, vars, program
  <2>. QED
    BY <2>1 DEF Shown, Position
<1>3. CASE Hello \/ ReadAtOnce \/ ReadingShown \/ Read \/ Home \/ NextAngle
           \/ Restart \/ Point \/ Reset
  <2>1. pc' \notin {"digits", "shown"} /\ app' = app
    BY <1>3 DEF Hello, ReadAtOnce, ReadingShown, Read, Home, NextAngle, Restart,
                Point, Reset
  <2>2. pc' = "read" => app = "telemetre_us"
    BY <1>3 DEF Hello, ReadAtOnce, ReadingShown, Read, Home, NextAngle, Restart,
                Point, Reset
  <2>3. pc' = "print" => app # "servomoteur"
    BY <1>3 DEF Hello, ReadAtOnce, ReadingShown, Read, Home, NextAngle, Restart,
                Point, Reset, Places
  <2>. QED
    BY <2>1, <2>2, <2>3
<1>4. CASE PointAndShow \/ PrintPair
  <2>1. /\ pc' = "digits" /\ k' = 0 /\ num' = Shown' /\ Shown' = Shown
        /\ app' = app /\ i' = i
        /\ app = "servomoteur" => position' = Position(i)
    BY <1>4 DEF PointAndShow, PrintPair, Shown
  <2>2. Shown \div Weight[1] = Shown
    <3>1. \A x \in Nat : x \div 1 = x
      OBVIOUS
    <3>. QED
      BY <1>1, <3>1 DEF Weight
  <2>. QED
    BY <2>1, <2>2 DEF Digits, Position
<1>5. CASE AngleShown
  BY <1>5 DEF AngleShown, Position
<1>6. CASE Digit
  <2>1. /\ pc = "digits" /\ pc' = "digits" /\ k \in 0 .. 5 /\ k' = k + 1
        /\ s' = Latch(s, k, Word(num % 10)) /\ num' = num \div 10
        /\ UNCHANGED <<app, i, distance, position>>
    BY <1>6, <1>1 DEF Digit
  <2>2. Shown' = Shown /\ s \in [Digits -> Pattern]
    BY <2>1 DEF Shown, TypeOK
  <2>3. /\ Draws(s'[k], Shown, k)
        /\ \A e \in Digits : e # k => s'[e] = s[e]
        /\ num' = Shown \div Weight[k + 2]
    BY <1>1, <2>1, <2>2, TurnDraws
  <2>4. num' = Shown' \div Weight[k' + 1]
    BY <2>1, <2>2, <2>3
  <2>5. ASSUME NEW d \in Digits, d < k' PROVE Draws(s'[d], Shown', d)
    <3>1. d = k \/ (d < k /\ d # k)
      BY <2>1, <2>5 DEF Digits
    <3>. QED
      BY <2>1, <2>2, <2>3, <3>1
  <2>. QED
    BY <2>1, <2>4, <2>5 DEF Position
<1>. QED
  BY <1>2, <1>3, <1>4, <1>5, <1>6 DEF RadarNext, Processor

\* Six turns have written the whole number.
LEMMA WrittenShows ==
  ASSUME Displaying, pc = "digits", k = 6
  PROVE  Shows(s, Shown)
BY DEF Displaying, Shows, Digits

LEMMA DisplayShowsNumberStep ==
  ASSUME TypeOK, Places, Displaying, Displaying', DisplayShowsNumber, [RadarNext]_vars
  PROVE  DisplayShowsNumber'
<1>1. i \in Nat /\ Increment \in Nat
  BY DEF TypeOK
<1>2. CASE Tick \/ UNCHANGED vars
  <2>1. UNCHANGED <<app, pc, i, distance, k, num, position, s>>
    BY <1>2, TickElapses DEF Elapse, vars, program
  <2>. QED
    BY <2>1 DEF DisplayShowsNumber, Shows, Position
<1>3. CASE Digit
  <2>1. pc' = "digits" /\ (k' = 6 => Shows(s, Shown)')
    BY <1>3 DEF Digit, Displaying, Shows, Digits
  <2>. QED
    BY <2>1 DEF DisplayShowsNumber, Shown, Shows, Displaying, Position
<1>4. CASE PointAndShow \/ PrintPair
  BY <1>4 DEF PointAndShow, PrintPair, DisplayShowsNumber
<1>5. CASE Hello \/ ReadAtOnce \/ ReadingShown \/ Read \/ Restart \/ Point \/ Reset
  <2>1. pc' \notin {"digits", "shown", "home", "pause"}
    BY <1>5 DEF Hello, ReadAtOnce, ReadingShown, Read, Restart, Point, Reset
  <2>. QED
    BY <2>1 DEF DisplayShowsNumber
<1>6. CASE AngleShown
  BY <1>6 DEF AngleShown, DisplayShowsNumber, Shows, Position
<1>7. CASE NextAngle
  <2>1. UNCHANGED <<app, distance, position, s>> /\ i' - Increment = i
        /\ pc' \in {"point", "home"}
        /\ ((app = "radar" /\ pc = "digits" /\ k = 6) \/ pc = "shown")
    BY <1>7, <1>1 DEF NextAngle
  <2>2. pc = "shown" => app = "servomoteur"
    BY SweepAssumption DEF Places, TypeOK
  <2>. QED
    BY <2>1, <2>2 DEF DisplayShowsNumber, Shows
<1>8. CASE Home
  BY <1>8 DEF Home, DisplayShowsNumber, Shows
<1>9. CASE ReadingShown
  BY <1>9 DEF ReadingShown, DisplayShowsNumber
<1>. QED
  BY <1>2, <1>3, <1>4, <1>5, <1>6, <1>7, <1>8 DEF RadarNext, Processor

\* The displays show the number that was printed, or the angle the servo is at, and
\* what the far end of a sweep left behind is replaced before the next one reads.
THEOREM Displays == RadarSpec => []RadarInv
<1> DEFINE Inv == (PauseOutlasts => AheadInv) /\ Displaying /\ DisplayShowsNumber
<1>1. RadarInit => Inv
  BY AheadInit, DisplayingInit
<1>2. IInv /\ Inv /\ [RadarNext]_vars => Inv'
  <2>1. PauseOutlasts' <=> PauseOutlasts
    BY DEF PauseOutlasts
  <2>2. IInv /\ Inv /\ [RadarNext]_vars => (PauseOutlasts => AheadInv)'
    BY <2>1, AheadStep DEF IInv
  <2>. QED
    BY <2>2, DisplayingStep, DisplayShowsNumberStep DEF IInv
<1>3. IInv /\ Inv => RadarInv
  BY DEF RadarInv
<1>. QED
  BY <1>1, <1>2, <1>3, Invariance, PTL DEF RadarSpec

HIDE SweepAssumption
HIDE RangingAssumption

-----------------------------------------------------------------------------
(* The servo controller, for every range, period and width of the position *)
(* register, and for any writes and resets.                                *)

USE TicksAssumption, BusAssumption

\* A position of position'length bits stands for a width within the range.
LEMMA TargetInRange ==
  ASSUME NEW p \in 0 .. PosMod - 1
  PROVE  /\ Target(p) \in Nat
         /\ PulseWidthMin_ticks <= Target(p)
         /\ Target(p) <= PulseWidthMax_ticks
<1>1. Span \in Nat
  BY DEF Span
<1>2. p * Span \in Nat /\ p * Span <= PosMod * Span
  BY <1>1
<1>3. (p * Span) \div PosMod \in 0 .. Span
  BY <1>1, <1>2
<1>. QED
  BY <1>1, <1>3 DEF Target, Span

\* What the wrapper latches is a position.
LEMMA PositionType ==
  ASSUME ServoTypeOK, Edge
  PROVE  i_position' \in 0 .. PosMod - 1
<1>1. \A wd \in Writes : wd % PosMod \in 0 .. PosMod - 1
  OBVIOUS
<1>. QED
  BY <1>1 DEF ServoTypeOK, Edge

-----------------------------------------------------------------------------
(* The inductive invariant *)

\* The inductive invariant holds at power-up.
LEMMA ServoStarts == ServoInit => ServoInv
  BY DEF ServoInit, ServoInv, ServoTypeOK, PulseInv, Level, Off, Asked

\* Every edge of the clock and every move of the reset line preserves it.
LEMMA ServoSteps == ServoInv /\ [ServoNext]_servoVars => ServoInv'
<1> SUFFICES ASSUME ServoInv, [ServoNext]_servoVars
             PROVE  ServoInv'
  OBVIOUS
<1> USE DEF ServoInv, PulseInv, Level, Off, Asked
<1>1. CASE E0
  <2>1. ServoTypeOK'
    BY <1>1, PositionType DEF E0, Edge, Older, ServoTypeOK
  <2>2. PulseInv'
    BY <1>1 DEF E0, Edge, Older, ServoTypeOK
  <2>. QED
    BY <2>1, <2>2
<1>2. CASE E1
  <2>. DEFINE T == Target(i_position)
  <2>0. T \in Nat /\ PulseWidthMin_ticks <= T /\ T <= PulseWidthMax_ticks
    BY TargetInRange DEF ServoTypeOK
  <2>. HIDE DEF T
  <2>1. ServoTypeOK'
    BY <1>2, <2>0, PositionType DEF E1, Edge, ServoTypeOK, T
  <2>2. PulseInv'
    BY <1>2, <2>0 DEF E1, Edge, ServoTypeOK, T
  <2>. QED
    BY <2>1, <2>2
<1>3. CASE E2
  <2>1. ServoTypeOK'
    BY <1>3, PositionType DEF E2, Edge, Older, ServoTypeOK
  <2>2. PulseInv'
    BY <1>3 DEF E2, Edge, Older, ServoTypeOK
  <2>. QED
    BY <2>1, <2>2
<1>4. CASE ServoReset
  BY <1>4 DEF ServoReset, ServoTypeOK
<1>5. CASE Release
  BY <1>5 DEF Release, machine, ServoTypeOK
<1>6. CASE UNCHANGED servoVars
  BY <1>6 DEF servoVars, machine, ServoTypeOK
<1>. QED
  BY <1>1, <1>2, <1>3, <1>4, <1>5, <1>6 DEF ServoNext, Clock

\* The inductive invariant holds in every reachable state.
THEOREM ServoInvariance == ServoSpec => []ServoInv
  BY ServoStarts, ServoSteps, PTL DEF ServoSpec

-----------------------------------------------------------------------------
(* Theorems *)

\* No register leaves its range: counter never passes Period_ticks + 2.
THEOREM ServoTypeCorrect == ServoSpec => []ServoTypeOK
<1>1. ServoInv => ServoTypeOK
  BY DEF ServoInv
<1>. QED
  BY <1>1, ServoInvariance, PTL

\* A pulse no reset cuts is two edges longer than a width asked for while it
\* lasted, whatever the processor writes meanwhile.
THEOREM PulseFollowsPosition == ServoSpec => PulseFollows
<1>1. ServoInv /\ [ServoNext]_servoVars
        => [commande = 1 /\ commande' = 0 /\ rst_n' = 1
              => age + 1 \in lo + 2 .. hi + 2]_servoVars
  <2> SUFFICES ASSUME ServoInv, ServoNext, commande = 1, commande' = 0, rst_n' = 1
               PROVE  age + 1 \in lo + 2 .. hi + 2
    BY DEF servoVars
  <2>1. E2
    BY DEF ServoNext, Clock, E0, E1, ServoReset, Release, machine
  <2>. QED
    BY <2>1 DEF E2, ServoInv, ServoTypeOK, PulseInv
<1>. QED
  BY <1>1, ServoInvariance, PTL DEF ServoSpec, PulseFollows

\* The controller implements Pwm: pulses within the servo's range, exactly one
\* per period.
THEOREM ServoImplementation == ServoSpec => DrivesServo
<1>1. ServoInit => Servo!Init
  BY DEF ServoInit, Servo!Init, Off, Servo!Off
<1>2. ServoInv /\ [ServoNext]_servoVars => [Servo!Next]_Servo!pwmVars
  <2> SUFFICES ASSUME ServoInv, ServoNext
               PROVE  Servo!Next \/ UNCHANGED Servo!pwmVars
    BY DEF servoVars, machine, Servo!pwmVars
  <2> USE DEF ServoInv, ServoTypeOK, PulseInv, Level, Off, Servo!Off, Servo!pwmVars
  <2>1. CASE E0
    BY <2>1 DEF E0, Older, Servo!Next, Servo!Hold
  <2>2. CASE E1
    <3>1. CASE counter = 0
      BY <2>2, <3>1 DEF E1, Servo!Next, Servo!Rise
    <3>2. CASE counter > 0
      BY <2>2, <3>2 DEF E1, Asked, Servo!Next, Servo!Hold
    <3>. QED
      BY <3>1, <3>2
  <2>3. CASE E2
    <3>1. CASE commande = 1
      BY <2>3, <3>1 DEF E2, Older, Asked, Servo!Next, Servo!Fall
    <3>2. CASE commande = 0
      BY <2>3, <3>2 DEF E2, Older, Servo!Next, Servo!Hold
    <3>. QED
      BY <3>1, <3>2
  <2>4. CASE ServoReset
    BY <2>4 DEF ServoReset, Servo!Next, Servo!Cut
  <2>5. CASE Release
    BY <2>5 DEF Release, machine
  <2>. QED
    BY <2>1, <2>2, <2>3, <2>4, <2>5 DEF ServoNext, Clock
<1>. QED
  BY <1>1, <1>2, ServoInvariance, PTL DEF ServoSpec, DrivesServo, Servo!Spec
=============================================================================
