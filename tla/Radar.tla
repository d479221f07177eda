------------------------------- MODULE Radar -------------------------------
(***************************************************************************)
(* The radar: the loop of radar() in main.c, which sweeps the servo, reads *)
(* the telemeter, prints the pair and shows the distance, while the        *)
(* telemeter goes through its own cycle (Ranging, which Telemetre          *)
(* implements), never in step with the loop.  main() calls one of three    *)
(* such loops: telemetre_us() shows the distance and leaves the servo      *)
(* alone, servomoteur() sweeps and shows the angle.                        *)
(*                                                                         *)
(* Time advances by ticks of a common unit.  The processor's own work      *)
(* takes any time, printing in particular; usleep takes the ticks it is    *)
(* asked for.  The servo is taken to follow the position register.         *)
(***************************************************************************)
EXTENDS Ranging, SevenSegment

CONSTANTS
  LastAngle, Increment,  \* 180 and increment
  PosMax,                \* 1023
  Delay, Pause,          \* delay and 300000, in ticks
  MaxGap, MaxFlight,     \* most ticks between triggers, and up to a reading
  Apps,                  \* the loops main() may have been compiled to call
  Resets                 \* TRUE if KEY(0) may be pressed

ASSUME SweepAssumption ==
  /\ LastAngle \in Nat \ {0} /\ Increment \in Nat \ {0} /\ PosMax \in Nat
  /\ Delay \in Nat \ {0} /\ Pause \in Nat
  /\ Apps \subseteq {"radar", "telemetre_us", "servomoteur"}
  /\ Resets \in BOOLEAN

ASSUME RangingAssumption ==
  /\ Gap \in Nat /\ MaxGap \in Nat /\ Gap <= MaxGap /\ MaxGap <= Cap
  /\ MaxFlight \in 1 .. MaxGap - 1
  /\ Cap \in Nat
  /\ Readings \subseteq Nat

VARIABLES
  app,              \* the loop main() calls
  pc, i, wait,      \* where it is, the angle, ticks left to sleep
  distance,         \* distance
  k, num,           \* printNumHex: i and num
  position,         \* the servo's position register
  s,                \* the registers of the six displays
  aim,              \* history: the position when the last trigger went out
  subject           \* history: the position that reading is about

telemeter == <<phase, since, reading, aim, subject>>
program == <<app, pc, i, wait, distance, k, num>>
vars == <<telemeter, program, position, s>>

\* Nobody can tell what the reading is about.
Unknown == -1

Position(angle) == (angle * PosMax) \div LastAngle

RadarInit ==
  /\ Init
  /\ app \in Apps
  /\ pc = "start" /\ i = 0 /\ wait = 0 /\ distance = 0 /\ k = 0 /\ num = 0
  /\ position = 0 /\ s = Cleared
  /\ aim = Unknown /\ subject = Unknown

-----------------------------------------------------------------------------
(* A tick of time: the telemeter's step, and the sleeping processor's.     *)

Elapse ==
  /\ wait' = IF wait = 0 THEN 0 ELSE wait - 1
  /\ UNCHANGED <<app, pc, i, distance, k, num, position, s>>

Ping ==
  /\ Trigger /\ Elapse
  /\ aim' = position
  /\ UNCHANGED subject

Pong ==
  /\ since < MaxGap
  /\ Result /\ Elapse
  /\ subject' = aim
  /\ UNCHANGED aim

\* The sensor answers in time, so the telemeter keeps its cycle.
Idle ==
  /\ since < (IF phase = "flight" THEN MaxFlight - 1 ELSE MaxGap)
  /\ Wait /\ Elapse
  /\ UNCHANGED <<aim, subject>>

Noise ==
  /\ since < MaxGap
  /\ Garble /\ Elapse
  /\ subject' = Unknown
  /\ UNCHANGED aim

Tick == Ping \/ Pong \/ Idle \/ Noise

-----------------------------------------------------------------------------
(* main() and radar()                                                      *)

Hello ==
  /\ pc = "start"
  /\ pc' = IF app = "telemetre_us" THEN "read" ELSE "point"
  /\ i' = 0
  /\ UNCHANGED <<app, wait, distance, k, num, position, s, telemeter>>

\* IOWR(AVALON_SERVOMOTEUR_0_BASE, 0, i*1023/180); usleep(delay)
Point ==
  /\ app = "radar" /\ pc = "point"
  /\ position' = Position(i)
  /\ wait' = Delay
  /\ pc' = "sleep"
  /\ UNCHANGED <<app, i, distance, k, num, s, telemeter>>

\* Mutant: the reading is taken without the usleep.
Read_NoSleep ==
  /\ pc = "sleep"
  /\ distance' = reading
  /\ wait' = 0
  /\ pc' = "print"
  /\ UNCHANGED <<app, i, k, num, position, s, telemeter>>

\* servomoteur(): the same write, then printNumHex(i).
PointAndShow ==
  /\ app = "servomoteur" /\ pc = "point"
  /\ position' = Position(i)
  /\ num' = i /\ k' = 0
  /\ pc' = "digits"
  /\ UNCHANGED <<app, i, wait, distance, s, telemeter>>

\* and usleep(delay) when the angle is shown; it is printed before the next.
AngleShown ==
  /\ app = "servomoteur" /\ pc = "digits" /\ k = 6
  /\ wait' = Delay
  /\ pc' = "shown"
  /\ UNCHANGED <<app, i, distance, k, num, position, s, telemeter>>

\* telemetre_us(): the next reading at once.
ReadAtOnce ==
  /\ pc = "read"
  /\ distance' = reading
  /\ pc' = "print"
  /\ UNCHANGED <<app, i, wait, k, num, position, s, telemeter>>

ReadingShown ==
  /\ app = "telemetre_us" /\ pc = "digits" /\ k = 6
  /\ pc' = "read"
  /\ UNCHANGED <<app, i, wait, distance, k, num, position, s, telemeter>>

\* distance = IORD(AVALON_TELEMETRE_US_0_BASE, 0)
Read ==
  /\ pc = "sleep" /\ wait = 0
  /\ distance' = reading
  /\ pc' = "print"
  /\ UNCHANGED <<app, i, wait, k, num, position, s, telemeter>>

\* The pair goes to stdout, printNumHex is called.
PrintPair ==
  /\ pc = "print"
  /\ num' = distance /\ k' = 0
  /\ pc' = "digits"
  /\ UNCHANGED <<app, i, wait, distance, position, s, telemeter>>

\* Mutant: num /= 10 comes before the write.
Digit_DividesFirst ==
  /\ pc = "digits" /\ k < 6
  /\ s' = Latch(s, k, Word((num \div 10) % 10))
  /\ num' = num \div 10
  /\ k' = k + 1
  /\ UNCHANGED <<app, pc, i, wait, distance, position, telemeter>>

\* One turn of the loop of printNumHex: register number i, which is the
\* address of display i.
Digit ==
  /\ pc = "digits" /\ k < 6
  /\ s' = Latch(s, k, Word(num % 10))
  /\ num' = num \div 10
  /\ k' = k + 1
  /\ UNCHANGED <<app, pc, i, wait, distance, position, telemeter>>

\* i += increment, and the test of the for.
NextAngle ==
  /\ \/ app = "radar" /\ pc = "digits" /\ k = 6
     \/ pc = "shown" /\ wait = 0
  /\ i' = i + Increment
  /\ pc' = IF i' <= LastAngle THEN "point" ELSE "home"
  /\ UNCHANGED <<app, wait, distance, k, num, position, s, telemeter>>

\* Mutant: the servo goes home, and the next sweep starts at once.
Home_NoPause ==
  /\ pc = "home"
  /\ position' = 0
  /\ wait' = 0
  /\ pc' = "pause"
  /\ UNCHANGED <<app, i, distance, k, num, s, telemeter>>

\* IOWR(AVALON_SERVOMOTEUR_0_BASE, 0, 0); usleep(300000)
Home ==
  /\ pc = "home"
  /\ position' = 0
  /\ wait' = Pause
  /\ pc' = "pause"
  /\ UNCHANGED <<app, i, distance, k, num, s, telemeter>>

Restart ==
  /\ pc = "pause" /\ wait = 0
  /\ i' = 0
  /\ pc' = "point"
  /\ UNCHANGED <<app, wait, distance, k, num, position, s, telemeter>>

\* KEY(0) resets the processor and every peripheral; dist_cm keeps the reading
\* of the sweep before.
Reset ==
  /\ Resets
  /\ Abort
  /\ pc' = "start" /\ i' = 0 /\ wait' = 0 /\ distance' = 0 /\ k' = 0 /\ num' = 0
  /\ position' = 0 /\ s' = Cleared
  /\ aim' = Unknown /\ subject' = Unknown
  /\ UNCHANGED app

Processor == Hello \/ Point \/ Read \/ PrintPair \/ Digit \/ NextAngle
             \/ Home \/ Restart
             \/ PointAndShow \/ AngleShown \/ ReadAtOnce \/ ReadingShown

RadarNext == Tick \/ Processor \/ Reset

RadarSpec == RadarInit /\ [][RadarNext]_vars

-----------------------------------------------------------------------------
(* Properties *)

TypeOK ==
  /\ phase \in {"flight", "rest", "lost"}
  /\ since \in 0 .. Cap
  /\ reading \in Readings \union {0}
  /\ pc \in {"start", "read", "point", "sleep", "print", "digits", "shown", "home",
            "pause"}
  /\ app \in Apps
  /\ i \in 0 .. LastAngle + Increment
  /\ wait \in 0 .. (IF Delay > Pause THEN Delay ELSE Pause)
  /\ distance \in Readings \union {0}
  /\ k \in 0 .. 6 /\ num \in Nat
  /\ position \in 0 .. PosMax
  /\ s \in [Digits -> Pattern]
  /\ aim \in {Unknown} \union 0 .. PosMax
  /\ subject \in {Unknown} \union 0 .. PosMax

Reading == pc = "sleep" /\ pc' = "print" /\ subject # Unknown

\* The distance printed beside an angle was never measured beyond it: what the
\* telemeter saw at the far end of a sweep, or on the way back, is gone when
\* the next sweep reads its first angle, although nothing ties the telemeter's
\* cycle to the loop (the pause outlasts a whole cycle and a flight).
NeverAhead == [][Reading => subject <= position]_vars

\* How far the distance lags behind the angle it is printed with: the steps
\* that fit in one cycle of the telemeter and one flight, and no more.
Lag == (MaxGap + MaxFlight) \div Delay

\* The angle m steps before
Back(m) == IF i > m * Increment THEN i - m * Increment ELSE 0

BoundedLag == [][Reading => subject >= Position(Back(Lag))]_vars

\* When printNumHex is done the six displays show the printed distance, or the
\* angle the servo was sent to, which is also what they go on showing while the
\* servo moves home.
DisplayShowsNumber ==
  LET done == pc = "digits" /\ k = 6
      home == pc \in {"home", "pause"}
  IN /\ app # "servomoteur" /\ (done \/ home) => Shows(s, distance)
     /\ app = "servomoteur" /\ (done \/ pc = "shown") =>
          Shows(s, i) /\ position = Position(i)
     /\ app = "servomoteur" /\ home => Shows(s, i - Increment)

-----------------------------------------------------------------------------
(* Why they hold: what the program knows of the telemeter's cycle          *)

Sweeping == {"point", "sleep", "print", "digits"}

\* Each loop has its places, and the register follows the angle.
Places ==
  /\ pc \in {"sleep", "shown", "home", "pause"} => app # "telemetre_us"
  /\ pc = "sleep" => app = "radar"
  /\ pc \notin {"home", "pause"} => i <= LastAngle
  /\ app = "radar" =>
       /\ pc \notin {"read", "shown"}
       /\ pc \in Sweeping \ {"point"} => position = Position(i)
       /\ pc = "point" => Position(Back(1)) <= position /\ position <= Position(i)
       /\ pc \in {"start", "pause"} => position = 0
       /\ pc = "sleep" => wait <= Delay
       /\ pc \notin {"sleep", "pause"} => wait = 0

\* A flight ends in time, and no trigger is late.  While the telemeter has lost
\* track of the sensor no reading is about anything.
Cycle ==
  /\ since <= MaxGap
  /\ phase = "flight" => since < MaxFlight /\ aim # Unknown
  /\ phase = "rest" => aim # Unknown /\ subject = aim
  /\ phase = "lost" => subject = Unknown

\* Ticks, at least, since the angle i was written to the register
Held == CASE pc = "point" -> 0 [] pc = "sleep" -> Delay - wait [] OTHER -> Delay

\* x was the register's value within the last a ticks.
NotBefore(x, a) ==
  \A m \in 0 .. Lag : a < Held + m * Delay => Position(Back(m)) <= x

\* The age of the last trigger is since.  The reading shown during a flight is of
\* the trigger before, at most a whole cycle older.
LagInv ==
  app = "radar" /\ pc \in Sweeping =>
    /\ phase # "lost" => NotBefore(aim, since)
    /\ phase = "flight" /\ subject # Unknown => NotBefore(subject, since + MaxGap + 1)

IInv == TypeOK /\ Places /\ Cycle /\ LagInv

\* The pause of the code outlasts a cycle and a flight.
PauseOutlasts == MaxGap + MaxFlight < Pause + Delay

\* Ticks, at least, before the first reading of a sweep
Ahead ==
  CASE pc = "pause" -> wait + Delay
    [] pc = "point" /\ i = 0 -> Delay
    [] pc = "sleep" /\ i = 0 -> wait
    [] OTHER -> 0

\* What is left of the sweep before is replaced by then.
AheadInv ==
  app = "radar" =>
    /\ phase # "lost" /\ aim > position => MaxGap + MaxFlight < Ahead + since
    /\ phase = "flight" /\ subject > position => MaxFlight <= Ahead + since

\* The number that the displays are written from
Shown == IF app = "servomoteur" THEN i ELSE distance

\* Turn k of printNumHex has written the lowest k digits, and num is what is left.
Displaying ==
  /\ pc = "read" => app = "telemetre_us"
  /\ pc = "print" => app # "servomoteur"
  /\ pc = "digits" =>
       /\ num = Shown \div Weight[k + 1]
       /\ \A d \in Digits : d < k => Draws(s[d], Shown, d)
  /\ app = "servomoteur" /\ pc \in {"digits", "shown"} => position = Position(i)

\* The registers and counters keep their types, a cut distance included, readings
\* are replaced in time, and the displays are not left behind by any of the three
\* loops.
RadarInv ==
  /\ IInv /\ (PauseOutlasts => AheadInv)
  /\ Displaying /\ DisplayShowsNumber
=============================================================================
