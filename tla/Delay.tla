------------------------------- MODULE Delay -------------------------------
(***************************************************************************)
(* usleep: the calibrated loop of alt_busy_sleep.c.  The processor has no  *)
(* timer for it; it counts a register down, LoopsPerUs times for each      *)
(* microsecond, in rounds of IntMax because the count is a 32-bit register.*)
(***************************************************************************)
EXTENDS Integers

CONSTANTS
  LoopsPerUs,   \* ALT_CPU_FREQ / (cycles_per_loop * 1000000)
  LoopMax,      \* INT_MAX
  Requests      \* the delays asked for, in microseconds

ASSUME DelayAssumption ==
  /\ LoopsPerUs \in Nat \ {0}
  /\ LoopMax \in Nat /\ LoopMax >= LoopsPerUs
  /\ Requests \subseteq Nat

VARIABLES
  asked,        \* history: the call's argument
  us,           \* what is left of it
  big_loops,    \* rounds of LoopMax still to go
  looped,       \* history: turns of the loops so far
  sleep_pc

delayVars == <<asked, us, big_loops, looped, sleep_pc>>

PerRound == LoopMax \div LoopsPerUs

DelayInit ==
  /\ asked = 0 /\ us = 0 /\ big_loops = 0 /\ looped = 0
  /\ sleep_pc = "awake"

\* The loop that ends on bne: from zero it counts all the way round.
TurnsToZero(n) == IF n = 0 THEN 2 * (LoopMax + 1) ELSE n

\* The loop that ends on bgt: it is entered once at least.
TurnsWhilePositive(n) == IF n \in 1 .. LoopMax + 1 THEN n ELSE 1

Sleep(request) ==
  /\ sleep_pc = "awake"
  /\ asked' = request /\ us' = request
  /\ big_loops' = request \div PerRound
  /\ looped' = 0
  /\ sleep_pc' = IF big_loops' > 0 THEN "rounds" ELSE "short"

BigRound ==
  /\ sleep_pc = "rounds" /\ big_loops > 0
  /\ looped' = looped + TurnsToZero(LoopMax)
  /\ us' = us - PerRound
  /\ big_loops' = big_loops - 1
  /\ UNCHANGED <<asked, sleep_pc>>

\* The rest, in the register's 32 bits.
Rest ==
  /\ sleep_pc = "rounds" /\ big_loops = 0
  /\ looped' = looped + TurnsToZero((us * LoopsPerUs) % (2 * (LoopMax + 1)))
  /\ sleep_pc' = "awake"
  /\ UNCHANGED <<asked, us, big_loops>>

Short ==
  /\ sleep_pc = "short"
  /\ looped' = TurnsWhilePositive((us * LoopsPerUs) % (2 * (LoopMax + 1)))
  /\ sleep_pc' = "awake"
  /\ UNCHANGED <<asked, us, big_loops>>

DelayNext ==
  \/ \E request \in Requests : Sleep(request)
  \/ BigRound \/ Rest \/ Short

-----------------------------------------------------------------------------
(* Properties *)

\* The delay is the one asked for, to a microsecond and what each round of
\* LoopMax adds to its share: no count overflows the register and no part of the
\* request is dropped or slept twice.  A request that is an exact number of
\* rounds sleeps a whole turn of the register longer.
DelayExact ==
  sleep_pc = "awake" =>
    LET spare == looped - asked * LoopsPerUs
        rounds == asked \div PerRound
        turn == IF rounds > 0 /\ asked % PerRound = 0 THEN 2 * (LoopMax + 1) ELSE 0
    IN spare - turn \in 0 .. LoopsPerUs * (rounds + 1)

\* Why: between two rounds the share of those slept is accounted for.
Slept == asked \div PerRound - big_loops

RoundsInv ==
  /\ asked \in Nat /\ us \in Nat /\ sleep_pc \in {"awake", "rounds", "short"}
  /\ sleep_pc = "rounds" =>
       /\ big_loops \in Nat /\ Slept \in Nat /\ asked \div PerRound > 0
       /\ us + Slept * PerRound = asked /\ looped = Slept * LoopMax
  /\ sleep_pc = "short" => us = asked /\ asked < PerRound
=============================================================================
