----------------------------- MODULE TimeOfDay -----------------------------
(***************************************************************************)
(* The wall clock: settimeofday (alt_settod.c) stores what the time was    *)
(* when the tick counter was zero, gettimeofday (alt_gettod.c) adds the    *)
(* ticks to it.  Times are pairs of seconds and microseconds.              *)
(***************************************************************************)
EXTENDS Integers

CONSTANTS
  US,         \* ALT_US, microseconds in a second
  TickRate,   \* ticks in a second, once the system clock runs
  Word32,     \* 2^32: an alt_u32 keeps its low bits
  MaxTicks,   \* bound: ticks the counter goes to
  Times       \* the times the clock is set to

ASSUME TimeAssumption ==
  /\ US \in Nat \ {0} /\ TickRate \in Nat \ {0} /\ TickRate <= US
  /\ Word32 \in Nat \ {0}
  /\ MaxTicks \in 0 .. Word32 - 1
  /\ \A t \in Times : t.sec \in Nat /\ t.usec \in 0 .. US - 1

VARIABLES
  nticks, tick_rate,    \* alt_nticks(), alt_ticks_per_second()
  alt_resettime,
  set                   \* history: the time last set, and the ticks then

timeVars == <<nticks, tick_rate, alt_resettime, set>>

Time(sec, usec) == [sec |-> sec, usec |-> usec]
Zero == Time(0, 0)

TimeInit ==
  /\ nticks = 0 /\ tick_rate = 0
  /\ alt_resettime = Zero
  /\ set = [time |-> Zero, ticks |-> 0]

\* alt_sysclk_init
StartClock ==
  /\ tick_rate = 0
  /\ tick_rate' = TickRate
  /\ UNCHANGED <<nticks, alt_resettime, set>>

ClockTick ==
  /\ tick_rate # 0
  /\ nticks < MaxTicks
  /\ nticks' = nticks + 1
  /\ UNCHANGED <<tick_rate, alt_resettime, set>>

UsPerTick == US \div TickRate

\* alt_settimeofday: the product is taken in 32 bits.  Without a clock it fails
\* and changes nothing.
SetTimeOfDay(t) ==
  /\ tick_rate # 0
  /\ alt_resettime' =
       Time(t.sec - nticks \div tick_rate,
            t.usec - (((nticks * UsPerTick) % Word32) % US))
  /\ set' = [time |-> t, ticks |-> nticks]
  /\ UNCHANGED <<nticks, tick_rate>>

\* The two loops of alt_gettimeofday, which here take one turn at most.
Normal(t) ==
  IF t.usec < 0
    THEN IF t.sec <= 0 THEN Zero ELSE Time(t.sec - 1, t.usec + US)
    ELSE IF t.usec >= US THEN Time(t.sec + 1, t.usec - US) ELSE t

\* alt_gettimeofday: the product is taken in 64 bits.
GetTimeOfDay ==
  Normal(Time(alt_resettime.sec + nticks \div tick_rate,
              alt_resettime.usec + ((nticks * UsPerTick) % US)))

\* times(): the ticks since the start, or an error where there is no clock.
ALT_TIMES ==
  IF tick_rate = 0 THEN [value |-> 0, errno |-> "ENOSYS"]
                   ELSE [value |-> nticks, errno |-> "none"]

TimeNext == StartClock \/ ClockTick \/ \E t \in Times : SetTimeOfDay(t)

TimeSpec == TimeInit /\ [][TimeNext]_timeVars

-----------------------------------------------------------------------------
(* Properties *)

\* What the clock should show: the time it was set to and the time since, as
\* times() counts it.
Elapsed == (ALT_TIMES.value - set.ticks) * UsPerTick
Shown ==
  LET us == set.time.usec + Elapsed
  IN Time(set.time.sec + us \div US, us % US)

\* Once set, the clock goes on from the time it was given, tick by tick, with
\* no jump where the microseconds run over or are borrowed; provided that it
\* was set before the tick counter reached Word32 / UsPerTick.
ClockFollows ==
  tick_rate # 0 /\ set.ticks * UsPerTick < Word32 => GetTimeOfDay = Shown

\* What the comment on settimeofday says: "an immediate call to gettimeofday()
\* would return the value specified by t".
SetThenGet == tick_rate # 0 /\ nticks = set.ticks => GetTimeOfDay = set.time

\* Why: what settimeofday stores is what the time was when the counter was zero.
ResetInv ==
  /\ tick_rate \in {0, TickRate} /\ nticks \in 0 .. MaxTicks
  /\ set.ticks \in 0 .. nticks /\ set.time.sec \in Nat /\ set.time.usec \in 0 .. US - 1
  /\ set.ticks * UsPerTick < Word32 =>
       alt_resettime = Time(set.time.sec - set.ticks \div TickRate,
                            set.time.usec - ((set.ticks * UsPerTick) % US))

\* A tick is a whole number of microseconds, as it is at this system's 1000 ticks
\* in a second; at another rate the microseconds would not meet the seconds.
WholeTicks == US % TickRate = 0
=============================================================================
