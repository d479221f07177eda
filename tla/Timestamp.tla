----------------------------- MODULE Timestamp -----------------------------
(***************************************************************************)
(* The interval timer (DE1_SoC_QSYS_interval_timer.v) behind its registers, *)
(* and the two drivers it may have: the timestamp (altera_avalon_timer_ts.c), *)
(* which lets it run once from full scale, and the system clock            *)
(* (altera_avalon_timer_sc.c), which lets it run over and over and          *)
(* acknowledges each timeout.  Every step is an edge of the clock, with the *)
(* access to a register that falls on it, if any.                          *)
(*                                                                         *)
(* The counter has two halves below Half; the timestamp driver writes and  *)
(* reads them one after the other, and a handler may take a timestamp too. *)
(***************************************************************************)
EXTENDS Integers

CONSTANTS
  Half,          \* 2^16
  ResetPeriod    \* 49999, the period the timer has after a reset

ASSUME TimestampAssumption == Half \in Nat \ {0, 1} /\ ResetPeriod \in 1 .. Half - 1

FullScale == Half * Half - 1

\* The registers, and the bits of the control register.
STATUS == 0
CONTROL == 1
PERIODL == 2
PERIODH == 3
SNAPL == 4
SNAPH == 5

ITO == 1
CONT == 2
START == 4
STOP == 8
Has(register, msk) == (register \div msk) % 2 = 1

VARIABLES
  ts_freq,                  \* altera_avalon_timer_ts_freq is not 0
  sysclk,                   \* the timer is the system clock's
  ts_pc,                    \* where the thread is in the timestamp's driver
  lower,                    \* alt_timestamp's local
  internal_counter, counter_is_running, force_reload, period_l, period_h,
  counter_snapshot, control_register, timeout_occurred,
  was_zero,                 \* delayed_unxcounter_is_zeroxx0
  elapsed,                  \* history: clocks counted since the start,
  started,                  \* there was one,
  rolled,                   \* it has run full period;
  snap_at,                  \* elapsed at the snapshot, -1 before a start,
  low_at, high_at,          \* and at those the thread read the halves of
  stamp,                    \* what alt_timestamp returned last
  waited,                   \* history: clocks the timeout has been waiting for,
  overrun                    \* and had when the first one was missed, else -1

timer == <<internal_counter, counter_is_running, force_reload, period_l,
           period_h, counter_snapshot, control_register, timeout_occurred,
           was_zero>>
stampVars == <<ts_freq, sysclk, ts_pc, lower, timer, elapsed, started, rolled,
               low_at, high_at, snap_at, stamp, waited, overrun>>

StampInit ==
  /\ ts_freq = FALSE /\ sysclk = FALSE /\ ts_pc = "idle" /\ lower = 0
  /\ internal_counter = ResetPeriod
  /\ counter_is_running = FALSE /\ force_reload = FALSE
  /\ period_l = ResetPeriod /\ period_h = 0
  /\ counter_snapshot = 0 /\ control_register = 0
  /\ timeout_occurred = FALSE /\ was_zero = FALSE
  /\ elapsed = 0 /\ started = FALSE /\ rolled = FALSE
  /\ low_at = -1 /\ high_at = -1 /\ snap_at = -1 /\ stamp = 0
  /\ waited = 0 /\ overrun = -1

-----------------------------------------------------------------------------
(* An edge of the clock, with what is written to which register *)

CounterIsZero == internal_counter = 0
Continuous == Has(control_register, CONT)
TimeoutEvent == CounterIsZero /\ ~was_zero
TimerIrq == timeout_occurred /\ Has(control_register, ITO)

Counts(start, stop) ==
  /\ internal_counter' =
       CASE force_reload \/ (counter_is_running /\ CounterIsZero) ->
              period_h * Half + period_l
         [] counter_is_running /\ ~force_reload /\ ~CounterIsZero ->
              internal_counter - 1
         [] OTHER -> internal_counter
  /\ counter_is_running' =
       (\/ start
        \/ /\ counter_is_running
           /\ ~(stop \/ force_reload \/ (CounterIsZero /\ ~Continuous)))

\* A write to the status register wins over a timeout at the same edge.
Flags(acknowledged) ==
  /\ was_zero' = CounterIsZero
  /\ timeout_occurred' = (~acknowledged /\ (timeout_occurred \/ TimeoutEvent))
  /\ waited' = IF sysclk /\ timeout_occurred /\ ~acknowledged /\ ~TimeoutEvent
               THEN waited + 1 ELSE 0
  /\ overrun' = IF sysclk /\ overrun < 0 /\ TimeoutEvent
                  /\ (timeout_occurred \/ acknowledged)
               THEN waited ELSE overrun

Elapses(start, stop) ==
  /\ started' = (start \/ (started /\ ~stop))
  /\ rolled' = (~start /\ (rolled \/ (started /\ CounterIsZero /\ ~sysclk)))
  /\ elapsed' =
       IF start \/ ~started \/ rolled' \/ (sysclk /\ elapsed = ResetPeriod) THEN 0
       ELSE elapsed + 1

TimerEdge(register, writedata) ==
  LET start == register = CONTROL /\ Has(writedata, START)
      stop == register = CONTROL /\ Has(writedata, STOP)
      snap == register \in {SNAPL, SNAPH}
  IN /\ Counts(start, stop)
     /\ Flags(register = STATUS)
     /\ Elapses(start, stop)
     /\ force_reload' = (register \in {PERIODL, PERIODH})
     /\ control_register' = IF register = CONTROL THEN writedata % 16
                                                  ELSE control_register
     /\ period_l' = IF register = PERIODL THEN writedata ELSE period_l
     /\ period_h' = IF register = PERIODH THEN writedata ELSE period_h
     /\ counter_snapshot' = IF snap THEN internal_counter ELSE counter_snapshot
     /\ snap_at' = IF ~snap THEN snap_at ELSE IF started THEN elapsed ELSE -1

NoWrite == TimerEdge(-1, 0)

\* What a read of a register finds.
read_mux_out(register) ==
  CASE register = STATUS -> (IF timeout_occurred THEN 1 ELSE 0)
                              + (IF counter_is_running THEN 2 ELSE 0)
    [] register = CONTROL -> control_register
    [] register = PERIODL -> period_l
    [] register = PERIODH -> period_h
    [] register = SNAPL -> counter_snapshot % Half
    [] register = SNAPH -> counter_snapshot \div Half

Thread == <<ts_freq, sysclk, ts_pc, lower, low_at, high_at, stamp>>

Idling == NoWrite /\ UNCHANGED Thread

\* A handler that interrupts the thread takes a timestamp.
HandlerStamps == ts_freq /\ TimerEdge(SNAPL, 0) /\ UNCHANGED Thread

-----------------------------------------------------------------------------
(* The system clock *)

\* alt_avalon_timer_sc_init: free running, with interrupts.
SysclkInit ==
  /\ ~ts_freq /\ ~sysclk /\ sysclk' = TRUE
  /\ TimerEdge(CONTROL, ITO + CONT + START)
  /\ UNCHANGED <<ts_freq, ts_pc, lower, low_at, high_at, stamp>>

\* alt_avalon_timer_sc_irq: the timeout is acknowledged.
SysclkIrq == sysclk /\ TimerIrq /\ TimerEdge(STATUS, 0) /\ UNCHANGED Thread

-----------------------------------------------------------------------------
(* The timestamp *)

\* ALTERA_AVALON_TIMER_INIT of a system with a timestamp timer
TsInit ==
  /\ ~ts_freq /\ ~sysclk /\ ts_freq' = TRUE
  /\ NoWrite
  /\ UNCHANGED <<sysclk, ts_pc, lower, low_at, high_at, stamp>>

GoesTo(from, to) ==
  /\ ts_freq
  /\ ts_pc = from /\ ts_pc' = to
  /\ UNCHANGED <<ts_freq, sysclk>>

\* Mutant: the high half of the period is left as it was.
StartStep_LowOnly(from, register, writedata, to) ==
  /\ GoesTo(from, to)
  /\ IF register = PERIODH THEN NoWrite ELSE TimerEdge(register, writedata)
  /\ UNCHANGED <<lower, low_at, high_at, stamp>>

StartStep(from, register, writedata, to) ==
  /\ GoesTo(from, to)
  /\ TimerEdge(register, writedata)
  /\ UNCHANGED <<lower, low_at, high_at, stamp>>

\* Without a timestamp timer it returns -1 and writes nothing, as the next does.
alt_timestamp_start ==
  \/ StartStep("idle", CONTROL, STOP, "period_l")
  \/ StartStep("period_l", PERIODL, Half - 1, "period_h")
  \/ StartStep("period_h", PERIODH, Half - 1, "start")
  \/ StartStep("start", CONTROL, START, "idle")

TakeSnapshot ==
  /\ GoesTo("idle", "lower")
  /\ TimerEdge(SNAPL, 0)
  /\ UNCHANGED <<lower, low_at, high_at, stamp>>

ReadLower ==
  /\ GoesTo("lower", "upper")
  /\ lower' = read_mux_out(SNAPL) /\ low_at' = snap_at
  /\ NoWrite
  /\ UNCHANGED <<high_at, stamp>>

ReadUpper ==
  /\ GoesTo("upper", "idle")
  /\ stamp' = FullScale - (read_mux_out(SNAPH) * Half + lower)
  /\ high_at' = snap_at
  /\ NoWrite
  /\ UNCHANGED <<lower, low_at>>

alt_timestamp == TakeSnapshot \/ ReadLower \/ ReadUpper

StampNext ==
  \/ Idling \/ HandlerStamps
  \/ SysclkInit \/ SysclkIrq
  \/ TsInit \/ alt_timestamp_start \/ alt_timestamp

-----------------------------------------------------------------------------
(* Why the properties hold *)

StampTypeOK ==
  /\ ts_freq \in BOOLEAN /\ sysclk \in BOOLEAN /\ started \in BOOLEAN
  /\ rolled \in BOOLEAN /\ counter_is_running \in BOOLEAN /\ force_reload \in BOOLEAN
  /\ timeout_occurred \in BOOLEAN /\ was_zero \in BOOLEAN
  /\ ts_pc \in {"idle", "period_l", "period_h", "start", "lower", "upper"}
  /\ elapsed \in Nat /\ waited \in Nat /\ overrun \in {-1, ResetPeriod}
  /\ snap_at \in Int /\ low_at \in Int /\ high_at \in Int

\* Registers hold what is not negative, and a stamp is a number.
RegistersOK ==
  /\ internal_counter \in Nat /\ period_l \in Nat /\ period_h \in Nat
  /\ counter_snapshot \in Nat /\ control_register \in Nat
  /\ lower \in Nat /\ stamp \in Int

\* The timer serves one driver at most, and is as the reset left it before.
Served ==
  /\ ~(ts_freq /\ sysclk)
  /\ ~ts_freq => /\ ts_pc = "idle" /\ ~force_reload
                 /\ period_h = 0 /\ period_l = ResetPeriod
                 /\ low_at = -1 /\ snap_at = -1
  /\ ~ts_freq /\ ~sysclk => /\ ~started /\ ~timeout_occurred /\ ~was_zero
                            /\ internal_counter = ResetPeriod
  /\ sysclk => started /\ Continuous

\* What the counter is reloaded with.
Period == IF sysclk THEN ResetPeriod ELSE FullScale

\* What alt_timestamp_start has done so far, and the counter from there on.
Counting ==
  /\ ts_pc \in {"period_l", "period_h", "start"} => ~started
  /\ ts_pc \in {"period_h", "start"} => period_l = Half - 1
  /\ ts_pc = "start" => /\ period_h = Half - 1
                        /\ force_reload \/ internal_counter = FullScale
  /\ started => /\ elapsed <= Period /\ internal_counter = Period - elapsed
                /\ counter_is_running <=> ~rolled
                /\ rolled => ~sysclk /\ elapsed = 0
  /\ ~started => ~counter_is_running
  /\ started /\ ~sysclk => /\ ~Continuous /\ ~force_reload
                           /\ period_l = Half - 1 /\ period_h = Half - 1

\* A timeout waits since the counter was reloaded.
Timeouts ==
  sysclk => /\ timeout_occurred => waited = elapsed
            /\ was_zero => elapsed = 0

\* A stamp is put together from halves of the time at low_at and at high_at.
StampBetween ==
  /\ low_at = high_at => stamp = low_at
  /\ low_at <= high_at => stamp >= low_at
  /\ stamp < high_at + Half

\* The thread's two reads are of one run of the counter.
Halves ==
  /\ snap_at >= 0 => snap_at <= FullScale /\ counter_snapshot = FullScale - snap_at
  /\ low_at >= 0 => low_at <= FullScale /\ lower = (FullScale - low_at) % Half
  /\ ts_pc = "lower" /\ snap_at >= 0 => started
  /\ ts_pc = "upper" /\ low_at >= 0 => started /\ snap_at >= 0
  /\ ts_pc # "upper" /\ low_at >= 0 => StampBetween

TimerInv == StampTypeOK /\ Served /\ Counting /\ Timeouts /\ Halves

-----------------------------------------------------------------------------
(* Properties *)

\* From a start on the counter has counted every clock and none twice, whatever
\* reload and stop the writes before it left under way.  As a timestamp timer,
\* once it has run full period it stands at full scale, so that the timestamp is
\* 0 and stays so.  A timestamp is the number of clocks at its snapshot.  Where a
\* handler took one between the two reads, the halves are of different times: the
\* stamp lies between the two times or less than Half ahead of the later.  As the
\* system clock it times out once in ResetPeriod + 1 clocks however late it is
\* acknowledged, and a timeout is missed only if the handler left the one before
\* waiting for a whole period.
TimestampInv ==
  /\ RegistersOK /\ TimerInv
  /\ started => internal_counter = (IF sysclk THEN ResetPeriod ELSE FullScale) - elapsed
  /\ started => counter_is_running = ~rolled
  /\ ts_pc = "idle" /\ low_at >= 0 => StampBetween
  /\ sysclk => overrun \in {-1, ResetPeriod}
=============================================================================
