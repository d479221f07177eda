------------------------------ MODULE Library ------------------------------
(***************************************************************************)
(* The parts that keep state of their own and share none, of the HAL's     *)
(* library and, with the ADC controller, of the hardware: a behaviour      *)
(* exercises one of them, and the others stay as they started.             *)
(***************************************************************************)
EXTENDS Heap, DeviceNames, Caches, TimeOfDay, Delay,
        Timestamp, Profile, Exceptions, Printing, Polled,
        Process, SystemMap, Adc

VARIABLE part   \* the part this behaviour exercises

Parts ==
  {"heap", "names", "data", "code", "time", "delay", "timestamp", "profile",
   "exceptions", "printing", "polled", "process", "map", "adc"}

Init ==
  /\ part \in Parts
  /\ HeapInit /\ NamesInit /\ CachesInit /\ TimeInit /\ DelayInit
  /\ StampInit /\ ProfileInit /\ ExcInit /\ PrintInit /\ PolledInit
  /\ ProcessInit /\ MapInit /\ AdcInit
  /\ part # "printing" => level = 0

Next ==
  /\ UNCHANGED part
  /\ IF part = "heap" THEN HeapNext ELSE UNCHANGED heapVars
  /\ IF part = "names" THEN NamesNext ELSE UNCHANGED namesVars
  /\ IF part = "data" THEN DataNext ELSE UNCHANGED dataVars
  /\ IF part = "code" THEN CodeNext ELSE UNCHANGED codeVars
  /\ IF part = "time" THEN TimeNext ELSE UNCHANGED timeVars
  /\ IF part = "delay" THEN DelayNext ELSE UNCHANGED delayVars
  /\ IF part = "timestamp" THEN StampNext ELSE UNCHANGED stampVars
  /\ IF part = "profile" THEN ProfileNext ELSE UNCHANGED profileVars
  /\ IF part = "exceptions" THEN ExcNext ELSE UNCHANGED excVars
  /\ IF part = "printing" THEN PrintNext ELSE UNCHANGED printVars
  /\ IF part = "polled" THEN PolledNext ELSE UNCHANGED polledVars
  /\ IF part = "process" THEN ProcessNext ELSE UNCHANGED processVars
  /\ IF part = "map" THEN MapNext ELSE UNCHANGED mapVars
  /\ IF part = "adc" THEN AdcNext ELSE UNCHANGED adcVars

libraryVars ==
  <<part, heapVars, namesVars, cacheVars, timeVars, delayVars, stampVars, profileVars,
    excVars, printVars, polledVars, processVars, mapVars, adcVars>>

Spec == Init /\ [][Next]_libraryVars

\* The two clocks a program reads: the time of day (alt_gettod.c) goes on from
\* what it was set to, and a timestamp (altera_avalon_timer_ts.c) is the number
\* of clocks since the start, torn or not.  A delay (alt_busy_sleep.c) takes the
\* turns its rounds and its rest ask for.
TimeInv ==
  /\ ResetInv /\ ClockFollows
  /\ TimestampInv
  /\ RoundsInv /\ DelayExact

\* Memory and registers as the program sees them: through the caches it finds
\* what was stored (alt_dcache_flush.c and its like), and an address of system.h
\* is the device that it names.
MemoryInv == CachesInv /\ MapInv

\* What the library reports: the text it prints reads back to what was passed
\* (alt_printf.c, alt_log_printf.c), and the calls its profiler counts are those
\* that were made (alt_gmon.c, alt_mcount.S).
ReportInv == PrintsRight /\ ProfileInv
=============================================================================
