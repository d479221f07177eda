# A model of the FPGA 2D radar

The repository is a small radar for the DE1-SoC board: a servomotor sweeps an
HC-SR04 ultrasonic sensor over 180 degrees, and for each degree the distance in
centimetres is printed on the JTAG console and shown on the six seven-segment
displays.  The sensor and the servo are driven by VHDL state machines, which a
Nios II program (`src/software/test/main.c`) reads and writes over Avalon.  The
program runs on Altera's HAL (`src/software/test_bsp`), which is compiled from
the sources beside it: interrupts, system clock, file descriptors, an
interrupt-driven JTAG UART driver, and a library of smaller parts.

This directory holds TLA+ modules of these parts, TLC configurations that check
them on small instances, and TLAPS proofs about most of them that hold for every
duration, sensor, counter width, buffer, table and heap.

Contents: [components](#components), [what is hard](#what-is-hard-and-what-must-hold),
[modules](#modules), [runs](#runs-and-bounds), [fairness](#fairness),
[proofs](#proofs), [findings](#findings), [also seen](#also-seen),
[not modelled](#not-modelled), [plan](#plan).

## Components

| component | code | state it keeps | operations | talks to |
|---|---|---|---|---|
| ultrasonic telemeter | `src/designs/TELEMETRE_US.vhd` | State, counter1, counter2, two synchronizer stages of echo, trig, dist_cm | one rising edge in each of E0..E5, asynchronous reset | the sensor by trig and echo; its reader by dist_cm |
| telemeter wrapper | `src/designs/Telemetre_us_Avalon.vhd` | none of its own | bus read | telemeter, processor |
| servo controller and wrapper | `src/designs/servomoteur.vhd`, `servomoteur_Avalon.vhd` | State, counter, Active_ticks, commande; i_position | one rising edge in each of E0..E2, bus write, reset | servo by commande; processor |
| seven-segment peripheral | `src/designs/avalon_seven_segment.vhd` | six registers s0..s5 | bus write with or without decoder, reset | processor, displays |
| radar program | `software/test/main.c` | locals of radar(), telemetre_us() or servomoteur(), and of printNumHex() | point, sleep, read, print, show, next angle, home | every peripheral; the console |
| JTAG UART driver and core | `drivers/src/altera_avalon_jtag_uart_*.c`, `DE1_SoC_QSYS_jtag_uart.v` | tx and rx circular buffers, irq_enable, host_inactive, timeout; two FIFOs and the control register | write, read, close, ioctl; interrupt routine; one-second alarm; the small polled driver | program, system clock, host |
| system clock, alarms | `HAL/src/alt_tick.c`, `alt_alarm_start.c`, `sys/alt_llist.h`, `altera_avalon_timer_sc.c` | ring of alarms, tick count, time and rollover flag of each alarm | start, stop, tick, callbacks | timer interrupt, JTAG UART |
| interval timer and timestamp | `DE1_SoC_QSYS_interval_timer.v`, `altera_avalon_timer_ts.c` | counter, period, snapshot, control, timeout flag | write a register, count, reload, acknowledge; start and read a timestamp | system clock, program |
| interrupt dispatch | `HAL/src/alt_irq_handler.c`, `alt_irq_entry.S`, `alt_iic*.c`, `priv/alt_legacy_irq.h` | table of handlers, active mask, enabled interrupts, PIE, stack of saved masks | register, enable, disable, critical sections, dispatch, interruptible handlers | drivers |
| file descriptors | `HAL/src/alt_get_fd.c`, `alt_open.c`, `alt_fd_lock.c`, ... | alt_fd_list with its flags, alt_max_fd | open, close, TIOCEXCL, TIOCNXCL, redirect | program, drivers |
| calls on descriptors | `HAL/src/alt_read.c`, `alt_write.c`, `alt_fcntl.c`, ... | access mode and options of each descriptor | read, write, lseek, fstat, isatty, fcntl | descriptors, drivers |
| names | `HAL/src/alt_find_dev.c`, `alt_find_file.c` | lists of devices and file systems | register, search | open |
| heap | `HAL/src/alt_sbrk.c` | heap_end | sbrk | malloc, handlers |
| caches | `HAL/src/alt_dcache_flush*.c`, `alt_icache_flush*.c`, `alt_uncached_*.c` | lines of both caches, uncached blocks | load, store, flush, allocate and free uncached memory | program, memory |
| wall clock | `HAL/src/alt_settod.c`, `alt_gettod.c`, `alt_times.c` | the time of tick zero | set, get, times | system clock |
| busy-wait delay | `HAL/src/alt_busy_sleep.c`, `alt_usleep.c` | a register | usleep | program |
| start-up and exit | `HAL/src/alt_main.c`, `alt_sys_init.c`, `alt_exit.c`, `alt_kill.c`, ... | list of constructors and destructors, exit code | constructors, main, exit, signals, stat | everything |
| instruction exceptions | `HAL/src/alt_exception_entry.S`, `alt_instruction_exception_entry.c` | exception frames, the registered handler | entry, test for an interrupt, handler, exit | program, dispatch |
| profiler | `HAL/src/alt_mcount.S`, `alt_gmon.c` | hashed lists of functions and arcs, histogram | mcount, record, sample | alarms, sbrk |
| printing and debugging log | `HAL/src/alt_printf.c`, `alt_log_printf.c` | put buffer, heartbeat counters | print, echo a write, report, heartbeat | JTAG UART |
| direct drivers | `HAL/inc/sys/alt_driver.h`, `alt_getchar.c`, `alt_putchar.c`, `alt_putstr.c` | none | read, write, getchar, putchar, putstr without descriptors | JTAG UART |
| ADC controller | `ip/ADC_LTC2308_FIFO/*.v` | command, FIFO, two clock domains | start, number, read | unused by the radar program |
| Qsys system | `DE1_SoC_QSYS` | none | routes accesses and interrupts | all |
| toplevels, other vendor drivers | `src/toplevels/*.vhd`; sysid, DMA, flash | none | wiring, lookups | all |

## What is hard, and what must hold

The names in parentheses are definitions of the modules.

* **Telemeter.**  The echo line is asynchronous and reaches the machine two
  edges late; trig, dist_cm and the synchronizer are *not* in the reset branch;
  counter2 is not cleared between the echo (E3) and the cooldown (E5); E2 and E3
  wait without a timeout; the product overflows 32 bits and the quotient is cut
  to ten.  Must hold: no old sample is taken for an echo (`NoStaleEcho`, part of
  `IInv`), the count is the echo's length to the edge (`MeasureExact`) and never
  more (`NeverLong`, a theorem), a reset never produces a trigger pulse that is
  too short (`TriggerWide`), triggers are spaced (`TriggerSpaced`), the reading is
  the converted length (`ReadingFaithful`), measuring never stops unless a fault
  took away the echo that E2 waits for (`KeepsRanging`).
* **Servo.**  The processor may write the position in the middle of a pulse, and
  counter is compared with the width of the previous edge.  Must hold: each pulse
  follows what was asked for *during it* (`PulseFollows`), pulses stay in the
  servo's range and period (`DrivesServo`), the last position gets there
  (`SettlesOnPosition`).
* **Radar.**  Nothing ties the telemeter's cycle to the loop: the program reads
  whatever was finished last.  Must hold: the distance printed beside an angle
  belongs to the same sweep (`NeverAhead`) and lags by a bounded number of steps
  (`BoundedLag`); the displays, written digit by digit, end up showing the
  printed distance, or in the loop servomoteur() the angle (`RadarInv`).
* **JTAG UART.**  The interrupt routine preempts the thread between any two
  accesses; both update irq_enable; the thread works with stale copies of the
  indices; characters arrive while the read FIFO is drained; a blocking call
  races with a host that leaves.  Must hold: no character lost, doubled or
  reordered in either direction (`Streams`), the write FIFO never overflows
  (`JtagInv`), no interrupt left off with work to do (`NothingLost`), calls return
  (`CallsReturn`), all output gets out (`AllDelivered`).
* **Alarms.**  alt_tick walks the list while the callbacks it calls insert and
  remove alarms; the tick counter and the alarms' times wrap, and a flag per alarm
  says on which side of the wrap its time is.  Must hold: the list stays a ring
  and the walk on it (`IInv`), every alarm goes off at its tick and not before or
  after (`KeepsTime`), a walk ends unless a callback stops the alarm that alt_tick
  has put down as next (`TickReturns`), an alarm that nobody stops goes off
  (`GoesOff`).
* **Interrupts.**  A handler may let itself be interrupted by those of higher
  priority, which changes the mask of all; registrations change it too; the
  search for a pending bit has no end but finding one; the timer's timeout is
  acknowledged before it is counted.
  Must hold: each handler finds the masks it left and every enabled interrupt has
  one (`IInv`), a tick is neither lost nor counted twice (`TicksKept`), an enabled
  interrupt is served (`Served`).
* **File descriptors.**  Opens fail after the descriptor was allocated; loops
  depend on a high water mark; a descriptor is used again with what its last
  holder left.  Must hold: nothing leaks (`IInv`), a locked device is opened by
  nobody else (`KeepsOthersOut`), nor locked twice (`SoleLock`), a call reaches the
  driver its holder opened with the access it asked for (`CallsInv`,
  `AccessAsAsked`).
* **The library.**  sbrk is interrupted by handlers that call it (`HeapInv`);
  a mount point is a prefix of other names, and the search reads past the end of
  the path (`OpensItsOwner`); flushes begin and end anywhere in a line, and blocks
  share lines with cached data, while the addresses the program uses come from
  another generation of the system than the hardware (`MemoryInv`); counts, clocks
  and halves of registers overflow, and are read torn (`TimeInv`); the profiler's
  lists grow under the thread that walks them, and printing has widths, signs and
  buffers to get right (`ReportInv`); interrupts become pending beside exceptions, and
  handlers raise exceptions (`ExceptionsInv`); handlers print between a test for room
  and its use (`PolledInv`); destructors that print after standard output
  was closed (`ProcessInv`); a start that crosses clock domains in the middle of a
  measure (`AdcInv`).

PROJECT.json lists the hazards at their lines, with the properties that watch
them.  Not in that list: `telemetre_servomoteur_top.vhd:35` takes the low eight
bits of the distance for the position, so that beyond 255 cm the servo jumps
back; an alarm that is started twice is inserted twice (`alt_alarm_start.c:98`),
which `Alarms` excludes by a guard and the profiler can do (see
[findings](#findings)); host_inactive and timeout are not
volatile (`altera_avalon_jtag_uart.h:99`), which only an optimising build would
notice.

## Modules

| module | role |
|---|---|
| `Telemetre` | the telemeter facing its sensor |
| `Ranging` | abstract: what the telemeter promises to its reader; `Telemetre` implements it (`ServesReader`), `Radar` extends it |
| `Servomoteur` | the servo controller behind its position register |
| `Pwm` | abstract: the command line a servo needs; `Servomoteur` implements it (`DrivesServo`) |
| `SevenSegment` | the display registers and the words written to them, as operators |
| `Radar` | composition: main.c, the position register, the displays, `Ranging` |
| `JtagUart` | driver, interrupt routine, alarm, core and host |
| `Alarms` | the system clock: list, tick counter, walk and callbacks |
| `Countdown` | abstract: ticks left of each alarm; `Alarms` implements it (`KeepsTime`) |
| `Interrupts` | controller, registration, exception entry, dispatch loop, nesting, the timer's timeouts, start-up |
| `FdTable` | the file descriptors and the lock of TIOCEXCL |
| `FileCalls` | composition: the calls on a descriptor over `FdTable`, whose specification it implements (`ImplementsPool`, proved) |
| `Library` | composition: the thirteen parts below side by side, and what is promised of them together |
| `Heap`, `DeviceNames`, `Caches`, `TimeOfDay`, `Delay`, `Timestamp`, `Profile`, `Exceptions`, `Printing`, `Polled`, `Process`, `SystemMap`, `Adc` | one part each of the library and the hardware, that shares no state with the others |
| `*_proofs` | the theorems of the module they are named after; `FileCalls_proofs` has those of `FdTable` too, `Radar_proofs` those of `Servomoteur`, `Library_proofs` those of the library's parts, and `Reports_proofs` those of `Profile` and `Printing` |
| `MC*` | the same, with the constants of the .cfg |

**Telemetre.**  One action per rising edge and state of the machine, each with
the whole edge in it: the synchronizer shifts (`Edge`) and the branch of the
CASE runs on the values before the edge.  `EchoRise` and `EchoFall` are the
sensor of the testbench, which may move the line between any two edges;
`Miss` is a sensor that does not notice a trigger.  `Reset` is asynchronous and
`EdgeInReset` lets edges pass while it is held.  `age`, `width` and `disturbed`
are history: edges since trig rose, edges that sampled the echo high, and
whether a reset interfered with the current cycle.  `disturbed` ends at the
first trigger that finds the sensor idle.  The registers without a reset start
at an arbitrary level of `PowerUp`.

**Servomoteur.**  The wrapper's write is part of every edge (`Edge`: the register
keeps its value or latches a word's low bits), so that a write can fall on any
edge of any pulse.  `lo` and `hi` are history: the least and greatest width asked
for since the pulse began.

**Radar.**  A tick of time is a step of the telemeter (`Ping`, `Pong`, `Idle`,
`Noise`: the actions of `Ranging` with an upper bound on how long they wait) and
of a sleeping processor; the processor's own work takes any number of ticks.
`app` is which of the three loops main was built with.  `aim` is the position when
the last trigger went out, `subject` the position the reading is about.  The
sensor answers in time and the servo is taken to be where its register says.
Readings that a reset left behind are `Unknown` and the properties except them:
dist_cm is not in the reset branch, and the code gives its reader no way to tell.

**JtagUart.**  The thread is cut wherever an interrupt can matter: between
reading an index (`WriteLook`), copying (`WriteCopy`), publishing the new index
(`WritePublish`), turning the interrupt on (`WriteKick`, in one piece because
interrupts are disabled there) and polling (`WriteSpin`, `WriteCheck`).  The
interrupt routine is cut at each access to the core, because the host goes on
meanwhile; RAVAIL is sampled one step after the pop (`IrqRead`, `IrqSample`).
`irq_enable` stands both for the driver's copy and for the core's ien bits.
Characters are numbers in the order they are produced; `copied`, `delivered`,
`sent` and `taken` count them.  Simplifications: the copy of a read and the move
of rx_out are one step (rx_out only tells the interrupt routine that there is
room, and it moves last), polling reads are single loads because the build is
`-O0`, and the case in which the alarm cannot be started, where the driver sets
the timeout to INT_MAX, is left out.

**Alarms.**  alt_alarm_start and alt_alarm_stop disable interrupts and are a step
each.  alt_tick also runs with interrupts disabled, but the callbacks it calls
may start and stop alarms, so it is cut there: `Tick` counts, `Visit` is a turn
of the loop up to the call, `CallbackEnds` and `CallbackRepeats` are the rest of
the turn, and `AlarmStart` and `AlarmStop` may come in between.  `upcoming` is the
pointer that alt_tick saved before the call.  `place` is history: where an alarm
is in the list, counted from the head.  The guards assume of callers that an alarm
in the list is not started again, nor by its own callback, and that the delay is
less than 2^32 - 1 (`DelaysFit`, see [also seen](#also-seen)).  Clients of this build
keep all of this: the only alarm is the JTAG UART's, started once.  Any alarm may
be stopped, by a callback too.  If that is the one put down as next, its link leads
to itself: the walk comes to it, calls it if it is due, although it was stopped, and
stays on it with interrupts off, unless the callback starts it again before it
returns.  `undercut` is history and marks this; properties about the end of a walk
except it, those about the list and the times of alarms do not need to.

**Interrupts.**  `line` is what the devices request, `ienable` the control register,
`active` and `mask` the HAL's variables it is made of, `pie` the processor's bit;
`depth`, `pc`, `found`, `irq` and `old` are the stack of activations of
alt_irq_handler.  An enabled request is taken before the next instruction of whoever
runs.  `Thread` is the program with its critical sections and registrations, each
cut at its accesses to the masks and the table.  `Handler` is exception entry, the
search, which is stuck when it has found nothing (`First`), the handler itself,
which may open itself to higher priorities (`Preemptible`), and the way back.
`boot` is start-up: the drivers register in the order of alt_sys_init.  The timer
may time out whenever the one before is acknowledged, however soon; `Timestamp`
counts its cycles.

**FdTable and FileCalls.**  The HAL is built for one thread, where the semaphore
of the pool is an empty macro, so a call is one step, with all that it undoes when
it fails.  `Open` takes whether the driver opens as a parameter; `Close` releases
whatever the driver says.  `Redirect` is one stream of alt_io_redirect, open, copy
and release in one.  A call with a descriptor that the caller does not hold is left
out.  `held` and `asked` are history: what callers were given and have not closed,
and what they asked for.  FileCalls adds to each action of FdTable what it does to
mode and options, and says where a call ends: in which driver, or with which error.

**Heap.**  sbrk by the thread in its three steps, with calls by handlers wherever
interrupts are on; `holders` counts who has each byte.  **DeviceNames.**  Names are
short sequences of characters; what memory holds behind a name is a parameter.
The same name registered twice is left to the comment, which leaves it undefined.
**Caches.**  Each byte says where its last value is (memory, only the cache, an old
copy in the cache, nowhere), so that no values are needed.  A program is taken to
flush a line before it goes around the cache, as the manuals ask.  **TimeOfDay.**
The tick counter stops at a bound below its own wrap, after 49 days.  **Delay.**  The
register is counted down by turns.  **Timestamp.**  Every step is an edge of the
timer's clock with the access that falls on it; the same module has the timer as
timestamp and as system clock, as the drivers program it.  **Profile.**  The thread's
mcount step by step; a handler's calls are made in one step, between any two of
the thread's.  **Exceptions.**  The program is a row of instructions, some of which
raise exceptions; frames are a stack, and the handler may raise some itself.  The
bad address of an instruction is its own.  **Printing.**  Both format interpreters as
folds over the format, and against them texts built from the value alone; semihosting
writes are taken as complete.  **Polled.**  The thread and a handler write through
the same FIFO with a test and a store of their own; the direct calls are one
operator each, over these.  **Process.**  What the program printed is a count in
newlib's buffer and one in the driver's ring.  **SystemMap.**  Constants read off
system.h, the router, the address lines, the interrupt mapper and the linker script,
and one access at a time.  **Adc.**  An edge of either clock at any time; the bus read,
which crosses both, is one action; the converter is external; registers power up at
0.  Parts that this build compiles out (profiler, log, small driver, direct drivers,
timestamp) are modelled as they would be compiled in.

## Runs and bounds

| run | what it shows | bounds, and why they are enough |
|---|---|---|
| `telemetre` | all safety properties, the inductive invariant, the refinement and liveness, with resets and missed triggers at any edge | trigger 2 edges, cooldown 5, echoes of 0..9 edges, product modulo 32, readings modulo 4: echoes shorter and longer than the cooldown, truncated readings and overflown products all occur |
| `servomoteur` | safety, refinement of `Pwm`, and that a resting position arrives | widths 1..5 in a period of 8, two-bit positions, writes that are truncated, resets |
| `radar` | lag, order and display, for each of the three loops, and the inductive invariant | the real durations in ticks of 10 ms; a sweep of 40 degrees (more than twice the lag of 18) instead of 180; readings of one to four digits; 2.5 million states |
| `jtag` | safety of both directions at once, which share irq_enable | buffers of 3 (2 usable), FIFOs of 2, 3 characters each way: the buffers fill, wrap and drain; a host that is there or not, and TIOCSTIMEOUT 0; 2.9 million states |
| `jtag_live` | calls return; a host that stays gets everything | buffer of 3, FIFO of 1, 4 characters, one more than fits when the host is away; a host that comes and leaves once |
| `alarms` | inductive invariant, refinement of `Countdown`, walks end, alarms go off, with callbacks that stop any alarm | 3 alarms: one on each side of the one whose callback runs; a counter of 2 bits, which wraps every fourth tick; delays 0 and 2 (1 and 3 ticks), periods up to 3, so that an alarm may be due just before, at and after the wrap |
| `fdtable` | leaks, locks, the mark, flags and the way of calls over all orders of calls | 5 descriptors, 2 beside the standard streams; a device that only takes writes, one that reads and writes, and a file system, so that each call finds a driver without it; 0.4 million states |
| `fdtable_lock` | finding: a lock beside another user | 5 descriptors |
| `interrupts` | masks, dispatch, ticks, service, from the first instruction of start-up | 4 interrupts, the system's three and one more, of which two handlers may be interrupted: three levels of nesting |
| `library` | one property or two of each part of the library | see below; 0.24 million states |
| `gmon_start` | finding: the sampling alarm is started twice | one handler's call in the middle of the thread's |
| `settod` | finding: the clock does not show the time it was set to | a word of 5 bits |

In `library` a behaviour picks one part (`part`) and the others keep their initial
state, because nothing connects them.  Its bounds: a heap of 14 bytes with words of
4 and increments of -3 to 7; paths of up to four characters over two letters and
"/", two entries in each list; 3 memory lines of 2 bytes over 2 cache lines, so that
two share a place; words of 5 bits and seconds of 10 microseconds, crossed several
times by 25 ticks; rounds of 7 turns and delays up to four of them; register halves
of one base-3 digit and a reset period of 2; two functions in one bucket, two
callers, 3 calls of the thread and handlers' calls between; 3 instructions of the
program and 2 of the handler, 3 frames; two-nibble numbers at all the edges of each
base, a put buffer of 2; polled FIFOs of 2 with 2 characters of each writer and
2 of the host; two constructors, two destructors and a ring of 1; the real
addresses; conversions of 3 bits with commands of 2, a FIFO of 1 word and up to 2
samples.

Every constant has the order relations of the real one (a trigger shorter than
the cooldown, a pause longer than a cycle and a flight, a mark below the FIFO's
depth).  `NeverAhead` needs Pause + Delay to exceed MaxGap + MaxFlight
(`PauseOutlasts`): with the real 300 + 10 ms against 140 + 40 ms there is room to spare.  The processor's
delay loop is an upper part of that margin: `alt_busy_sleep` runs for 48 cycles a
microsecond (4 % short at 50 MHz), which does not use it up.

The liveness run of the JTAG UART leaves the timeout as it is: TIOCSTIMEOUT 0 sets
it to INT_MAX - 1, which host_inactive never reaches, so that calls then wait for
a host for ever, as asked.

Bounds of the models that the code does not have: `MaxTx`, `MaxRx`, `MaxPlugs`,
`MaxListed`, `MaxTicks`, `MaxCalls`, `MaxFrames`, `MaxPut`, `MaxHost`, `MaxPrinted`;
`AgeCap` and `Cap` saturate history counters above the last value any property
compares with.

## Fairness

* `Telemetre!FairSpec`: the clock ticks, the reset key is let go, an armed sensor
  raises echo and lets it fall.  The first is the board's oscillator; the last is
  what the HC-SR04 does, and exactly what the code relies on, having no timeout.
  Resets and missed triggers may come for ever: `KeepsRanging` says what is left
  then.
* `Servomoteur!ServoFairSpec`: the clock and the key.
* `JtagUart!FairSpec`: weak fairness of the interrupt routine, strong fairness of
  the thread (it runs only while no interrupt is served, and is interrupted only
  so often as the host acts), of the one-second alarm, and for the host: it
  empties the write FIFO when it is there, and pauses again and again (the JTAG
  hub polls; this is what raises the pending receive interrupt of a FIFO that is
  not yet full to the mark).  A host that is away takes no step at all.
* `Alarms!FairSpec`: the timer is free-running (the CONT bit that
  alt_avalon_timer_sc_init sets), the walk is straight-line code with interrupts
  disabled, and callbacks return.  Alarms are started and stopped by whoever
  likes, without fairness.
* `Interrupts!FairSpec`: a handler runs on to its end, and a call that has disabled
  interrupts goes on to enable them again.  Devices need not raise anything, and
  the thread need not do anything else.

## Proofs

The eight `*_proofs` modules are checked by TLAPS for every value of the constants
that the named assumptions allow.  For the telemeter: any trigger and cooldown, any
conversion, any sensor that does not answer before the end of the trigger pulse
(`SensorAssumption`), any echo length, and resets at any edge.  For the servo:
any widths that fit in the period.  For the interrupts: any number of them, any
position of the timer and any set of interruptible handlers but the timer's.  For
the radar: any sweep, increment, delay, pause and cycle, each of the three loops,
and resets at any time; only `NothingAhead` assumes `PauseOutlasts`.  For the JTAG
UART: buffers and FIFOs of any size, any number of characters, a host that comes and
goes.  For the parts of the library: any heap, caches, blocks, words, rates, programs
and names, as their assumptions say.

None of the properties is inductive.  The invariants are conjunctions of named
parts, each there for a reason:

* `PulseInv` ties counter1 to `age`, which makes the falling edge of trig safe
  (`TriggerWide`), after a reset in the middle of a pulse too: trig stays high and
  `age` goes on, counter1 restarts at zero.
* `CooldownInv` bounds how far counter2 lags behind `age`: the argument why a
  cooldown that starts from the echo's length still spaces the triggers.
* `PipelineInv` says what the two synchronizer stages can hold: after two edges in
  E1 nothing older than the sensor's current answer is left.  `NoStaleEcho`
  follows, and `BoundInv` needs it when E2 hands over to E3.
* `BoundInv` bounds the count by the samples taken (`NeverLong`).
* `ExactInv` is the equality for undisturbed cycles: the machine is in E2 before
  the first sample of the echo leaves the synchronizer, because the sensor reacts
  no earlier than the pulse ends.  It is the one place where MinReaction is used.
* Servo: `PulseInv` ties counter to `age` and to the interval `lo .. hi`.
* Alarms: `Linked` (the two links are inverse) is not enough, as it allows rings
  beside the list's.  `Placed` numbers the nodes of the list from its head, so that
  there is one ring, and `Pointed` keeps the walk on it until a callback stops the
  alarm that next is; the place of a walk off the ring is 0, before which no alarm
  is.  `Punctual` reads the registers as a countdown, `Left`: with the flag and a
  counter other than zero the time is one wrap ahead.  It needs to know which alarms the walk has already
  seen at this tick (`Settled`, in terms of places): those have ticks left and
  flags that belong to the next wrap, the others may be due.  `Implementation`
  then follows action by action.
* Interrupts: `WhoIsOpen` says at which places of its code each level of the stack
  may be while interrupts are enabled above it; `Masked` what every level has saved
  of the mask; `ByPriority` that each level is of a higher priority than the one
  below, which bounds the stack; `HasHandler` that an enabled interrupt was
  registered; `SearchEnds` that there is a pending bit at or beyond the one that is
  looked at.  `TicksKept` follows with the place of the timer's handler.
* File descriptors: `Missed` says that those who share a device with the holder
  of its lock come after it.  That is all that the incomplete loop of alt_fd_lock
  leaves, and enough for `SoleLock`; `HighWater` makes it, and the test in open,
  complete for all others.
* Calls: every step of `CallsSpec` is a step of `FdTable` or leaves it alone
  (`ImplementsPool`), so that its invariant is there to use; `FreeIsClear` (a free
  descriptor has no flags left) and `FlagsAsAsked` then carry from `Open` to every
  call.
* Radar: `Places` says where each loop may be and that the register is that of the
  loop's angle, `Cycle` how old a trigger may be.  `LagInv` compares ages: an angle m
  steps back was written `Held` + m * Delay ticks ago or more (the sleeps between), so
  a value younger than that is not before it (`NotBefore`).  The reading shown during
  a flight is a cycle older than the trigger, hence the sum in `Lag`.  `AheadInv` is a
  countdown: what a sweep left behind is replaced before the `Ahead` ticks to the
  first reading are over; `Home` is the step that needs `PauseOutlasts`.  Products of
  constants are beyond the decision procedures: what is needed of them, and that
  i * 1023 / 180 grows with i and ends at 1023, are lemmas.
  `Displaying` ties the digits written so far, and the number that is left, to what
  is being shown; it needs that dividing by ten again and again is dividing by the
  powers of ten.
* JTAG UART: `Streams` says what each direction's buffers read as one sequence.  That
  is not inductive with stale indices about, so `TxRing` and `RxRing` say it slot by
  slot (each character at its place, counted around the ring by `Span`), and
  `WriterKnows`, `ReaderKnows` and `HandlerKnows` what the copies that the thread and
  the interrupt routine hold are still good for: the other side only ever makes more
  room, or brings more characters, than they say.  `Awake` carries `NothingLost`
  through the interrupt routine: an interrupt is off only while nothing waits for it
  or somebody is on the way to turn it on.  That the slots in order are the sequence
  of `Streams` (`InOrder`) is shown from this, position by position.
* Heap: nothing at or above heap_end has a holder, and between its steps the
  thread's copy of heap_end is true, because interrupts are off.

* Process: `LifeInv` says how far the constructors and destructors are at each place,
  that a process with destructors behind it is past its exit, and that only one that
  was cut leaves anything held back.
* Wall clock: `ResetInv` says what settimeofday stores, the time at tick zero with a
  borrow or without.  That seconds and microseconds then meet takes `WholeTicks`, a
  whole number of microseconds in a tick (1000 here): with any other rate US / TickRate
  would drop a fraction.  It is the one hypothesis of `TimeInvariance`.
* Delay: `RoundsInv` accounts between two rounds for the share of those slept.
* Timestamp: `Counting` says what the writes of alt_timestamp_start have left so far,
  and that the counter is the period less what has elapsed; `Halves` that the two
  reads are halves of such counts, from which `StampBetween` follows for reads that a
  handler tore.  `Served` keeps the two uses of the timer apart.
* Exceptions: `Stacked` says that every frame but the last one waits in its handler,
  `Entering` and `Handling` what the processor's registers and the handler's
  arguments still are of the frame, and `Arrived` is the instruction the program has
  come to, whatever is nested above it: an instruction has been taken once if it is
  before that, else not at all.
* Caches: an uncached block is whole lines and none of them is in the cache
  (`Apart`), since the allocation ends by flushing them and what the cache takes
  afterwards lies around the block.  Hence no line in the cache is older than memory,
  no line that is discarded is the only copy, and two lines in the cache never share
  a place (`Unique`).  `NoLineMissed` and `EveryIndex` are about the loops of the
  flushes: steps of a line from any byte on visit every line of a range, the last
  one by the extra step, and every place when the range is cut to the cache's size.
* Names: nothing but names is listed (`NamesInv`); a character before the end is not
  the end, so that comparing up to one string's end with the other's junk stops there
  (`SameName`, `AcceptsBelow`).
* Polling: the characters of each writer are numbered, so that order and loss are a
  matter of numbers (`WritersInStep`, kept by `InStepAppends` when a character is
  written and by `InStepLoses` when it is lost).  `RoomKept` says whose test for room
  still holds: a handler's always does, the thread's until a handler has printed.
  The bytes that reads have returned, that the reading call has and that wait in the
  FIFO are, in a row, what the host sent (`ReadsTheHost`); `Bit15` takes the data
  register apart.
* ADC: where a measure is depends on its tick and the level of the clock alone,
  whatever broke off the measure before (`ShiftInv`): which bits of the command the
  converter has read, which of the sample are in read_data, and what is on the two
  lines.  So a measure that has come to its end has sent a whole command and read a
  whole sample of the channel the converter had (`WholeSample`).  `CountInv` is about
  the measures since a start that was noticed: the first one is of any channel and
  not stored, and measure_count runs one ahead of what is stored until the last.
  It says nothing after the registers were written or a start was missed.
* Profiler (`GmonInv`): the lists are walked by the thread while handlers put entries
  and arcs in front of it.  `WalkInv` says what the walk has passed and may still
  meet, how many entries of a function and arcs of a caller there can be in front of
  it: a handler finds what is listed, so it adds at most one copy, and the thread may
  add a second entry or arc without having seen it.  `StoreInv`
  relates the count the thread has read to the one it is about to overwrite: the
  handlers' calls between the two are those that `clobbered` counts.  `ArcsInv` names
  the one entry without arcs, the one the thread is adding to.  `AlarmInv` is
  about the start that a handler may overtake, `SamplesInv` about the last bucket.
  `Counted` is a sum over copies: that a sum grows by what one term grows by, and
  splits when a term is added, is derived from the definition of the fold, a function
  on sets that is unique because a least set on which two differ cannot exist.
* Printing (`PrintInv`): the last text is right (`FieldRight`, `StatusRight`,
  `EchoRight`).  The invariant is short and the work is in the texts.  A format is read as a run of states (`LogStates`, `AltStates`), a number
  as a run of remainders and weights (`Digital`); that a run exists, is unique
  and is what the fold computes is shown by looking at the least step that would be
  wrong.  A number's digits read back to it because digit by place value is what the
  remainders lose (`Numeral`), padding and sign fall into three cases (`Fitted`), and
  the text of the whole status reads back since each label occurs once, so that
  what stands between two is one number (`Cut`, `ReportCuts`).  The fields
  of the register are found by division, each below the weight of the next
  (`SixFields`).
* Map: windows do not overlap, and the comparison of the upper bits is being in the
  window because each begins at a multiple of its size (`TakesInWindow`); the rest is
  arithmetic with the addresses, which the prover does for each device.

`Invariance` (`Dispatched`, `CallsInvariance`, `HeapInvariance`, ...) is the theorem
that the conjunction is an invariant; the others follow from it.  `Implementation` is
the refinement: `ServesReader` for the telemeter, `DrivesServo` for the servo,
`KeepsTime` for the alarms (under `DelaysFit`).  `ReportInvariance` is the sum of
`ProfilingInvariance` and `PrintingInvariance`.

Assumptions on constants are those of the modules; `ExceptionsAssumption` says that faults lie
in the program or the handler but not on the last instruction of either, which is the
return, `MapAssumption` that what is no device has no device's name; `AdcAssumption` that the
converter's bits are at most 16, because write_pos has four bits, and that a command is
no longer than a sample; `PrintingAssumption` that a value fits a word and a width has one
digit, as the interpreter reads it; `ReportAssumption` that the room in the FIFO and the
buffer's size are small for a word, so that they are not printed as negative.

Model-checked only: every liveness property (fairness and ENABLED are beyond the
prover).  Every safety invariant and every action property of a passing run is stated
by a theorem.

## Findings

1. *settimeofday, code bug.*  The product of the ticks and the microseconds of a
   tick is taken in 32 bits, in gettimeofday in 64: after 71.6 minutes the clock no
   longer shows the time it is set to, although the comment promises that an
   immediate gettimeofday returns it (`alt_settod.c:61-63`, `:84`).  Run `settod`.
   What remains true is `ClockFollows`.
2. *TIOCEXCL, code bug.*  alt_max_fd is the highest descriptor in use, and the loop
   of alt_fd_lock ends before it, unlike the one in alt_file_locked.  With a device
   open on descriptors 3 and 4, the lock is granted to 3.  The comment grants it
   "if there are no other open file descriptors which reference the same device".
   Run `fdtable_lock`.  What remains true is `SoleLock` and `KeepsOthersOut`.
3. *Profiler, code bug.*  __mcount_record tests pcsample_need_init and clears it
   with interrupts on (`alt_gmon.c:167-169`).  A handler that records in between
   starts the sampling alarm, and then the thread starts it too, while it is in the
   list: an alarm that is the first of the list is then linked to itself.  The
   comments say that the function copes with reentrancy (`:152-154`) and that
   nios2_pcsample_init is called until it returns zero (`:212-213`).  Run
   `gmon_start`.  Without that race the alarm is started once (`ReportInv`).

## Also seen

Met while modelling, and without a run of their own.  Where the code does something
else than a comment says, the model does what the code does, and no property asks
for either.

* *Telemeter.*  E2 and E3 have no timeout (`TELEMETRE_US.vhd:60`): after a trigger that
  the sensor missed, only a reset helps.  `KeepsRanging` names what it takes.
* *Radar program.*  The comments "delay for 1 ms" (`main.c:59`, `:76`) stand beside a
  delay of 10000 microseconds.
* *JTAG UART.*  After the wait for room, write gives up when host_inactive is not
  zero (`altera_avalon_jtag_uart_write.c:187`), which one second of a slow host is
  enough for; the comment on that return (`:214`) says "Host not connected".
* *Alarms.*  An alarm of 2^32 - 1 ticks goes off at once, because its time is that of
  now and the flag that should "prevent the subsequent tick event from causing an
  alarm too early" (`alt_alarm_start.c:84-88`) is not set.  A callback that stops the
  alarm put down as next (`alt_tick.c:102`) leaves alt_tick on it for ever, and one
  that is due is called in spite of alt_alarm_stop, which "is used to unregister a
  callback" (`alt_alarm.h:73`); `TickReturns` and `GoesOff` except this by name.
* *Interrupts.*  alt_irq_enable in an interruptible handler takes no notice of the
  priority mask in force (`alt_legacy_irq.h:94`).
* *Descriptors.*  Closing a standard stream releases nothing, not even its lock
  (`alt_release_fd.c:46`), though the comment on alt_fd_lock says so of close; a new
  holder of a descriptor starts with the last one's priv; a failed stat always says
  EBADFD, whatever open said, and stat of the JTAG UART waits for its transmit
  buffer to drain.
* *Names.*  alt_find_file reads name[len] beyond the end of a shorter path
  (`alt_find_file.c:74`); `OpensItsOwner` shows that what it reads does not matter.
* *Heap.*  The comment on alt_sbrk says there is no check of bounds (`:46-48`); there
  is one.
* *Caches.*  alt_dcache_flush_no_writeback of an unaligned range discards a line
  beyond it (`:65`).
* *Delay.*  A delay of exactly a number of rounds turns the register around once more:
  2^32 turns.  48 of 50 cycles per microsecond are counted.
* *Timestamp.*  The comments `altera_avalon_timer_ts.c:57-58` and `:91-94` contradict
  each other; a timestamp taken by a handler between the two reads of another tears
  that one; a timeout on the very edge that acknowledges the one before is lost.
  ALTERA_AVALON_TIMER_FREQ gives 1 for any period in seconds.
* *Profiler.*  There can be three copies of an arc, where the comment speaks of two,
  "both with count=1" (`alt_gmon.c:178-181`); a count is lost where the thread stores
  over a handler's, which `clobbered` counts; a sample may land one past the histogram;
  a failure of sbrk is not checked.
* *Exceptions.*  A handler that raises an exception itself and then asks to reissue
  has the wrong instruction issued (`alt_exception_entry.S:285`); the comment `:276`
  contradicts the code and the enumeration.
* *Log.*  The heartbeat is said to come every ALT_LOG_SYS_CLK_INTERVAL ticks
  (`alt_log_printf.c:464-466`) and takes one tick more; an echo is said to show the
  first ALT_LOG_WRITE_ECHO_LEN characters (`:435-439`) and shows one less; "SW CirBuf" prints
  tx_out - tx_in, which is mostly negative; the period of the report, a tenth of the
  tick rate, is 0 below 10 ticks a second; a handler that logs between the test and
  the store of alt_log_txchar (`:94-98`) costs a character; polled writes wait for a
  host for ever.
* *Direct drivers.*  alt_getchar returns -1 for the byte 255 too (`alt_getchar.c:65`);
  a read returns -EIO or -EWOULDBLOCK rather than -1; the small driver has no
  ioctl, so that ALT_IOCTL does not link.
* *Exit.*  A process that a signal ends has the exit code 0, and the simulator is told
  "pass" (`alt_kill.c:89`, `alt_sim.h`); exit() in a constructor runs no destructors.
* *Qsys.*  The board support package was generated from an older build than the
  hardware (timestamps `system.h:398`, `DE1_SoC_QSYS_sysid_qsys.v:52`), and the check
  that would notice is compiled out; `MapInv` shows that the two maps agree.
  `DE1_SoC_QSYS.v` is a stale generation of 2014, the .vhd is the current one.  An
  access to an address of no device is routed to on-chip memory, the router's
  default.

## Not modelled

* The comparison of the system id, which is compiled out; DMA and flash lookups, for
  devices this system does not have; the emulation of multiplications and the trap
  handler, which are not linked; ECC; termios; crt0, which runs before anything
  here.
* The generated interconnect apart from its map, and the processor itself, whose
  exceptions and caches appear as external definitions.
* The standalone toplevels, which are wiring; the inferred latch on readdata of the
  telemeter's wrapper.
* The stack checks and ALT_MAX_HEAP_BYTES of the heap and the multithreaded variants
  of the HAL, which this build compiles out; the time zone of settimeofday, which is
  only stored.

## Plan

All modules of the plan are done: `Telemetre` with `Ranging`, `Servomoteur` with
`Pwm`, `JtagUart`, `Radar`, `Alarms` with `Countdown`, `FdTable` and `FileCalls`,
`Interrupts`, and the parts of the library.

What is worth adding next: the telemeter's bus read with its latch.
