----------------------------- MODULE Interrupts -----------------------------
(***************************************************************************)
(* The interrupts of the HAL: start-up, registration of handlers, critical *)
(* sections of the thread, exception entry, the dispatch loop with its     *)
(* priorities, nested handlers, and the interval timer that is the system  *)
(* clock.                                                                  *)
(*                                                                         *)
(* Devices raise their lines at any moment, the timer included: that its   *)
(* period is 50000 cycles is left out, so that no handler is too slow for  *)
(* the model.  An interrupt is taken before the next instruction.          *)
(***************************************************************************)
EXTENDS Integers

CONSTANTS
  NIRQ,         \* ALT_NIRQ: the interrupts, 0 of the highest priority
  Timer, Jtag,  \* what alt_sys_init registers
  Preemptible   \* interrupts whose handler calls alt_irq_interruptible

ASSUME IrqAssumption ==
  /\ NIRQ \in Nat \ {0}
  /\ Timer \in 0 .. NIRQ - 1 /\ Jtag \in 0 .. NIRQ - 1 /\ Timer # Jtag
  /\ Preemptible \subseteq 0 .. NIRQ - 1 /\ Timer \notin Preemptible

VARIABLES
  boot,         \* what alt_main does next, "main" when main runs
  thread,       \* where the call of the thread is, "run" between two calls
  id, isr,      \* its interrupt, and whether it gets a handler or is enabled
  status,       \* the status that alt_irq_disable_all has returned to it
  pie,          \* status.PIE
  active,       \* alt_irq_active
  mask,         \* alt_priority_mask
  ienable,      \* the control register
  registered,   \* interrupts with a handler in alt_irq
  line,         \* asserted lines; that of the timer is timeout_occurred
  depth,        \* activations of alt_irq_handler
  pc,           \* where each activation is
  found,        \* its active: the pending interrupts it has read
  irq,          \* the interrupt whose handler it calls
  old,          \* the mask that alt_irq_interruptible has returned to it
  owed          \* history: timeouts the hardware took and alt_tick did not

calls == <<id, isr, status>>
boots == <<boot, thread, calls>>
cpu == <<pie, active, mask, ienable, registered>>
frames == <<depth, pc, found, irq, old>>
vars == <<boots, cpu, line, frames, owed>>

Irq == 0 .. NIRQ - 1
Level == 1 .. NIRQ + 1
Boot == {"irq_init", "start_timer", "timer", "jtag", "main"}
ThreadPc == {"run", "table", "enable", "restore"}
FramePc == {"entry", "search", "isr", "count", "open", "close", "done"}

Init ==
  /\ boot = "irq_init"
  /\ thread = "run" /\ id = 0 /\ isr = FALSE /\ status = FALSE
  /\ pie = FALSE /\ active = {} /\ mask = Irq
  /\ ienable \in SUBSET Irq
  /\ registered = {} /\ line = {}
  /\ depth = 0
  /\ pc = [n \in Level |-> "entry"] /\ found = [n \in Level |-> {}]
  /\ irq = [n \in Level |-> 0] /\ old = [n \in Level |-> {}]
  /\ owed = 0

\* alt_irq_pending: the control register ipending
Pending == ienable \intersect line

\* The processor takes an interrupt before the next instruction.
Taken == pie /\ Pending # {}

-----------------------------------------------------------------------------
(* Devices *)

\* A device other than the timer raises its line.
Raise(i) ==
  /\ i # Timer /\ i \notin line
  /\ line' = line \union {i}
  /\ UNCHANGED <<boots, cpu, frames, owed>>

\* The counter reaches zero.  A timeout that finds the one before still
\* uncleared is lost.
Timeout ==
  /\ boot \in {"timer", "jtag", "main"} /\ Timer \notin line
  /\ line' = line \union {Timer}
  /\ owed' = owed + 1
  /\ UNCHANGED <<boots, cpu, frames>>

-----------------------------------------------------------------------------
(* The thread *)

ThreadRuns(p) == depth = 0 /\ ~Taken /\ thread = p

\* alt_irq_init: the controller, then the processor
IrqInit ==
  /\ boot = "irq_init"
  /\ ienable' = {} /\ pie' = TRUE
  /\ boot' = "start_timer"
  /\ UNCHANGED <<thread, calls, active, mask, registered, line, frames, owed>>

\* alt_avalon_timer_sc_init starts the timer before its handler is there.
StartTimer ==
  /\ boot = "start_timer" /\ ThreadRuns("run")
  /\ boot' = "timer"
  /\ UNCHANGED <<thread, calls, cpu, line, frames, owed>>

\* alt_irq_disable_all at the head of a call, which goes on at p
DisableAll(p, i, on) ==
  /\ ThreadRuns("run")
  /\ status' = pie /\ pie' = FALSE
  /\ thread' = p /\ id' = i /\ isr' = on
  /\ UNCHANGED <<active, mask, ienable, registered, line, frames, owed>>

\* The drivers register their handlers, the timer's first.
InitDriver ==
  \/ boot = "timer" /\ boot' = "jtag" /\ DisableAll("table", Timer, TRUE)
  \/ boot = "jtag" /\ boot' = "main" /\ DisableAll("table", Jtag, TRUE)

\* The program registers a handler, removes one, enables or disables an
\* interrupt that has one, or enters a critical section of its own.
Call ==
  /\ boot = "main"
  /\ \/ \E i \in Irq, on \in BOOLEAN : DisableAll("table", i, on)
     \/ \E i \in registered, on \in BOOLEAN : DisableAll("enable", i, on)
     \/ DisableAll("restore", 0, FALSE)
  /\ UNCHANGED boot

\* alt_iic_isr_register writes the handler, or removes it.
Store ==
  /\ ThreadRuns("table")
  /\ registered' = IF isr THEN registered \union {id} ELSE registered \ {id}
  /\ thread' = "enable"
  /\ UNCHANGED <<boot, calls, pie, active, mask, ienable, line, frames, owed>>

\* alt_irq_enable and alt_irq_disable; the priority mask is not looked at.
Enable ==
  /\ ThreadRuns("enable")
  /\ active' = IF isr THEN active \union {id} ELSE active \ {id}
  /\ ienable' = active'
  /\ thread' = "restore"
  /\ UNCHANGED <<boot, calls, pie, mask, registered, line, frames, owed>>

\* Mutant: interrupts stay disabled after the call.
EnableAll_Forgets ==
  /\ ThreadRuns("restore")
  /\ thread' = "run" /\ id' = 0 /\ isr' = FALSE /\ status' = FALSE
  /\ UNCHANGED <<boot, cpu, line, frames, owed>>

\* alt_irq_enable_all gives the status back, and the call is over.
EnableAll ==
  /\ ThreadRuns("restore")
  /\ pie' = status
  /\ thread' = "run" /\ id' = 0 /\ isr' = FALSE /\ status' = FALSE
  /\ UNCHANGED <<boot, active, mask, ienable, registered, line, frames, owed>>

-----------------------------------------------------------------------------
(* Interrupt level *)

top == irq[depth]
HandlerRuns(p) == depth > 0 /\ ~Taken /\ pc[depth] = p

\* The exception: PIE goes to estatus, which the entry code saves.
Enter ==
  /\ Taken /\ depth < NIRQ + 1
  /\ pie' = FALSE
  /\ depth' = depth + 1
  /\ pc' = [pc EXCEPT ![depth + 1] = "entry"]
  /\ UNCHANGED <<boots, active, mask, ienable, registered, line,
                 found, irq, old, owed>>

\* alt_irq_handler reads what is pending.
Look ==
  /\ HandlerRuns("entry")
  /\ pc' = [pc EXCEPT ![depth] = "search"]
  /\ found' = [found EXCEPT ![depth] = Pending]
  /\ UNCHANGED <<boots, cpu, line, depth, irq, old, owed>>

\* The bits are tested from 0.  Without one the loop does not end.
First(i) == i \in found[depth] /\ \A j \in found[depth] : i <= j

Dispatch(i) ==
  /\ HandlerRuns("search") /\ First(i)
  /\ pc' = [pc EXCEPT ![depth] = "isr"]
  /\ irq' = [irq EXCEPT ![depth] = i]
  /\ UNCHANGED <<boots, cpu, line, depth, found, old, owed>>

\* Mutant: the status register is not written.
TimerClear_Forgets ==
  /\ HandlerRuns("isr") /\ top = Timer
  /\ pc' = [pc EXCEPT ![depth] = "count"]
  /\ UNCHANGED <<boots, cpu, line, depth, found, irq, old, owed>>

\* alt_avalon_timer_sc_irq clears the timeout...
TimerClear ==
  /\ HandlerRuns("isr") /\ top = Timer
  /\ line' = line \ {Timer}
  /\ pc' = [pc EXCEPT ![depth] = "count"]
  /\ UNCHANGED <<boots, cpu, depth, found, irq, old, owed>>

\* ... and calls alt_tick with interrupts disabled, as they are already.
TimerCount ==
  /\ HandlerRuns("count")
  /\ owed' = owed - 1
  /\ pc' = [pc EXCEPT ![depth] = "done"]
  /\ UNCHANGED <<boots, cpu, line, depth, found, irq, old>>

\* Any other handler removes the condition that raised the line.
Serve ==
  /\ HandlerRuns("isr") /\ top \notin Preemptible \union {Timer}
  /\ line' = line \ {top}
  /\ pc' = [pc EXCEPT ![depth] = "done"]
  /\ UNCHANGED <<boots, cpu, depth, found, irq, old, owed>>

\* Mutant: the interrupt itself is not masked.
Above_Itself(priority) == 0 .. priority

\* (1 << priority) - 1: the interrupts of higher priority
Above(priority) == 0 .. priority - 1

\* alt_irq_interruptible
Interruptible ==
  /\ HandlerRuns("isr") /\ top \in Preemptible
  /\ mask' = Above(top)
  /\ ienable' = active \intersect mask'
  /\ pie' = TRUE
  /\ pc' = [pc EXCEPT ![depth] = "open"]
  /\ old' = [old EXCEPT ![depth] = mask]
  /\ UNCHANGED <<boots, active, registered, line, depth, found, irq, owed>>

ServeOpen ==
  /\ HandlerRuns("open")
  /\ line' = line \ {top}
  /\ pc' = [pc EXCEPT ![depth] = "close"]
  /\ UNCHANGED <<boots, cpu, depth, found, irq, old, owed>>

\* alt_irq_non_interruptible
NonInterruptible ==
  /\ HandlerRuns("close")
  /\ pie' = FALSE
  /\ mask' = old[depth]
  /\ ienable' = mask' \intersect active
  /\ pc' = [pc EXCEPT ![depth] = "done"]
  /\ UNCHANGED <<boots, active, registered, line, depth, found, irq, old, owed>>

\* The handler has returned: more is pending...
Again ==
  /\ HandlerRuns("done") /\ Pending # {}
  /\ pc' = [pc EXCEPT ![depth] = "search"]
  /\ found' = [found EXCEPT ![depth] = Pending]
  /\ UNCHANGED <<boots, cpu, line, depth, irq, old, owed>>

\* ... or the exception returns, and estatus becomes the status.
Return ==
  /\ HandlerRuns("done") /\ Pending = {}
  /\ pie' = TRUE
  /\ depth' = depth - 1
  /\ pc' = [pc EXCEPT ![depth] = "entry"]
  /\ found' = [found EXCEPT ![depth] = {}]
  /\ irq' = [irq EXCEPT ![depth] = 0] /\ old' = [old EXCEPT ![depth] = {}]
  /\ UNCHANGED <<boots, active, mask, ienable, registered, line, owed>>

-----------------------------------------------------------------------------
Thread ==
  \/ IrqInit \/ StartTimer \/ InitDriver
  \/ Call \/ Store \/ Enable \/ EnableAll

Handler ==
  \/ Enter \/ Look \/ TimerClear \/ TimerCount \/ Serve
  \/ Interruptible \/ ServeOpen \/ NonInterruptible \/ Again \/ Return
  \/ \E i \in Irq : Dispatch(i)

Next == Thread \/ Handler \/ Timeout \/ \E i \in Irq : Raise(i)

Spec == Init /\ [][Next]_vars

\* The processor goes on: a handler runs to its end, and so does a call that
\* has disabled the interrupts.  Devices need not raise anything.
Fairness == WF_vars(Handler) /\ WF_vars(Store \/ Enable \/ EnableAll)

FairSpec == Spec /\ Fairness

-----------------------------------------------------------------------------
(* Properties *)

TypeOK ==
  /\ boot \in Boot
  /\ thread \in ThreadPc /\ id \in Irq /\ isr \in BOOLEAN /\ status \in BOOLEAN
  /\ pie \in BOOLEAN /\ active \in SUBSET Irq /\ mask \in SUBSET Irq
  /\ ienable \in SUBSET Irq /\ registered \in SUBSET Irq /\ line \in SUBSET Irq
  /\ depth \in 0 .. NIRQ + 1
  /\ pc \in [Level -> FramePc] /\ found \in [Level -> SUBSET Irq]
  /\ irq \in [Level -> Irq] /\ old \in [Level -> SUBSET Irq]
  /\ owed \in Int

Opened == {"open", "close"}

\* The mask that the handler of activation n sets, the thread's for n = 0
MaskOf(n) == IF n = 0 THEN Irq ELSE Above(irq[n])

\* Interrupts are enabled in the thread outside its critical sections, and in
\* a handler that has asked for it; every other handler runs alone.
WhoIsOpen ==
  /\ boot = "irq_init" => depth = 0 /\ thread = "run"
  /\ thread # "run" => depth = 0 /\ status
  /\ pie <=> \/ depth = 0 /\ thread = "run" /\ boot # "irq_init"
             \/ depth > 0 /\ pc[depth] \in Opened
  /\ \A n \in 1 .. depth - 1 : pc[n] \in Opened

\* However registrations, handlers and nested handlers interleave, the
\* interrupts enabled in the processor are those of alt_irq_active that the
\* innermost opened handler lets through, and each activation will put back
\* what it has found.
Masked ==
  /\ mask = MaskOf(IF depth > 0 /\ pc[depth] \notin Opened THEN depth - 1 ELSE depth)
  /\ IF boot = "irq_init" THEN active = {} ELSE ienable = active \intersect mask
  /\ \A n \in 1 .. depth : pc[n] \in Opened => old[n] = MaskOf(n - 1)

\* A handler is only ever interrupted by those of higher priority, so there are
\* never more activations than interrupts.
Placed(n) ==
  /\ pc[n] \notin {"entry", "search"} => irq[n] \in MaskOf(n - 1)
  /\ n + (IF pc[n] \in {"entry", "search"} THEN 0 ELSE irq[n]) <= NIRQ
  /\ pc[n] \in Opened => irq[n] \in Preemptible
  /\ pc[n] = "count" => irq[n] = Timer

ByPriority == \A n \in 1 .. depth : Placed(n)

\* An interrupt that the processor can take has a handler, except inside the
\* call that is removing it.
HasHandler ==
  /\ active \subseteq registered \union
       (IF thread = "enable" /\ ~isr THEN {id} ELSE {})
  /\ thread = "enable" /\ isr => id \in registered

\* The dispatch loop, which has no other end, always finds an interrupt, never
\* calls a handler that has been removed, and none without need.
SearchEnds ==
  /\ depth > 0 /\ pc[depth] = "entry" => Pending # {}
  /\ depth > 0 /\ pc[depth] = "search" =>
       /\ found[depth] # {}
       /\ found[depth] \subseteq registered \intersect mask \intersect line
  /\ depth > 0 /\ pc[depth] = "isr" => irq[depth] \in line

IInv ==
  /\ TypeOK /\ WhoIsOpen /\ Masked /\ ByPriority /\ HasHandler /\ SearchEnds

Counting == depth > 0 /\ pc[depth] = "count"

\* A timeout that the hardware takes is counted by alt_tick exactly once: what
\* alt_nticks still lacks is the pending timeout and the one that the handler
\* has cleared and is about to count.
TicksKept ==
  owed = (IF Timer \in line THEN 1 ELSE 0) + (IF Counting THEN 1 ELSE 0)

\* Interrupts of higher priority that are waiting, too
Ahead(i) == \E j \in line \intersect active : j < i

\* An enabled interrupt is served, unless it is disabled again and again or
\* interrupts of higher priority starve it.
Served ==
  \A i \in Irq :
    []<>(i \notin line) \/ []<>(i \notin active) \/ []<>Ahead(i)
=============================================================================
