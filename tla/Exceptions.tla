----------------------------- MODULE Exceptions -----------------------------
(***************************************************************************)
(* What happens to an instruction that raises an exception, or that an     *)
(* interrupt comes before: alt_exception_entry.S saves a frame, with the   *)
(* address to go on at, and asks whether it was an interrupt; if not,      *)
(* alt_instruction_exception_entry() calls the registered handler, whose   *)
(* answer says whether the instruction is skipped or issued again.         *)
(*                                                                         *)
(* The program is the instructions 1 .. ProgramEnd - 1, the handler those  *)
(* from HandlerStart to its return at HandlerEnd; an exception in the      *)
(* handler is handled as any other.  Interrupts has what the interrupt     *)
(* handlers do.                                                            *)
(***************************************************************************)
EXTENDS Integers, Sequences

CONSTANTS
  ProgramEnd, HandlerStart, HandlerEnd,
  Faulty,       \* instructions that may raise an exception
  Faults,       \* the causes they may raise it for
  MaxFrames     \* bound: exceptions in exceptions

ASSUME ExceptionsAssumption ==
  /\ ProgramEnd \in Nat \ {0} /\ HandlerStart \in Nat /\ HandlerEnd \in Nat
  /\ ProgramEnd < HandlerStart /\ HandlerStart < HandlerEnd
  /\ Faulty \subseteq (1 .. ProgramEnd - 1) \union (HandlerStart .. HandlerEnd - 1)
  /\ MaxFrames \in Nat
  /\ Faults \subseteq 3 .. 22

REISSUE_INST == 0
SKIP_INST == 1

\* The causes of the EXCEPTION register, from 1 on.
alt_exception_cause ==
  <<"CPU_ONLY_RESET_REQUEST", "INTERRUPT", "TRAP_INST", "UNIMPLEMENTED_INST",
    "ILLEGAL_INST", "MISALIGNED_DATA_ADDR", "MISALIGNED_TARGET_PC",
    "DIVISION_ERROR", "SUPERVISOR_ONLY_INST_ADDR", "SUPERVISOR_ONLY_INST",
    "SUPERVISOR_ONLY_DATA_ADDR", "TLB_MISS", "TLB_EXECUTE_PERM_VIOLATION",
    "TLB_READ_PERM_VIOLATION", "TLB_WRITE_PERM_VIOLATION",
    "MPU_INST_REGION_VIOLATION", "MPU_DATA_REGION_VIOLATION", "ECC_TLB_ERR",
    "ECC_FETCH_ERR", "ECC_REGISTER_FILE_ERR", "ECC_DATA_ERR",
    "ECC_DATA_CACHE_WRITEBACK_ERR">>

INTERRUPT == 2

\* Whether BADADDR was set by an exception of this cause.
alt_exception_cause_generated_bad_addr(cause) ==
  alt_exception_cause[cause] \in
    {"SUPERVISOR_ONLY_DATA_ADDR", "MISALIGNED_DATA_ADDR", "MISALIGNED_TARGET_PC",
     "TLB_READ_PERM_VIOLATION", "TLB_WRITE_PERM_VIOLATION",
     "MPU_DATA_REGION_VIOLATION", "ECC_DATA_ERR"}

VARIABLES
  pc, pie,      \* the address executed next, interrupts enabled
  ea, estatus,  \* what the processor keeps of the two at an exception
  exception,    \* the EXCEPTION register: the cause above two bits
  badaddr,      \* BADADDR: an instruction accesses the address it is at itself
  ipending,
  exc_pc,       \* "run", or where the exception code is
  frames,       \* the saved frames, the innermost last, each with how it came
                \* about: at which instruction, for which cause, whether the
                \* handler has raised exceptions of its own
  registered,   \* alt_instruction_exception_handler is not 0
  told,         \* what the handler was called with last
  taken,        \* history: how often each instruction was executed or skipped
  astray        \* history: an instruction was to be issued again and ea was no
                \* longer that of its exception

excVars ==
  <<pc, pie, ea, estatus, exception, badaddr, ipending, exc_pc, frames, registered,
    told, taken, astray>>

kept == <<ea, estatus, exception, badaddr>>

Program == 1 .. ProgramEnd - 1
HandlerCode == HandlerStart .. HandlerEnd - 1
Top == frames[Len(frames)]
Goto_Exc(label) == exc_pc' = label

ExcInit ==
  /\ pc = 1 /\ pie = TRUE
  /\ ea = 0 /\ estatus = FALSE /\ exception = 0 /\ badaddr = 0
  /\ ipending = FALSE
  /\ exc_pc = "run" /\ frames = <<>>
  /\ registered = FALSE /\ told = [cause |-> 0, pc |-> 0, badaddr |-> 0]
  /\ taken = [i \in Program |-> 0] /\ astray = FALSE

Take(i) ==
  taken' = IF i \in Program THEN [taken EXCEPT ![i] = @ + 1] ELSE taken

-----------------------------------------------------------------------------
(* The processor *)

Execute ==
  /\ exc_pc = "run" /\ pc \in Program \union HandlerCode
  /\ pc' = pc + 1
  /\ Take(pc)
  /\ UNCHANGED <<pie, kept, ipending, exc_pc, frames, registered, told, astray>>

\* The program's critical sections, and alt_instruction_exception_register.
Program_Sets ==
  /\ exc_pc = "run" /\ frames = <<>>
  /\ \/ pie' = ~pie /\ UNCHANGED registered
     \/ registered' = ~registered /\ UNCHANGED pie
  /\ UNCHANGED <<pc, kept, ipending, exc_pc, frames, told, taken, astray>>

InterruptRequest ==
  /\ ~ipending
  /\ ipending' = TRUE
  /\ UNCHANGED <<pc, pie, kept, exc_pc, frames, registered, told, taken, astray>>

\* An instruction raises an exception, or an interrupt is taken before it.
Exception(cause) ==
  /\ exc_pc = "run"
  /\ IF cause = INTERRUPT THEN pie /\ ipending /\ pc \in Program \union HandlerCode
                          ELSE pc \in Faulty /\ Len(frames) < MaxFrames
  /\ exception' = cause * 4
  /\ badaddr' = IF alt_exception_cause_generated_bad_addr(cause) THEN pc
                                                               ELSE badaddr
  /\ estatus' = pie /\ pie' = FALSE
  /\ ea' = pc + 1
  /\ Goto_Exc("entry")
  /\ frames' = [i \in DOMAIN frames |-> [frames[i] EXCEPT !.nested = TRUE]]
                 \o <<[at |-> pc, cause |-> cause, nested |-> FALSE,
                       resume |-> 0, pie |-> FALSE, irq |-> FALSE]>>
  /\ UNCHANGED <<pc, ipending, registered, told, taken, astray>>

-----------------------------------------------------------------------------
(* The exception code, with interrupts disabled *)

SetTop(frame) == frames' = [frames EXCEPT ![Len(frames)] = frame]

\* The interrupted instruction, at ea-4, is to be issued again.
ExceptionEntry ==
  /\ exc_pc = "entry"
  /\ SetTop([Top EXCEPT !.resume = ea - 1, !.pie = estatus])
  /\ Goto_Exc("irqtest")
  /\ UNCHANGED <<pc, pie, kept, ipending, registered, told, taken, astray>>

\* Mutant: whatever is pending is handled, wanted or not.
IrqTest_PendingOnly ==
  /\ exc_pc = "irqtest" /\ ipending
  /\ ipending' = FALSE
  /\ SetTop([Top EXCEPT !.irq = TRUE])
  /\ Goto_Exc("exit")
  /\ UNCHANGED <<pc, pie, kept, registered, told, taken, astray>>

\* alt_irq_handler() serves what is pending.
IrqTest ==
  /\ exc_pc = "irqtest" /\ Top.pie /\ ipending
  /\ ipending' = FALSE
  /\ SetTop([Top EXCEPT !.irq = TRUE])
  /\ Goto_Exc("exit")
  /\ UNCHANGED <<pc, pie, kept, registered, told, taken, astray>>

\* Unlike interrupts, the instruction is to be skipped.
NotIrq ==
  /\ exc_pc = "irqtest" /\ ~(Top.pie /\ ipending)
  /\ SetTop([Top EXCEPT !.resume = ea])
  /\ Goto_Exc("unknown")
  /\ UNCHANGED <<pc, pie, kept, ipending, registered, told, taken, astray>>

\* The handler is told the cause, the instruction and BADADDR, whatever is in
\* it; without a handler the processor breaks into the debugger.
alt_instruction_exception_entry ==
  /\ exc_pc = "unknown"
  /\ IF registered
     THEN /\ told' = [cause |-> (exception \div 4) % 32, pc |-> ea - 1,
                      badaddr |-> badaddr]
          /\ pc' = HandlerStart
          /\ Goto_Exc("run")
     ELSE /\ Goto_Exc("break")
          /\ UNCHANGED <<told, pc>>
  /\ UNCHANGED <<pie, kept, ipending, frames, registered, taken, astray>>

\* The handler's answer; ea is read again to issue the instruction again.
HandlerReturns(result) ==
  /\ exc_pc = "run" /\ pc = HandlerEnd
  /\ IF result = SKIP_INST THEN UNCHANGED <<frames, astray>>
     ELSE /\ SetTop([Top EXCEPT !.resume = ea - 1])
          /\ astray' = (ea # Top.at + 1)
  /\ IF result = SKIP_INST THEN Take(Top.at) ELSE UNCHANGED taken
  /\ Goto_Exc("exit")
  /\ UNCHANGED <<pc, pie, kept, ipending, registered, told>>

\* The frame is restored, ea and estatus with it, and eret makes them current.
ExceptionExit ==
  /\ exc_pc = "exit"
  /\ ea' = Top.resume /\ estatus' = Top.pie
  /\ pc' = Top.resume /\ pie' = Top.pie
  /\ frames' = SubSeq(frames, 1, Len(frames) - 1)
  /\ Goto_Exc("run")
  /\ UNCHANGED <<exception, badaddr, ipending, registered, told, taken, astray>>

\* Once a return has gone astray nothing more is said of the program.
ExcNext ==
  /\ ~astray
  /\ \/ Execute \/ Program_Sets \/ InterruptRequest
     \/ \E cause \in Faults \union {INTERRUPT} : Exception(cause)
     \/ ExceptionEntry \/ IrqTest \/ NotIrq \/ alt_instruction_exception_entry
     \/ \E result \in {REISSUE_INST, SKIP_INST} : HandlerReturns(result)
     \/ ExceptionExit

-----------------------------------------------------------------------------
(* Why the properties hold *)

Frame ==
  [at : Program \union HandlerCode, cause : Faults \union {INTERRUPT},
   nested : BOOLEAN, resume : Int, pie : BOOLEAN, irq : BOOLEAN]

ExcTypeOK ==
  /\ pc \in Nat /\ ea \in Nat /\ pie \in BOOLEAN /\ estatus \in BOOLEAN
  /\ ipending \in BOOLEAN /\ astray \in BOOLEAN
  /\ exc_pc \in {"run", "entry", "irqtest", "unknown", "break", "exit"}
  /\ frames \in Seq(Frame) /\ taken \in [Program -> Nat]

\* The first exception is the program's and the others are the handler's; one
\* that has an exception in it waits in its handler, and was not an interrupt.
Stacked ==
  /\ exc_pc # "run" => frames # <<>>
  /\ \A i \in DOMAIN frames :
       /\ frames[i].at \in IF i = 1 THEN Program ELSE HandlerCode
       /\ frames[i].irq => frames[i].pie
       /\ i < Len(frames) => frames[i].nested /\ frames[i].resume = frames[i].at + 1

\* BADADDR is the instruction's own address where the cause says it was set.
BadAddrOf(frame, addr) ==
  alt_exception_cause_generated_bad_addr(frame.cause) => addr = frame.at

\* On the way to the handler the processor still has what the exception left.
Entering ==
  exc_pc \in {"entry", "irqtest", "unknown"} =>
    /\ ea = Top.at + 1 /\ exception = Top.cause * 4 /\ BadAddrOf(Top, badaddr)
    /\ ~Top.nested /\ ~Top.irq
    /\ exc_pc = "irqtest" => Top.resume = Top.at
    /\ exc_pc = "unknown" => Top.resume = Top.at + 1
    /\ Top.cause = INTERRUPT =>
         /\ exc_pc # "unknown" /\ ipending
         /\ IF exc_pc = "entry" THEN estatus ELSE Top.pie

\* In the handler, until it raises an exception itself, what it was told and ea
\* are those of its exception.
Handling ==
  exc_pc = "run" =>
    IF frames = <<>> THEN pc \in 1 .. ProgramEnd
    ELSE /\ pc \in HandlerStart .. HandlerEnd
         /\ Top.resume = Top.at + 1
         /\ ~Top.nested => /\ ea = Top.at + 1
                           /\ told.pc = Top.at /\ told.cause = Top.cause
                           /\ told.cause # INTERRUPT /\ BadAddrOf(Top, told.badaddr)

\* How far the program has come.
Arrived ==
  IF frames = <<>> THEN pc
  ELSE IF exc_pc = "exit" /\ Len(frames) = 1 THEN Top.resume ELSE frames[1].at

FramesInv ==
  /\ ExcTypeOK /\ Stacked /\ Entering /\ Handling
  /\ astray => frames # <<>> /\ Top.nested
  /\ ~astray =>
       /\ exc_pc = "exit" => Top.resume \in {Top.at, Top.at + 1}
       /\ \A i \in Program : taken[i] = IF i < Arrived THEN 1 ELSE 0

-----------------------------------------------------------------------------
(* Properties *)

\* Wherever interrupts and exceptions come, an exception that an interrupt
\* becomes pending beside included: between exceptions the program has executed
\* or skipped every instruction before its pc once and none from there on.  A
\* frame goes on at its own instruction, or after it once that was skipped; the
\* handler is told the instruction that raised the exception it is called for,
\* for which cause, and, if alt_exception_cause_generated_bad_addr() says so, at
\* which address; it is never told of an interrupt, and no interrupt is served
\* where interrupts were disabled.  The one exception
\* is a handler that raised an exception itself and then asks to issue the
\* instruction again: ea is that of the inner exception by then.
ExceptionsInv ==
  /\ FramesInv
  /\ ~astray /\ frames = <<>> =>
       \A i \in Program : taken[i] = IF i < pc THEN 1 ELSE 0
  /\ ~astray /\ exc_pc = "exit" => Top.resume \in {Top.at, Top.at + 1}
  /\ exc_pc = "run" /\ pc = HandlerStart /\ ~Top.nested =>
       /\ told.pc = Top.at /\ told.cause = Top.cause
       /\ told.cause # INTERRUPT
       /\ alt_exception_cause_generated_bad_addr(told.cause) =>
            told.badaddr = Top.at
  /\ \A i \in DOMAIN frames : frames[i].irq => frames[i].pie
  /\ astray => Top.nested
=============================================================================
