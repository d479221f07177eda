------------------------------ MODULE Process ------------------------------
(***************************************************************************)
(* The life of the one process: what alt_main() does around main(), the    *)
(* ways it ends, and the system answers about processes that newlib expects. *)
(*                                                                         *)
(* What the program prints is in newlib's buffer, then in the ring of the  *)
(* JTAG UART's driver, which interrupts empty; here both are counts, and   *)
(* JtagUart has the ring itself.  FdTable has the descriptors, of which    *)
(* only how many are free matters here.                                    *)
(***************************************************************************)
EXTENDS Integers, Sequences, SequencesExt

CONSTANTS
  Ctors, Dtors,   \* entries in __CTOR_LIST__ and in __DTOR_LIST__
  RingSize,       \* characters the driver's ring takes
  FreeFds,        \* descriptors not in use when main() is called
  MaxPrinted      \* bound: characters printed

ASSUME ProcessAssumption ==
  /\ Ctors \in Nat /\ Dtors \in Nat /\ RingSize \in Nat \ {0}
  /\ FreeFds \in Nat /\ MaxPrinted \in Nat

VARIABLES
  life,         \* where the process is between alt_main() and its end
  next,         \* ctor or dtor: entries of the list still to be called
  at_exit,      \* atexit(_do_dtors) was called
  exit_code,
  reported,     \* what the simulator was told: "none", "pass" or "fail"
  result, errno,
  stat_fd,      \* alt_stat's descriptor, -1 if it has none, 0 outside of it
  free,         \* descriptors not in use
  stdout,       \* the descriptor of standard output refers to the device
  interrupts,   \* interrupts are enabled
  host, gone,   \* the host is there; the driver has given it up
  held, ring,   \* characters in newlib's buffer and in the driver's ring
  sent, dropped,   \* history: characters that reached the host, thrown away
  built, undone,\* history: the constructors and destructors called
  absent,       \* history: the driver once gave up the host
  cut           \* history: the process ended other than by exit()

processVars ==
  <<life, next, at_exit, exit_code, reported, result, errno, stat_fd, free,
    stdout, interrupts, host, gone, held, ring, sent, dropped, built, undone,
    absent, cut>>

ending == <<at_exit, exit_code, reported, cut>>
answers == <<result, errno, stat_fd, free>>
line == <<stdout, interrupts, host, gone, absent>>
output == <<held, ring, sent, dropped>>
lists == <<next, built, undone>>

allPrinted == held + ring + sent + dropped

ProcessInit ==
  /\ life = "ctors" /\ next = Ctors /\ built = <<>> /\ undone = <<>>
  /\ at_exit = FALSE /\ exit_code = 0 /\ reported = "none" /\ cut = FALSE
  /\ result = 0 /\ errno = "none" /\ stat_fd = 0 /\ free = FreeFds
  /\ stdout = TRUE /\ interrupts = TRUE
  /\ host = TRUE /\ gone = FALSE /\ absent = FALSE
  /\ held = 0 /\ ring = 0 /\ sent = 0 /\ dropped = 0

-----------------------------------------------------------------------------
(* alt_main() *)

\* _do_ctors: from the end of the list to its beginning; then its counterpart is
\* put on the list of exit(), and main() is called.
do_ctors ==
  /\ life = "ctors"
  /\ IF next > 0
     THEN /\ built' = Append(built, next) /\ next' = next - 1
          /\ UNCHANGED <<life, at_exit>>
     ELSE /\ at_exit' = TRUE /\ life' = "main"
          /\ UNCHANGED <<built, next>>
  /\ UNCHANGED <<exit_code, reported, cut, undone, answers, line, output>>

MainReturns(code) ==
  /\ life = "main" /\ stat_fd = 0
  /\ exit_code' = code
  /\ life' = "close"
  /\ UNCHANGED <<at_exit, reported, cut, lists, answers, line, output>>

\* Closing waits for the driver's ring to run dry, or gives the host up.
Drained == ring = 0 \/ gone

\* Mutant: a standard stream is released like any descriptor.
Released_Any(fd) == fd >= 0

\* alt_release_fd leaves the standard streams alone.
Released(fd) == fd > 2

\* close(STDOUT_FILENO)
CloseStdout ==
  /\ life = "close" /\ Drained
  /\ stdout' = (stdout /\ ~Released(1))
  /\ life' = "exit"
  /\ UNCHANGED <<interrupts, host, gone, absent, ending, lists, answers, output>>

\* exit() and _exit(), called by main or by a constructor.
Leaves(way, code) ==
  /\ life \in {"ctors", "main"} /\ stat_fd = 0
  /\ life' = way /\ exit_code' = code /\ cut' = (way = "_exit")
  /\ UNCHANGED <<at_exit, reported, lists, answers, line, output>>

\* exit(): the functions given to atexit, then newlib's buffers.
Exit ==
  /\ life = "exit"
  /\ IF at_exit THEN life' = "dtors" /\ next' = Dtors
                ELSE life' = "flush" /\ UNCHANGED next
  /\ UNCHANGED <<built, undone, ending, answers, line, output>>

do_dtors ==
  /\ life = "dtors"
  /\ IF next > 0
     THEN undone' = Append(undone, next) /\ next' = next - 1 /\ UNCHANGED life
     ELSE life' = "flush" /\ UNCHANGED <<undone, next>>
  /\ UNCHANGED <<built, ending, answers, line, output>>

Flushed ==
  /\ life = "flush" /\ held = 0
  /\ life' = "_exit"
  /\ UNCHANGED <<ending, lists, answers, line, output>>

\* alt_sim_halt, called by _exit before it spins: pass or fail.
alt_sim_halt(code) == IF code # 0 THEN "fail" ELSE "pass"

ALT_EXIT ==
  /\ life = "_exit"
  /\ reported' = alt_sim_halt(exit_code)
  /\ life' = "stopped"
  /\ UNCHANGED <<at_exit, exit_code, cut, lists, answers, line, output>>

-----------------------------------------------------------------------------
(* What the program prints *)

Running == life \in {"ctors", "main", "dtors"}

PutsChar ==
  /\ Running /\ stat_fd = 0 /\ allPrinted < MaxPrinted
  /\ held' = held + 1
  /\ UNCHANGED <<life, ring, sent, dropped, ending, lists, answers, line>>

\* A character of newlib's buffer goes to the driver, which waits for room or
\* gives the host up; what cannot be written is thrown away.
WritesChar ==
  /\ Running \/ life = "flush"
  /\ stat_fd = 0 /\ held > 0
  /\ \/ /\ stdout /\ ring < RingSize
        /\ held' = held - 1 /\ ring' = ring + 1 /\ UNCHANGED dropped
     \/ /\ ~stdout \/ (ring = RingSize /\ gone)
        /\ held' = 0 /\ dropped' = dropped + held /\ UNCHANGED ring
  /\ UNCHANGED <<life, sent, ending, lists, answers, line>>

\* The interrupt that empties the ring: the end of the process is no end to it.
Interrupt ==
  /\ interrupts /\ host /\ ring > 0
  /\ ring' = ring - 1 /\ sent' = sent + 1
  /\ UNCHANGED <<life, held, dropped, ending, lists, answers, line>>

\* The alarm that watches the host.
Watch ==
  /\ interrupts /\ gone # ~host
  /\ gone' = ~host /\ absent' = (absent \/ ~host)
  /\ UNCHANGED <<life, stdout, interrupts, host, ending, lists, answers, output>>

HostMoves ==
  /\ host' = ~host
  /\ UNCHANGED <<life, stdout, interrupts, gone, absent, ending, lists, answers,
                 output>>

\* A critical section of main, which also ends in one by exit() or a signal.
Toggle ==
  /\ life = "main" /\ interrupts' = ~interrupts
  /\ UNCHANGED <<life, stdout, host, gone, absent, ending, lists, answers, output>>

-----------------------------------------------------------------------------
(* System answers *)

Calling == life = "main" /\ stat_fd = 0

Returns(value, error) ==
  /\ result' = value
  /\ errno' = IF error = "none" THEN errno ELSE error

getpid == 0

\* Signals whose default is the end of the process, and those it ignores.
Fatal ==
  {"SIGABRT", "SIGALRM", "SIGFPE", "SIGILL", "SIGKILL", "SIGPIPE", "SIGQUIT",
   "SIGSEGV", "SIGTERM", "SIGUSR1", "SIGUSR2", "SIGBUS", "SIGPOLL", "SIGPROF",
   "SIGSYS", "SIGTRAP", "SIGVTALRM", "SIGXCPU", "SIGXFSZ"}
Ignored == {"null", "SIGCHLD", "SIGURG"}
Signals == Fatal \union Ignored \union {"SIGHUP"}

ALT_KILL(pid, sig) ==
  /\ Calling
  /\ IF pid <= 0 /\ sig \in Fatal
     THEN /\ life' = "_exit" /\ exit_code' = 0 /\ cut' = TRUE
          /\ UNCHANGED <<result, errno>>
     ELSE /\ IF pid > 0 THEN Returns(-1, "ESRCH")
             ELSE IF sig \in Ignored THEN Returns(0, "none")
             ELSE Returns(-1, "EINVAL")
          /\ UNCHANGED <<life, exit_code, cut>>
  /\ UNCHANGED <<at_exit, reported, stat_fd, free, lists, line, output>>

\* There are no other processes, and no file can be linked, renamed or removed.
ALT_WAIT == Calling /\ Returns(-1, "ECHILD")
ALT_FORK == Calling /\ Returns(-1, "ENOSYS")
ALT_EXECVE == Calling /\ Returns(-1, "ENOSYS")
ALT_LINK == Calling /\ Returns(-1, "ENOSYS")
ALT_UNLINK == Calling /\ Returns(-1, "ENOSYS")
ALT_RENAME == Calling /\ Returns(-1, "ENOSYS")

Stubs ==
  /\ ALT_WAIT \/ ALT_FORK \/ ALT_EXECVE \/ ALT_LINK \/ ALT_UNLINK \/ ALT_RENAME
  /\ UNCHANGED <<life, stat_fd, free, ending, lists, line, output>>

\* stat() opens the file and goes on with what open returned.
StatOpen(known) ==
  /\ Calling
  /\ IF known /\ free > 0
     THEN stat_fd' = 3 /\ free' = free - 1 /\ UNCHANGED <<result, errno>>
     ELSE /\ stat_fd' = -1 /\ UNCHANGED free
          /\ Returns(-1, IF known THEN "EMFILE" ELSE "ENODEV")
  /\ UNCHANGED <<life, ending, lists, line, output>>

\* fstat() and close(), each with errors of its own; closing the JTAG UART waits.
StatClose ==
  /\ stat_fd # 0
  /\ IF stat_fd < 0
     THEN Returns(-1, "EBADFD") /\ UNCHANGED free
     ELSE Drained /\ Returns(0, "none") /\ free' = free + 1
  /\ stat_fd' = 0
  /\ UNCHANGED <<life, ending, lists, line, output>>

ProcessNext ==
  \/ do_ctors \/ do_dtors
  \/ \E code \in 0 .. 1 : MainReturns(code)
  \/ \E code \in 0 .. 1, way \in {"exit", "_exit"} : Leaves(way, code)
  \/ CloseStdout \/ Exit \/ Flushed \/ ALT_EXIT
  \/ PutsChar \/ WritesChar \/ Interrupt \/ Watch \/ HostMoves \/ Toggle
  \/ \E pid \in {-1, getpid, 1}, sig \in Signals : ALT_KILL(pid, sig)
  \/ Stubs
  \/ \E known \in BOOLEAN : StatOpen(known)
  \/ StatClose

-----------------------------------------------------------------------------
(* Why the properties hold: what each place in the process's life knows    *)

\* called is the beginning of a list of n entries that is run from its end.
FromTheEnd(called, n) ==
  /\ called \in Seq(1 .. n) /\ Len(called) <= n
  /\ \A k \in 1 .. Len(called) : called[k] = n + 1 - k

Ended == life \in {"_exit", "stopped"}

LifeInv ==
  /\ life \in {"ctors", "main", "close", "exit", "dtors", "flush", "_exit", "stopped"}
  /\ FromTheEnd(built, Ctors) /\ FromTheEnd(undone, Dtors)
  /\ life = "ctors" => next = Ctors - Len(built)
  /\ at_exit => Len(built) = Ctors
  /\ life \in {"main", "close", "dtors"} => at_exit
  /\ life = "dtors" => next = Dtors - Len(undone)
  /\ undone # <<>> => at_exit /\ ~cut /\ (life \in {"dtors", "flush"} \/ Ended)
  /\ (life = "flush" \/ Ended) /\ ~cut /\ at_exit => Len(undone) = Dtors
  /\ cut => Ended
  /\ Ended /\ ~cut => held = 0
  /\ stdout /\ (gone => absent) /\ (~absent => dropped = 0)
  /\ life = "stopped" => reported = alt_sim_halt(exit_code)
  /\ stat_fd \in {-1, 0, 3} /\ free = (IF stat_fd = 3 THEN FreeFds - 1 ELSE FreeFds)

-----------------------------------------------------------------------------
(* Properties *)

Downwards(n) == [k \in 1 .. n |-> n + 1 - k]

\* The constructors run once each, from the end of their list, before main();
\* the destructors run once each after it, and only if exit() was called after
\* the constructors were done.  A process that ended by exit() leaves nothing
\* behind in newlib's buffer, and has dropped nothing of what it printed unless the
\* host was given up: neither its destructors' output nor what was still held
\* when alt_main() closed standard output.  Interrupts still send what is in the
\* ring.  A descriptor that stat() took is given back, whatever it found.
ProcessInv ==
  /\ LifeInv
  /\ IsPrefix(built, Downwards(Ctors)) /\ IsPrefix(undone, Downwards(Dtors))
  /\ life = "main" => built = Downwards(Ctors)
  /\ undone # <<>> => built = Downwards(Ctors)
  /\ life = "stopped" /\ ~cut =>
       /\ held = 0
       /\ at_exit => undone = Downwards(Dtors)
       /\ ~absent => dropped = 0
       /\ reported = "pass" <=> exit_code = 0
  /\ life = "stopped" /\ cut => undone = <<>>
  /\ stat_fd = 0 => free = FreeFds
=============================================================================
