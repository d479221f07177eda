------------------------------- MODULE FdTable -------------------------------
(***************************************************************************)
(* The file descriptors of the HAL: the pool with its high water mark,     *)
(* open, close, the exclusive lock of TIOCEXCL, and the redirection of the *)
(* standard streams at start-up.                                           *)
(*                                                                         *)
(* The HAL is built for one thread, where alt_fd_list_lock is nothing: a   *)
(* call is one step.  Drivers may fail to open.                            *)
(***************************************************************************)
EXTENDS Integers

CONSTANTS
  Device, FileSystem,   \* what a name may lead to
  DevNull,              \* alt_dev_null
  None,                 \* no device: the descriptor is free
  MaxFd                 \* ALT_MAX_FD

ASSUME DeviceAssumption ==
  /\ DevNull \in Device
  /\ None \notin Device \union FileSystem
  /\ Device \intersect FileSystem = {}

ASSUME PoolAssumption == MaxFd \in Nat /\ MaxFd > 3

VARIABLES
  stage,      \* the stream that alt_io_redirect is about to redirect, or -1
  dev,        \* alt_fd_list[i].dev
  excl,       \* descriptors with ALT_FD_EXCL
  isdev,      \* descriptors with ALT_FD_DEV
  max_fd,     \* alt_max_fd
  held        \* history: what open has returned and nobody has closed

flags == <<excl, isdev>>
vars == <<stage, dev, flags, max_fd, held>>

Fd == 0 .. MaxFd - 1
Standard == 0 .. 2
Stage == -1 .. 2

Init ==
  /\ stage = 1
  /\ dev = [i \in Fd |-> IF i \in Standard THEN DevNull ELSE None]
  /\ excl = {} /\ isdev = {}
  /\ max_fd = -1 /\ held = {}

\* alt_get_fd takes the first free descriptor.
FirstFree(i) == dev[i] = None /\ \A j \in Fd : dev[j] = None => i <= j

\* The highest descriptor ever allocated, even by an open that fails later.
Mark(i) == IF i > max_fd THEN i ELSE max_fd

\* Mutant: the last descriptor is not looked at.
Locked_StopsEarly(d, max) ==
  d \in Device /\ \E k \in excl : k < max /\ dev[k] = d

\* alt_file_locked, only for devices
Locked(d, max) == d \in Device /\ \E k \in excl : k <= max /\ dev[k] = d

\* A descriptor that is given out has no flag but ALT_FD_DEV.
Flags(i, d) ==
  /\ excl' = excl \ {i}
  /\ isdev' = IF d \in Device THEN isdev \union {i} ELSE isdev \ {i}

\* Mutant: the descriptor is not released when the driver fails.
Open_Leaks(i, d, opens) ==
  /\ stage = -1 /\ FirstFree(i)
  /\ max_fd' = Mark(i)
  /\ IF Locked(d, max_fd') THEN UNCHANGED <<dev, flags, held>>
       ELSE /\ dev' = [dev EXCEPT ![i] = d]
            /\ Flags(i, d)
            /\ held' = IF opens THEN held \union {i} ELSE held
  /\ UNCHANGED stage

\* alt_open: the device may be locked, and its driver may fail; then the
\* descriptor is released again.  Without a free one nothing changes.
Open(i, d, opens) ==
  /\ stage = -1 /\ FirstFree(i)
  /\ max_fd' = Mark(i)
  /\ IF Locked(d, max_fd') \/ ~opens THEN UNCHANGED <<dev, flags, held>>
       ELSE /\ dev' = [dev EXCEPT ![i] = d]
            /\ Flags(i, d)
            /\ held' = held \union {i}
  /\ UNCHANGED stage

\* alt_close and alt_release_fd, whatever the driver says of it: the standard
\* streams keep their device and their flags.
Close(i) ==
  /\ stage = -1 /\ i \in held \union Standard
  /\ IF i > 2
       THEN /\ dev' = [dev EXCEPT ![i] = None]
            /\ excl' = excl \ {i} /\ isdev' = isdev \ {i}
       ELSE UNCHANGED <<dev, flags>>
  /\ held' = held \ {i}
  /\ UNCHANGED <<stage, max_fd>>

\* Mutant: the loop ends one descriptor earlier.
Shared_StopsEarly(i) ==
  \E k \in 0 .. max_fd - 2 : k # i /\ dev[k] = dev[i]

\* What alt_fd_lock finds: it does not look at the descriptor max_fd.
Shared(i) == \E k \in 0 .. max_fd - 1 : k # i /\ dev[k] = dev[i]

\* ioctl(TIOCEXCL), which only devices have
Lock(i) ==
  /\ stage = -1 /\ i \in held \union Standard
  /\ i \in isdev /\ ~Shared(i)
  /\ excl' = excl \union {i}
  /\ UNCHANGED <<stage, dev, isdev, max_fd, held>>

\* ioctl(TIOCNXCL)
Unlock(i) ==
  /\ stage = -1 /\ i \in held \union Standard
  /\ i \in isdev
  /\ excl' = excl \ {i}
  /\ UNCHANGED <<stage, dev, isdev, max_fd, held>>

\* alt_io_redirect redirects stdout, stdin and stderr in this order.
After(s) == CASE s = 1 -> 0 [] s = 0 -> 2 [] s = 2 -> -1

\* alt_open_fd: the descriptor that open returns is copied and released.  If it
\* returns none the stream stays where it is.
Redirect(i, d, opens) ==
  /\ stage # -1 /\ FirstFree(i)
  /\ max_fd' = Mark(i)
  /\ IF Locked(d, max_fd') \/ ~opens THEN UNCHANGED <<dev, flags>>
       ELSE dev' = [dev EXCEPT ![stage] = d] /\ Flags(stage, d)
  /\ stage' = After(stage)
  /\ UNCHANGED held

Next ==
  \E i \in Fd :
    \/ \E d \in Device \union FileSystem, opens \in BOOLEAN :
         Open(i, d, opens) \/ Redirect(i, d, opens)
    \/ Close(i) \/ Lock(i) \/ Unlock(i)

Spec == Init /\ [][Next]_vars

-----------------------------------------------------------------------------
(* Properties *)

TypeOK ==
  /\ stage \in Stage
  /\ dev \in [Fd -> Device \union FileSystem \union {None}]
  /\ excl \subseteq Fd /\ isdev \subseteq Fd /\ held \subseteq Fd
  /\ max_fd \in -1 .. MaxFd - 1

\* Whatever order open fails, succeeds and close comes in, the descriptors in
\* use outside the standard streams are those that callers hold: none leaks
\* from the pool, and none is given to two callers.
NoLeak == \A i \in Fd : i \in held <=> i \notin Standard /\ dev[i] # None

\* The loops up to the high water mark meet every descriptor in use.
HighWater == \A i \in Fd : dev[i] # None => i \in Standard \/ i <= max_fd

\* The standard streams always have a device, and flags belong to descriptors
\* of devices.
Reserved == \A i \in Standard : dev[i] # None

Flagged ==
  /\ excl \subseteq isdev
  /\ \A i \in isdev : dev[i] \in Device

\* Nothing is locked before the streams are redirected, which moves the high
\* water mark past them.
Started == (stage # -1 => excl = {}) /\ (stage # 1 => max_fd > 2)

\* alt_fd_lock misses the last descriptor only: those who share a device with
\* the holder of its lock come after the holder.
Missed == \A j \in excl, i \in Fd : dev[i] = dev[j] => j <= i

IInv ==
  TypeOK /\ NoLeak /\ HighWater /\ Reserved /\ Flagged /\ Started /\ Missed

\* Although the test for other users is incomplete, two descriptors never hold
\* the lock of one device.
SoleLock == \A i, j \in excl : dev[i] = dev[j] => i = j

\* While a device is locked nobody new gets it.
KeepsOthersOut ==
  [][\A j \in excl \intersect excl', i \in Fd :
       dev'[i] = dev'[j] => dev[i] = dev[j]]_vars

\* What the comment on alt_fd_lock says: the lock is granted when no other
\* open descriptor references the device.
LockIsExclusive == \A j \in excl, i \in Fd : dev[i] = dev[j] => i = j
=============================================================================
