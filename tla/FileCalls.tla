------------------------------ MODULE FileCalls ------------------------------
(***************************************************************************)
(* The calls on open file descriptors: read, write, lseek, fstat, isatty   *)
(* and fcntl, over the descriptors of FdTable.  A descriptor also keeps    *)
(* the access mode and the options it was opened with.                     *)
(*                                                                         *)
(* A call only passes the request on to the driver, so that what matters   *)
(* of it is where it ends: Vector.                                         *)
(***************************************************************************)
EXTENDS FdTable

CONSTANTS
  Provides(_),    \* the calls that a device or a file system implements
  Option          \* O_APPEND and O_NONBLOCK, what fcntl may change

\* What the HAL answers itself
Answer == {"EACCES", "ENOTSUP", "_IFCHR"}

ASSUME CallsAssumption ==
  /\ Provides(DevNull) = {"write"}
  /\ \A d \in Device \union FileSystem : "isatty" \notin Provides(d)
  /\ Answer \intersect (Device \union FileSystem) = {}

VARIABLES
  mode,     \* fd_flags & O_ACCMODE
  opts,     \* fd_flags & ALT_FCNTL_FLAGS_MASK
  asked     \* history: what the holder of each descriptor has asked open for

callVars == <<mode, opts, asked>>
allVars == <<vars, callVars>>

Mode == {"O_RDONLY", "O_WRONLY", "O_RDWR"}
Call == {"read", "write", "lseek", "fstat", "isatty"}
Nothing == [dev |-> None, mode |-> "O_RDONLY"]

\* All the flags of alt_fd_list are 0 at first, which is O_RDONLY.
CallsInit ==
  /\ Init
  /\ mode = [i \in Fd |-> "O_RDONLY"]
  /\ opts = [i \in Fd |-> {}]
  /\ asked = [i \in Fd |-> Nothing]

\* alt_open keeps the flags that it is given, unless it fails.
CallsOpen(i, d, opens, m, o) ==
  /\ Open(i, d, opens)
  /\ IF i \in held'
       THEN /\ mode' = [mode EXCEPT ![i] = m]
            /\ opts' = [opts EXCEPT ![i] = o]
            /\ asked' = [asked EXCEPT ![i] = [dev |-> d, mode |-> m]]
       ELSE UNCHANGED callVars

\* Mutant: the flags of a descriptor survive its release.
CallsClose_KeepsFlags(i) ==
  /\ Close(i)
  /\ asked' = [asked EXCEPT ![i] = Nothing]
  /\ UNCHANGED <<mode, opts>>

\* alt_release_fd clears the flags, but for the standard streams.
CallsClose(i) ==
  /\ Close(i)
  /\ asked' = [asked EXCEPT ![i] = Nothing]
  /\ IF i > 2 THEN /\ mode' = [mode EXCEPT ![i] = "O_RDONLY"]
                   /\ opts' = [opts EXCEPT ![i] = {}]
              ELSE UNCHANGED <<mode, opts>>

\* stdin is opened for reading, stdout and stderr for writing.
StreamMode == IF stage = 0 THEN "O_RDONLY" ELSE "O_WRONLY"

CallsRedirect(i, d, opens) ==
  /\ Redirect(i, d, opens)
  /\ IF Locked(d, max_fd') \/ ~opens THEN UNCHANGED <<mode, opts>>
       ELSE /\ mode' = [mode EXCEPT ![stage] = StreamMode]
            /\ opts' = [opts EXCEPT ![stage] = {}]
  /\ UNCHANGED asked

\* Mutant: F_SETFL writes all of the flags.
SetFlags_All(i, o) ==
  /\ stage = -1 /\ i \in held \union Standard
  /\ opts' = [opts EXCEPT ![i] = o]
  /\ mode' = [mode EXCEPT ![i] = "O_RDONLY"]
  /\ UNCHANGED <<vars, asked>>

\* fcntl(F_SETFL); F_GETFL returns mode and opts, without ALT_FD_FLAGS_MASK.
SetFlags(i, o) ==
  /\ stage = -1 /\ i \in held \union Standard
  /\ opts' = [opts EXCEPT ![i] = o]
  /\ UNCHANGED <<vars, mode, asked>>

CallsNext ==
  \E i \in Fd :
    \/ \E d \in Device \union FileSystem, opens \in BOOLEAN :
         \/ \E m \in Mode, o \in SUBSET Option : CallsOpen(i, d, opens, m, o)
         \/ CallsRedirect(i, d, opens)
    \/ CallsClose(i)
    \/ (Lock(i) \/ Unlock(i)) /\ UNCHANGED callVars
    \/ \E o \in SUBSET Option : SetFlags(i, o)

CallsSpec == CallsInit /\ [][CallsNext]_allVars

\* isatty asks fstat, if there is one.
Provided(call, i) ==
  IF call = "isatty" THEN "fstat" \in Provides(dev[i]) ELSE call \in Provides(dev[i])

\* The access modes in which read and write are passed on
Allowed(call, i) ==
  /\ call = "read" => mode[i] # "O_WRONLY"
  /\ call = "write" => mode[i] # "O_RDONLY"

\* What a driver does not say is "a character device".
OwnAnswer(call) ==
  CASE call \in {"read", "write"} -> "EACCES"
    [] call = "lseek" -> "ENOTSUP"
    [] call \in {"fstat", "isatty"} -> "_IFCHR"

\* Where a call on a descriptor with a device ends: in the driver, or with an
\* answer of the HAL's own.
Vector(call, i) ==
  IF Provided(call, i) /\ Allowed(call, i) THEN dev[i] ELSE OwnAnswer(call)

-----------------------------------------------------------------------------
(* Properties *)

CallsTypeOK ==
  /\ mode \in [Fd -> Mode]
  /\ opts \in [Fd -> SUBSET Option]
  /\ asked \in [Fd -> [dev : Device \union FileSystem \union {None}, mode : Mode]]

\* Nobody inherits the flags of the holder before, and nothing that happens to
\* a descriptor changes what its holder has asked for.
FreeIsClear == \A i \in Fd : dev[i] = None => mode[i] = "O_RDONLY" /\ opts[i] = {}

FlagsAsAsked == \A i \in held : dev[i] = asked[i].dev /\ mode[i] = asked[i].mode

CallsInv == CallsTypeOK /\ FreeIsClear /\ FlagsAsAsked

Permits(m, call) ==
  ~(call = "read" /\ m = "O_WRONLY") /\ ~(call = "write" /\ m = "O_RDONLY")

\* However descriptors are opened, closed, reused, locked and given options, a
\* call on one reaches the driver its holder has opened, if that has the call,
\* and only if the holder has asked for that access.
AccessAsAsked ==
  \A i \in held, call \in Call :
    LET reached == Vector(call, i)
    IN /\ reached \in Device \union FileSystem =>
            reached = asked[i].dev /\ Permits(asked[i].mode, call)
       /\ call \in Provides(asked[i].dev) /\ Permits(asked[i].mode, call) =>
            reached = asked[i].dev
=============================================================================
