--------------------------- MODULE FileCalls_proofs ---------------------------
(***************************************************************************)
(* Proofs about the file descriptors and the calls on them, for any        *)
(* devices and file systems and a pool of any size.                        *)
(***************************************************************************)
EXTENDS FileCalls, TLAPS

-----------------------------------------------------------------------------
(* The pool of descriptors (FdTable) *)

\* The inductive invariant holds at the start.
LEMMA InitInv == Init => IInv
<1> SUFFICES ASSUME Init
             PROVE  IInv
  OBVIOUS
<1> USE DeviceAssumption, PoolAssumption DEF Init, Fd, Standard
<1>1. TypeOK
  BY DEF TypeOK, Stage
<1>2. NoLeak /\ HighWater
  BY DEF NoLeak, HighWater
<1>3. Reserved /\ Flagged /\ Missed
  BY DEF Reserved, Flagged, Missed
<1>4. Started
  BY DEF Started
<1>. QED
  BY <1>1, <1>2, <1>3, <1>4 DEF IInv

\* The first free descriptor is none of the standard streams, and the mark
\* covers it.
LEMMA FreshDescriptor ==
  ASSUME IInv, NEW i \in Fd, FirstFree(i), max_fd' = Mark(i)
  PROVE  /\ i \notin Standard /\ dev[i] = None
         /\ i \notin excl /\ i \notin isdev /\ i \notin held
         /\ max_fd' \in -1 .. MaxFd - 1 /\ max_fd' >= i /\ max_fd' >= max_fd
  BY DeviceAssumption, PoolAssumption
  DEF IInv, TypeOK, NoLeak, Reserved, Flagged, FirstFree, Mark, Fd, Standard

\* Nobody holds the lock of a device that open finds unlocked.
LEMMA NobodyLocks ==
  ASSUME IInv, NEW i \in Fd, FirstFree(i), max_fd' = Mark(i),
         NEW d \in Device \union FileSystem, ~Locked(d, max_fd')
  PROVE  \A k \in excl : dev[k] # d
<1> SUFFICES ASSUME NEW k \in excl, dev[k] = d
             PROVE  FALSE
  OBVIOUS
<1>1. k \in Fd /\ k \in isdev /\ dev[k] \in Device
  BY DEF IInv, TypeOK, Flagged
<1>2. k <= max_fd
  <2>1. CASE k \in Standard
    BY <2>1 DEF IInv, TypeOK, Flagged, Started, Standard
  <2>2. CASE k \notin Standard
    BY <1>1, <2>2, DeviceAssumption DEF IInv, HighWater
  <2>. QED
    BY <2>1, <2>2
<1>3. k <= max_fd'
  BY <1>1, <1>2, FreshDescriptor DEF Fd, IInv, TypeOK
<1>. QED
  BY <1>1, <1>3 DEF Locked

\* A descriptor that is given a device which nobody has locked, and that loses
\* its own lock, keeps the holders of locks before those they share with.
LEMMA GiveMissed ==
  ASSUME IInv, NEW i \in Fd, NEW d \in Device \union FileSystem,
         \A k \in excl : dev[k] # d, i \notin excl,
         dev' = [dev EXCEPT ![i] = d], excl' = excl
  PROVE  Missed'
  BY DEF IInv, TypeOK, Missed

\* The invariant is preserved by open, whether or not it succeeds.
LEMMA OpenInv ==
  ASSUME IInv, NEW i \in Fd, NEW d \in Device \union FileSystem,
         NEW opens \in BOOLEAN, Open(i, d, opens)
  PROVE  IInv'
<1> USE DeviceAssumption, PoolAssumption
<1>1. /\ i \notin Standard /\ dev[i] = None
      /\ i \notin excl /\ i \notin isdev /\ i \notin held
      /\ max_fd' \in -1 .. MaxFd - 1 /\ max_fd' >= i /\ max_fd' >= max_fd
      /\ stage' = stage
  BY FreshDescriptor DEF Open
<1>2. CASE UNCHANGED <<dev, flags, held>>
  <2>1. max_fd \in Int /\ \A k \in Fd : k \in Int
    BY DEF IInv, TypeOK, Fd
  <2>. QED
    BY <1>1, <1>2, <2>1
    DEF IInv, TypeOK, NoLeak, HighWater, Reserved, Flagged, Started, Missed, flags
<1>3. CASE /\ ~Locked(d, max_fd')
           /\ dev' = [dev EXCEPT ![i] = d] /\ Flags(i, d) /\ held' = held \union {i}
  <2>1. \A k \in excl : dev[k] # d
    BY <1>3, NobodyLocks DEF Open
  <2>2. excl' = excl /\ isdev' = IF d \in Device THEN isdev \union {i} ELSE isdev
    BY <1>1, <1>3 DEF Flags
  <2>3. TypeOK'
    BY <1>1, <1>3, <2>2 DEF IInv, TypeOK, Fd
  <2>4. NoLeak' /\ Reserved'
    BY <1>1, <1>3 DEF IInv, TypeOK, NoLeak, Reserved, Fd, Standard
  <2>5. HighWater'
    BY <1>1, <1>3 DEF IInv, TypeOK, HighWater, Fd
  <2>6. Flagged' /\ Started'
    BY <1>1, <1>3, <2>2 DEF IInv, TypeOK, Flagged, Started, Fd
  <2>7. Missed'
    BY <1>1, <1>3, <2>1, <2>2, GiveMissed
  <2>. QED
    BY <2>3, <2>4, <2>5, <2>6, <2>7 DEF IInv
<1>. QED
  BY <1>2, <1>3 DEF Open

\* The invariant is preserved by close, which may leave a lock on a standard
\* stream.
LEMMA CloseInv ==
  ASSUME IInv, NEW i \in Fd, Close(i)
  PROVE  IInv'
<1> USE DeviceAssumption, PoolAssumption
<1>1. CASE i > 2
  <2>1. /\ dev' = [dev EXCEPT ![i] = None] /\ i \notin Standard
        /\ excl' = excl \ {i} /\ isdev' = isdev \ {i} /\ held' = held \ {i}
        /\ UNCHANGED <<stage, max_fd>>
    BY <1>1 DEF Close, Standard
  <2>2. TypeOK'
    BY <2>1 DEF IInv, TypeOK
  <2>3. NoLeak' /\ HighWater' /\ Reserved'
    BY <2>1 DEF IInv, TypeOK, NoLeak, HighWater, Reserved, Fd, Standard
  <2>4. Flagged' /\ Started'
    BY <2>1 DEF IInv, TypeOK, Flagged, Started
  <2>5. \A k \in excl : dev[k] # None
    BY DEF IInv, Flagged
  <2>6. Missed'
    BY <2>1, <2>5 DEF IInv, TypeOK, Missed
  <2>. QED
    BY <2>2, <2>3, <2>4, <2>6 DEF IInv
<1>2. CASE ~(i > 2)
  <2>1. i \in Standard /\ UNCHANGED <<dev, flags, stage, max_fd>> /\ held' = held
    BY <1>2 DEF Close, Standard, Fd, IInv, NoLeak
  <2>. QED
    BY <2>1 DEF IInv, TypeOK, NoLeak, HighWater, Reserved, Flagged, Started, Missed, flags
<1>. QED
  BY <1>1, <1>2

\* The invariant is preserved when a lock is granted: only the last descriptor
\* has not been looked at.
LEMMA LockInv ==
  ASSUME IInv, NEW i \in Fd, Lock(i)
  PROVE  IInv'
<1> USE DeviceAssumption, PoolAssumption
<1>1. i \in isdev /\ excl' = excl \union {i}
      /\ UNCHANGED <<stage, dev, isdev, max_fd, held>>
  BY DEF Lock
<1>2. \A k \in Fd : dev[k] = dev[i] => k = i \/ k >= max_fd
  BY DEF Lock, Shared, Fd, IInv, TypeOK
<1>3. stage = -1 /\ max_fd > 2
  BY DEF IInv, Started, Lock
<1>4. i <= max_fd /\ i \in Int
  BY <1>1, <1>3 DEF IInv, TypeOK, HighWater, Flagged, Fd, Standard
<1>5. TypeOK' /\ NoLeak' /\ HighWater' /\ Reserved' /\ Flagged' /\ Started'
  BY <1>1, <1>3 DEF IInv, TypeOK, NoLeak, HighWater, Reserved, Flagged, Started
<1>6. Missed'
  <2>1. ASSUME NEW j \in excl, dev[j] = dev[i]
        PROVE  j <= i
    BY <2>1 DEF IInv, Missed
  <2>2. ASSUME NEW k \in Fd, dev[k] = dev[i]
        PROVE  i <= k
    BY <1>2, <1>4, <2>2 DEF Fd, IInv, TypeOK
  <2>. QED
    BY <1>1, <2>1, <2>2 DEF IInv, Missed
<1>. QED
  BY <1>5, <1>6 DEF IInv

\* The invariant is preserved by start-up, when there are no locks yet.
LEMMA RedirectInv ==
  ASSUME IInv, NEW i \in Fd, NEW d \in Device \union FileSystem,
         NEW opens \in BOOLEAN, Redirect(i, d, opens)
  PROVE  IInv'
<1> USE DeviceAssumption, PoolAssumption
<1>1. /\ i \notin Standard /\ max_fd' \in -1 .. MaxFd - 1
      /\ max_fd' >= i /\ max_fd' >= max_fd /\ stage \in 0 .. 2 /\ excl = {}
      /\ stage' \in Stage /\ stage' # 1 /\ held' = held
  BY FreshDescriptor DEF Redirect, IInv, TypeOK, Started, Stage, After
<1>2. max_fd \in Int /\ max_fd' > 2 /\ stage \in Fd /\ stage \in Standard
  BY <1>1 DEF IInv, TypeOK, Fd, Standard
<1>3. CASE UNCHANGED <<dev, flags>>
  BY <1>1, <1>2, <1>3
  DEF IInv, TypeOK, NoLeak, HighWater, Reserved, Flagged, Started, Missed, flags, Fd
<1>4. CASE dev' = [dev EXCEPT ![stage] = d] /\ Flags(stage, d)
  <2>1. excl' = {} /\ isdev' = IF d \in Device THEN isdev \union {stage}
                                               ELSE isdev \ {stage}
    BY <1>1, <1>4 DEF Flags
  <2>2. TypeOK'
    BY <1>1, <1>2, <1>4, <2>1 DEF IInv, TypeOK
  <2>3. NoLeak' /\ Reserved'
    BY <1>1, <1>2, <1>4 DEF IInv, TypeOK, NoLeak, Reserved
  <2>4. HighWater'
    BY <1>1, <1>2, <1>4 DEF IInv, TypeOK, HighWater, Fd
  <2>5. Flagged' /\ Started' /\ Missed'
    BY <1>1, <1>2, <1>4, <2>1 DEF IInv, TypeOK, Flagged, Started, Missed
  <2>. QED
    BY <2>2, <2>3, <2>4, <2>5 DEF IInv
<1>. QED
  BY <1>3, <1>4 DEF Redirect

\* The invariant is preserved when a lock is given up.
LEMMA UnlockInv ==
  ASSUME IInv, NEW i \in Fd, Unlock(i)
  PROVE  IInv'
  BY DEF Unlock, IInv, TypeOK, NoLeak, HighWater, Reserved, Flagged, Started, Missed

\* Every step preserves the inductive invariant.
LEMMA NextInv ==
  ASSUME IInv, [Next]_vars
  PROVE  IInv'
<1>1. CASE UNCHANGED vars
  BY <1>1
  DEF vars, flags, IInv, TypeOK, NoLeak, HighWater, Reserved, Flagged, Started, Missed
<1>. QED
  BY <1>1, OpenInv, RedirectInv, CloseInv, LockInv, UnlockInv DEF Next

-----------------------------------------------------------------------------
(* The theorems of the pool *)

\* No descriptor leaks, the high water mark covers the pool, flags are never
\* left behind, and a lock misses the last descriptor at most.
THEOREM Invariance == Spec => []IInv
  BY InitInv, NextInv, PTL DEF Spec

\* The lock of a device is never held twice, although alt_fd_lock does not look
\* at the last descriptor.
THEOREM LockHeldOnce == Spec => []SoleLock
<1>1. IInv => SoleLock
  <2> SUFFICES ASSUME IInv, NEW i \in excl, NEW j \in excl, dev[i] = dev[j]
               PROVE  i = j
    BY DEF SoleLock
  <2>1. i \in Fd /\ j \in Fd
    BY DEF IInv, TypeOK
  <2>2. i <= j /\ j <= i
    BY <2>1 DEF IInv, Missed
  <2>. QED
    BY <2>1, <2>2, PoolAssumption DEF Fd
<1>. QED
  BY <1>1, Invariance, PTL

\* While a device is locked, open fails for everybody else.
THEOREM LockedOut == Spec => KeepsOthersOut
<1>1. ASSUME IInv, [Next]_vars
      PROVE  [\A j \in excl \intersect excl', i \in Fd :
                dev'[i] = dev'[j] => dev[i] = dev[j]]_vars
  <2> SUFFICES ASSUME NEW j \in excl, j \in excl', NEW k \in Fd, dev'[k] = dev'[j], Next
               PROVE  dev[k] = dev[j]
    BY <1>1
  <2>1. j \in Fd /\ dev[j] \in Device /\ stage = -1
    BY <1>1 DEF IInv, TypeOK, Flagged, Started
  <2>2. ASSUME NEW i \in Fd, NEW d \in Device \union FileSystem,
               NEW opens \in BOOLEAN, Open(i, d, opens)
        PROVE  dev[k] = dev[j]
    <3>1. CASE UNCHANGED dev
      BY <3>1
    <3>2. CASE ~Locked(d, max_fd') /\ dev' = [dev EXCEPT ![i] = d]
      <4>1. dev[j] # d /\ i \notin excl
        BY <1>1, <2>2, <3>2, NobodyLocks, FreshDescriptor DEF Open
      <4>. QED
        BY <1>1, <2>1, <3>2, <4>1 DEF IInv, TypeOK
    <3>. QED
      BY <2>2, <3>1, <3>2 DEF Open
  <2>3. ASSUME NEW i \in Fd, Close(i)
        PROVE  dev[k] = dev[j]
    BY <1>1, <2>1, <2>3, DeviceAssumption DEF Close, IInv, TypeOK, flags
  <2>4. ASSUME NEW i \in Fd, Lock(i) \/ Unlock(i)
        PROVE  dev[k] = dev[j]
    BY <2>4 DEF Lock, Unlock
  <2>. QED
    BY <2>1, <2>2, <2>3, <2>4 DEF Next, Redirect
<1>. QED
  BY <1>1, Invariance, PTL DEF Spec, KeepsOthersOut

-----------------------------------------------------------------------------
(* The calls.  What is shown of the pool is theirs, because every step of  *)
(* theirs is one of the pool's or changes nothing there.                   *)

\* A call that changes descriptors is a step of the pool.
LEMMA CallsStep == [CallsNext]_allVars => [Next]_vars
  BY DEF CallsNext, allVars, CallsOpen, CallsRedirect, CallsClose, SetFlags, Next

\* The calls implement the pool of descriptors, so that all that is shown of
\* it holds of them.
THEOREM ImplementsPool == CallsSpec => Spec
<1>1. CallsInit => Init
  BY DEF CallsInit
<1>. QED
  BY <1>1, CallsStep, PTL DEF CallsSpec, Spec

\* At first every flag is clear and nobody holds a descriptor.
LEMMA CallsInitInv == CallsInit => CallsInv
<1> SUFFICES ASSUME CallsInit PROVE CallsInv
  OBVIOUS
<1>1. CallsTypeOK
  BY DEF CallsInit, CallsTypeOK, Mode, Nothing
<1>2. FreeIsClear /\ FlagsAsAsked
  BY DEF CallsInit, Init, FreeIsClear, FlagsAsAsked
<1>. QED
  BY <1>1, <1>2 DEF CallsInv

\* A step of the calls keeps what their holders have asked for.
LEMMA CallsNextInv == ASSUME IInv, CallsInv, [CallsNext]_allVars PROVE CallsInv'
<1> USE DEF CallsInv
<1>1. ASSUME NEW i \in Fd, NEW d \in Device \union FileSystem, NEW opens \in BOOLEAN,
             NEW m \in Mode, NEW o \in SUBSET Option, CallsOpen(i, d, opens, m, o)
      PROVE  CallsInv'
  <2>1. FirstFree(i) /\ i \notin held /\ dev[i] = None /\ i > 2
    BY <1>1, FreshDescriptor DEF CallsOpen, Open, Fd, Standard
  <2>2. CASE i \in held'
    <3>1. dev' = [dev EXCEPT ![i] = d] /\ held' = held \union {i}
      BY <1>1, <2>1, <2>2 DEF CallsOpen, Open
    <3>2. /\ mode' = [mode EXCEPT ![i] = m] /\ opts' = [opts EXCEPT ![i] = o]
          /\ asked' = [asked EXCEPT ![i] = [dev |-> d, mode |-> m]]
      BY <1>1, <2>2 DEF CallsOpen
    <3>3. CallsTypeOK'
      BY <3>2 DEF CallsTypeOK
    <3>4. FreeIsClear'
      BY <3>1, <3>2, DeviceAssumption DEF FreeIsClear, IInv, TypeOK, CallsTypeOK
    <3>5. FlagsAsAsked'
      BY <3>1, <3>2 DEF FlagsAsAsked, IInv, TypeOK, CallsTypeOK
    <3>. QED
      BY <3>3, <3>4, <3>5
  <2>3. CASE i \notin held'
    <3>1. UNCHANGED <<dev, held, callVars>>
      BY <1>1, <2>3 DEF CallsOpen, Open
    <3>. QED
      BY <3>1 DEF callVars, CallsTypeOK, FreeIsClear, FlagsAsAsked
  <2>. QED
    BY <2>2, <2>3
<1>2. ASSUME NEW i \in Fd, NEW d \in Device \union FileSystem, NEW opens \in BOOLEAN,
             CallsRedirect(i, d, opens)
      PROVE  CallsInv'
  <2>1. stage \in Standard /\ stage \in Fd /\ stage \notin held
        /\ asked' = asked /\ held' = held
    BY <1>2, PoolAssumption
       DEF CallsRedirect, Redirect, IInv, TypeOK, NoLeak, Stage, Standard, Fd
  <2>2. CASE Locked(d, max_fd') \/ ~opens
    <3>1. UNCHANGED <<dev, mode, opts>>
      BY <1>2, <2>2 DEF CallsRedirect, Redirect
    <3>. QED
      BY <2>1, <3>1 DEF CallsTypeOK, FreeIsClear, FlagsAsAsked
  <2>3. CASE ~(Locked(d, max_fd') \/ ~opens)
    <3>1. /\ dev' = [dev EXCEPT ![stage] = d] /\ opts' = [opts EXCEPT ![stage] = {}]
          /\ mode' = [mode EXCEPT ![stage] = StreamMode]
      BY <1>2, <2>3 DEF CallsRedirect, Redirect
    <3>2. CallsTypeOK'
      BY <2>1, <3>1 DEF CallsTypeOK, StreamMode, Mode
    <3>3. FreeIsClear'
      BY <2>1, <3>1, DeviceAssumption DEF FreeIsClear, IInv, TypeOK, CallsTypeOK
    <3>4. FlagsAsAsked'
      BY <2>1, <3>1 DEF FlagsAsAsked, IInv, TypeOK, CallsTypeOK
    <3>. QED
      BY <3>2, <3>3, <3>4
  <2>. QED
    BY <2>2, <2>3
<1>3. ASSUME NEW i \in Fd, CallsClose(i) PROVE CallsInv'
  <2>1. asked' = [asked EXCEPT ![i] = Nothing] /\ held' = held \ {i}
    BY <1>3 DEF CallsClose, Close
  <2>2. CASE i > 2
    <3>1. /\ mode' = [mode EXCEPT ![i] = "O_RDONLY"] /\ opts' = [opts EXCEPT ![i] = {}]
          /\ dev' = [dev EXCEPT ![i] = None]
      BY <1>3, <2>2 DEF CallsClose, Close
    <3>. QED
      BY <2>1, <3>1
         DEF CallsTypeOK, FreeIsClear, FlagsAsAsked, Mode, Nothing, IInv, TypeOK
  <2>3. CASE ~(i > 2)
    <3>1. UNCHANGED <<dev, mode, opts>>
      BY <1>3, <2>3 DEF CallsClose, Close
    <3>. QED
      BY <2>1, <3>1
         DEF CallsTypeOK, FreeIsClear, FlagsAsAsked, Mode, Nothing, IInv, TypeOK
  <2>. QED
    BY <2>2, <2>3
<1>4. ASSUME NEW i \in Fd, Lock(i) \/ Unlock(i), UNCHANGED callVars PROVE CallsInv'
  BY <1>4 DEF Lock, Unlock, callVars, CallsTypeOK, FreeIsClear, FlagsAsAsked
<1>5. ASSUME NEW i \in Fd, NEW o \in SUBSET Option, SetFlags(i, o) PROVE CallsInv'
  <2>1. opts' = [opts EXCEPT ![i] = o] /\ UNCHANGED <<dev, held, mode, asked>>
    BY <1>5 DEF SetFlags, vars
  <2>2. dev[i] # None
    BY <1>5 DEF SetFlags, IInv, NoLeak, Reserved
  <2>. QED
    BY <2>1, <2>2 DEF CallsTypeOK, FreeIsClear, FlagsAsAsked
<1>6. CASE UNCHANGED allVars
  BY <1>6 DEF allVars, vars, callVars, CallsTypeOK, FreeIsClear, FlagsAsAsked
<1>. QED
  BY <1>1, <1>2, <1>3, <1>4, <1>5, <1>6 DEF CallsNext

\* Whatever happens to the pool, a descriptor keeps the device and the access
\* mode that its holder has asked for, and leaves none to the next one.
THEOREM CallsInvariance == CallsSpec => []CallsInv
<1>1. CallsSpec => []IInv
  BY ImplementsPool, Invariance
<1>2. IInv /\ CallsInv /\ [CallsNext]_allVars => CallsInv'
  BY CallsNextInv
<1>. QED
  BY <1>1, <1>2, CallsInitInv, PTL DEF CallsSpec

\* A call reaches the driver that was opened, exactly if the access was asked
\* for and the driver has the call.
THEOREM CallsReachTheirDriver == CallsSpec => []AccessAsAsked
<1>1. IInv /\ CallsInv => AccessAsAsked
  <2> SUFFICES ASSUME IInv, CallsInv, NEW i \in held, NEW call \in Call
      PROVE  /\ Vector(call, i) \in Device \union FileSystem =>
                  Vector(call, i) = asked[i].dev /\ Permits(asked[i].mode, call)
             /\ call \in Provides(asked[i].dev) /\ Permits(asked[i].mode, call) =>
                  Vector(call, i) = asked[i].dev
    BY DEF AccessAsAsked
  <2>1. dev[i] = asked[i].dev /\ mode[i] = asked[i].mode
    BY DEF CallsInv, FlagsAsAsked
  <2>2. dev[i] \in Device \union FileSystem
    BY DEF IInv, TypeOK, NoLeak
  <2>3. call = "isatty" => call \notin Provides(dev[i])
    BY <2>2, CallsAssumption
  <2>4. Vector(call, i) = dev[i] \/ Vector(call, i) \in Answer
    BY DEF Vector, Provided, Allowed, OwnAnswer, Answer, Call
  <2>5. Vector(call, i) = dev[i] => Permits(mode[i], call)
    BY <2>2, CallsAssumption DEF Vector, Provided, Allowed, OwnAnswer, Answer, Call, Permits
  <2>6. call \in Provides(dev[i]) /\ Permits(mode[i], call) => Vector(call, i) = dev[i]
    BY <2>3 DEF Vector, Provided, Allowed, OwnAnswer, Permits
  <2>. QED
    BY <2>1, <2>2, <2>4, <2>5, <2>6, CallsAssumption
<1>2. CallsSpec => []IInv
  BY ImplementsPool, Invariance
<1>. QED
  BY <1>1, <1>2, CallsInvariance, PTL
=============================================================================
