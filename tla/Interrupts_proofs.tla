-------------------------- MODULE Interrupts_proofs --------------------------
(***************************************************************************)
(* Proofs about the interrupts: the invariants of Interrupts hold for any  *)
(* number of interrupts and any choice of handlers that let others in.     *)
(***************************************************************************)
EXTENDS Interrupts, TLAPS

\* The invariants hold at reset, whatever the control register holds.
LEMMA InitInv == Init => IInv /\ TicksKept
<1> SUFFICES ASSUME Init PROVE IInv /\ TicksKept
  OBVIOUS
<1> USE IrqAssumption DEF Init, Irq, Level, Opened
<1>1. TypeOK
  <2>1. depth \in 0 .. NIRQ + 1 /\ owed \in Int /\ id \in Irq
    OBVIOUS
  <2>2. pc \in [Level -> FramePc] /\ irq \in [Level -> Irq]
    BY DEF FramePc
  <2>3. found \in [Level -> SUBSET Irq] /\ old \in [Level -> SUBSET Irq]
    OBVIOUS
  <2>. QED
    BY <2>1, <2>2, <2>3 DEF TypeOK, Boot, ThreadPc
<1>2. WhoIsOpen /\ ByPriority /\ HasHandler
  BY DEF WhoIsOpen, ByPriority, Placed, HasHandler
<1>3. mask = MaskOf(IF depth > 0 /\ pc[depth] \notin Opened THEN depth - 1 ELSE depth)
  BY DEF MaskOf
<1>4. Masked /\ SearchEnds
  BY <1>3 DEF Masked, SearchEnds
<1>5. TicksKept
  BY DEF TicksKept, Counting
<1>. QED
  BY <1>1, <1>2, <1>4, <1>5 DEF IInv

\* A call of the thread keeps the types.
LEMMA CallType ==
  ASSUME TypeOK, NEW p \in ThreadPc, NEW i \in Irq, NEW on \in BOOLEAN,
         DisableAll(p, i, on), boot' \in Boot
  PROVE  TypeOK'
  BY DEF TypeOK, DisableAll, frames

\* So does every other step.
LEMMA TypeStep == ASSUME TypeOK, [Next]_vars PROVE TypeOK'
<1> USE DEF TypeOK, Irq, Level, Boot, ThreadPc, FramePc, calls, boots, cpu, frames
<1>1. CASE IrqInit
  BY <1>1 DEF IrqInit
<1>2. CASE StartTimer
  BY <1>2 DEF StartTimer
<1>3. CASE InitDriver
  <2>1. Timer \in Irq /\ Jtag \in Irq /\ (boot' \in Boot)
    BY <1>3, IrqAssumption DEF InitDriver
  <2>. HIDE DEF TypeOK, Irq
  <2>. QED
    BY <1>3, <2>1, CallType DEF InitDriver
<1>4. CASE Call
  <2>1. 0 \in Irq /\ registered \subseteq Irq /\ boot' \in Boot
    BY <1>4, IrqAssumption DEF Call
  <2>. HIDE DEF TypeOK, Irq
  <2>. QED
    BY <1>4, <2>1, CallType DEF Call
<1>5. CASE Store
  BY <1>5 DEF Store
<1>6. CASE Enable
  BY <1>6 DEF Enable
<1>7. CASE EnableAll
  <2>1. pie' \in BOOLEAN /\ status' \in BOOLEAN
    BY <1>7 DEF EnableAll
  <2>2. 0 \in Irq
    BY IrqAssumption
  <2>. QED
    BY <1>7, <2>1, <2>2 DEF EnableAll
<1>8. CASE Enter
  <2>1. depth' \in 0 .. NIRQ + 1 /\ depth + 1 \in Level
    BY <1>8, IrqAssumption DEF Enter
  <2>2. pc' \in [Level -> FramePc]
    BY <1>8, <2>1 DEF Enter
  <2>. HIDE DEF Level, FramePc
  <2>. QED
    BY <1>8, <2>1, <2>2 DEF Enter
<1>9. CASE Look
  BY <1>9 DEF Look, HandlerRuns, Pending
<1>10. CASE TimerClear
  BY <1>10 DEF TimerClear, HandlerRuns
<1>11. CASE TimerCount
  BY <1>11 DEF TimerCount, HandlerRuns
<1>12. CASE Serve
  BY <1>12 DEF Serve, HandlerRuns
<1>13. CASE Interruptible
  <2>1. mask' \in SUBSET Irq /\ ienable' \in SUBSET Irq
    <3>1. depth \in Level
      BY <1>13 DEF Interruptible, HandlerRuns
    <3>2. irq[depth] \in 0 .. NIRQ - 1
      BY <3>1
    <3>3. mask' = 0 .. irq[depth] - 1
      BY <1>13 DEF Interruptible, Above, top
    <3>4. ienable' \subseteq active
      BY <1>13 DEF Interruptible
    <3>. QED
      BY <3>2, <3>3, <3>4, IrqAssumption
  <2>2. pc' \in [Level -> FramePc] /\ old' \in [Level -> SUBSET Irq]
    BY <1>13 DEF Interruptible
  <2>. HIDE DEF Level, FramePc, Irq
  <2>. QED
    BY <1>13, <2>1, <2>2 DEF Interruptible
<1>14. CASE ServeOpen
  BY <1>14 DEF ServeOpen, HandlerRuns
<1>15. CASE NonInterruptible
  <2>1. mask' \in SUBSET Irq /\ ienable' \in SUBSET Irq
    BY <1>15 DEF NonInterruptible, HandlerRuns
  <2>2. pc' \in [Level -> FramePc]
    BY <1>15 DEF NonInterruptible
  <2>. HIDE DEF Level, FramePc, Irq
  <2>. QED
    BY <1>15, <2>1, <2>2 DEF NonInterruptible
<1>16. CASE Again
  BY <1>16 DEF Again, HandlerRuns, Pending
<1>17. CASE Return
  BY <1>17, IrqAssumption DEF Return, HandlerRuns
<1>18. CASE Timeout
  BY <1>18, IrqAssumption DEF Timeout
<1>19. ASSUME NEW i \in Irq, Dispatch(i) PROVE TypeOK'
  BY <1>19 DEF Dispatch, HandlerRuns
<1>20. ASSUME NEW i \in Irq, Raise(i) PROVE TypeOK'
  BY <1>20 DEF Raise
<1>21. CASE UNCHANGED vars
  BY <1>21 DEF vars
<1>. QED
  BY <1>1, <1>2, <1>3, <1>4, <1>5, <1>6, <1>7, <1>8, <1>9, <1>10, <1>11, <1>12, <1>13, <1>14, <1>15, <1>16, <1>17, <1>18, <1>19, <1>20, <1>21
     DEF Next, Thread, Handler

\* A step of the thread keeps the invariant.
LEMMA ThreadStep == ASSUME IInv, TypeOK', Thread PROVE IInv'
<1> USE DEF IInv, Opened, calls, boots, cpu, frames, ThreadRuns
<1>1. CASE IrqInit
  <2>0. boot' # "irq_init"
    BY <1>1 DEF IrqInit, WhoIsOpen
  <2>1. depth = 0 /\ UNCHANGED frames
    BY <1>1 DEF IrqInit, WhoIsOpen
  <2>2. WhoIsOpen'
    BY <1>1, <2>1 DEF IrqInit, WhoIsOpen, TypeOK
  <2>3. Masked'
    <3>1. mask' = Irq
      BY <1>1, <2>1 DEF IrqInit, Masked, MaskOf
    <3>2. ienable' = active' \intersect mask'
      BY <1>1, <2>1, <3>1 DEF IrqInit, Masked, TypeOK, WhoIsOpen
    <3>. QED
      BY <2>0, <2>1, <3>1, <3>2 DEF Masked, MaskOf
  <2>4. HasHandler'
    BY <1>1 DEF IrqInit, HasHandler
  <2>5. ByPriority' /\ SearchEnds'
    BY <2>1 DEF ByPriority, SearchEnds
  <2>. QED
    BY <2>2, <2>3, <2>4, <2>5
<1>2. CASE StartTimer
  <2>0. boot' # "irq_init"
    BY <1>2 DEF StartTimer, WhoIsOpen
  <2>1. depth = 0 /\ UNCHANGED frames
    BY <1>2 DEF StartTimer, WhoIsOpen
  <2>2. WhoIsOpen'
    BY <1>2, <2>1 DEF StartTimer, WhoIsOpen, TypeOK
  <2>3. Masked'
    <3>1. mask' = Irq
      BY <1>2, <2>1 DEF StartTimer, Masked, MaskOf
    <3>2. ienable' = active' \intersect mask'
      BY <1>2, <2>1, <3>1 DEF StartTimer, Masked, TypeOK, WhoIsOpen
    <3>. QED
      BY <2>0, <2>1, <3>1, <3>2 DEF Masked, MaskOf
  <2>4. HasHandler'
    BY <1>2 DEF StartTimer, HasHandler
  <2>5. ByPriority' /\ SearchEnds'
    BY <2>1 DEF ByPriority, SearchEnds
  <2>. QED
    BY <2>2, <2>3, <2>4, <2>5
<1>3. CASE InitDriver
  <2>0. boot' # "irq_init"
    BY <1>3 DEF InitDriver, DisableAll, WhoIsOpen
  <2>1. depth = 0 /\ UNCHANGED frames
    BY <1>3 DEF InitDriver, DisableAll, WhoIsOpen
  <2>2. WhoIsOpen'
    BY <1>3, <2>1 DEF InitDriver, DisableAll, WhoIsOpen, TypeOK
  <2>3. Masked'
    <3>1. mask' = Irq
      BY <1>3, <2>1 DEF InitDriver, DisableAll, Masked, MaskOf
    <3>2. ienable' = active' \intersect mask'
      BY <1>3, <2>1, <3>1 DEF InitDriver, DisableAll, Masked, TypeOK, WhoIsOpen
    <3>. QED
      BY <2>0, <2>1, <3>1, <3>2 DEF Masked, MaskOf
  <2>4. HasHandler'
    BY <1>3 DEF InitDriver, DisableAll, HasHandler
  <2>5. ByPriority' /\ SearchEnds'
    BY <2>1 DEF ByPriority, SearchEnds
  <2>. QED
    BY <2>2, <2>3, <2>4, <2>5
<1>4. CASE Call
  <2>0. boot' # "irq_init"
    BY <1>4 DEF Call, DisableAll, WhoIsOpen
  <2>1. depth = 0 /\ UNCHANGED frames
    BY <1>4 DEF Call, DisableAll, WhoIsOpen
  <2>2. WhoIsOpen'
    BY <1>4, <2>1 DEF Call, DisableAll, WhoIsOpen, TypeOK
  <2>3. Masked'
    <3>1. mask' = Irq
      BY <1>4, <2>1 DEF Call, DisableAll, Masked, MaskOf
    <3>2. ienable' = active' \intersect mask'
      BY <1>4, <2>1, <3>1 DEF Call, DisableAll, Masked, TypeOK, WhoIsOpen
    <3>. QED
      BY <2>0, <2>1, <3>1, <3>2 DEF Masked, MaskOf
  <2>4. HasHandler'
    BY <1>4 DEF Call, DisableAll, HasHandler
  <2>5. ByPriority' /\ SearchEnds'
    BY <2>1 DEF ByPriority, SearchEnds
  <2>. QED
    BY <2>2, <2>3, <2>4, <2>5
<1>5. CASE Store
  <2>0. boot' # "irq_init"
    BY <1>5 DEF Store, WhoIsOpen
  <2>1. depth = 0 /\ UNCHANGED frames
    BY <1>5 DEF Store, WhoIsOpen
  <2>2. WhoIsOpen'
    BY <1>5, <2>1 DEF Store, WhoIsOpen, TypeOK
  <2>3. Masked'
    <3>1. mask' = Irq
      BY <1>5, <2>1 DEF Store, Masked, MaskOf
    <3>2. ienable' = active' \intersect mask'
      BY <1>5, <2>1, <3>1 DEF Store, Masked, TypeOK, WhoIsOpen
    <3>. QED
      BY <2>0, <2>1, <3>1, <3>2 DEF Masked, MaskOf
  <2>4. HasHandler'
    BY <1>5 DEF Store, HasHandler
  <2>5. ByPriority' /\ SearchEnds'
    BY <2>1 DEF ByPriority, SearchEnds
  <2>. QED
    BY <2>2, <2>3, <2>4, <2>5
<1>6. CASE Enable
  <2>0. boot' # "irq_init"
    BY <1>6 DEF Enable, WhoIsOpen
  <2>1. depth = 0 /\ UNCHANGED frames
    BY <1>6 DEF Enable, WhoIsOpen
  <2>2. WhoIsOpen'
    BY <1>6, <2>1 DEF Enable, WhoIsOpen, TypeOK
  <2>3. Masked'
    <3>1. mask' = Irq
      BY <1>6, <2>1 DEF Enable, Masked, MaskOf
    <3>2. ienable' = active' \intersect mask'
      BY <1>6, <2>1, <3>1 DEF Enable, Masked, TypeOK, WhoIsOpen
    <3>. QED
      BY <2>0, <2>1, <3>1, <3>2 DEF Masked, MaskOf
  <2>4. HasHandler'
    BY <1>6 DEF Enable, HasHandler
  <2>5. ByPriority' /\ SearchEnds'
    BY <2>1 DEF ByPriority, SearchEnds
  <2>. QED
    BY <2>2, <2>3, <2>4, <2>5
<1>7. CASE EnableAll
  <2>0. boot' # "irq_init"
    BY <1>7 DEF EnableAll, WhoIsOpen
  <2>1. depth = 0 /\ UNCHANGED frames
    BY <1>7 DEF EnableAll, WhoIsOpen
  <2>2. WhoIsOpen'
    BY <1>7, <2>1 DEF EnableAll, WhoIsOpen, TypeOK
  <2>3. Masked'
    <3>1. mask' = Irq
      BY <1>7, <2>1 DEF EnableAll, Masked, MaskOf
    <3>2. ienable' = active' \intersect mask'
      BY <1>7, <2>1, <3>1 DEF EnableAll, Masked, TypeOK, WhoIsOpen
    <3>. QED
      BY <2>0, <2>1, <3>1, <3>2 DEF Masked, MaskOf
  <2>4. HasHandler'
    BY <1>7 DEF EnableAll, HasHandler
  <2>5. ByPriority' /\ SearchEnds'
    BY <2>1 DEF ByPriority, SearchEnds
  <2>. QED
    BY <2>2, <2>3, <2>4, <2>5
<1>. QED
  BY <1>1, <1>2, <1>3, <1>4, <1>5, <1>6, <1>7 DEF Thread

\* A step that only moves the innermost activation, whose handler has not let
\* others in, leaves the rest as it is.
LEMMA Quiet ==
  ASSUME IInv, TypeOK', depth > 0, pc[depth] \notin Opened,
         NEW p \in FramePc \ Opened, pc' = [pc EXCEPT ![depth] = p],
         UNCHANGED <<boots, cpu, depth, old>>,
         irq' = irq \/ \E i \in Irq : irq' = [irq EXCEPT ![depth] = i],
         Placed(depth)'
  PROVE  WhoIsOpen' /\ Masked' /\ HasHandler' /\ ByPriority'
<1> USE DEF IInv
<1>1. depth \in Level /\ depth' = depth /\ depth \in Int
  BY DEF TypeOK, Level
<1>2. pc'[depth] = p /\ \A n \in 1 .. depth - 1 : pc'[n] = pc[n] /\ irq'[n] = irq[n]
  <2>1. pc'[depth] = p /\ \A n \in 1 .. depth - 1 : pc'[n] = pc[n]
    BY <1>1 DEF TypeOK, Level
  <2>2. ASSUME NEW i \in Irq, irq' = [irq EXCEPT ![depth] = i]
        PROVE  \A n \in 1 .. depth - 1 : irq'[n] = irq[n]
    BY <1>1, <2>2 DEF TypeOK, Level
  <2>. QED
    BY <2>1, <2>2
<1>3. \A n \in 0 .. depth - 1 : (MaskOf(n))' = MaskOf(n)
  BY <1>1, <1>2 DEF MaskOf
<1>4. WhoIsOpen'
  BY <1>1, <1>2 DEF WhoIsOpen, boots, calls, cpu
<1>5. Masked'
  <2>1. mask' = (MaskOf(depth - 1))'
    BY <1>1, <1>3 DEF Masked, cpu
  <2>2. \A n \in 1 .. depth - 1 : pc'[n] \in Opened => old'[n] = (MaskOf(n - 1))'
    BY <1>1, <1>2, <1>3 DEF Masked
  <2>3. IF boot' = "irq_init" THEN active' = {} ELSE ienable' = active' \intersect mask'
    BY DEF Masked, boots, cpu
  <2>. QED
    BY <1>1, <1>2, <2>1, <2>2, <2>3 DEF Masked
<1>6. HasHandler'
  BY DEF HasHandler, boots, calls, cpu
<1>7. \A n \in 1 .. depth - 1 : (Placed(n))'
  BY <1>1, <1>2, <1>3 DEF ByPriority, Placed
<1>8. ByPriority'
  BY <1>1, <1>7 DEF ByPriority, Placed
<1>. QED
  BY <1>4, <1>5, <1>6, <1>8

\* The innermost activation is a level of the stack, and it is placed.
LEMMA TopLevel ==
  ASSUME IInv, depth > 0
  PROVE  /\ depth \in Level /\ depth \in 1 .. NIRQ /\ irq[depth] \in Irq
         /\ pc[depth] \in FramePc /\ Placed(depth)
<1>1. depth \in Level /\ depth \in Nat /\ depth \in 1 .. depth
  BY DEF IInv, TypeOK, Level
<1>2. irq[depth] \in Irq /\ pc[depth] \in FramePc
  BY <1>1 DEF IInv, TypeOK
<1>3. Placed(depth)
  BY <1>1 DEF IInv, ByPriority
<1>4. depth <= NIRQ
  BY <1>1, <1>2, <1>3, IrqAssumption DEF Placed, Irq
<1>. QED
  BY <1>1, <1>2, <1>3, <1>4

\* The steps of a handler that runs alone keep the invariant.
LEMMA ClosedStep ==
  ASSUME IInv, TypeOK', NEW i \in Irq,
         Look \/ Again \/ Dispatch(i) \/ TimerClear \/ TimerCount \/ Serve
  PROVE  IInv'
<1>1. depth > 0 /\ pc[depth] \notin Opened
  BY DEF Look, Again, Dispatch, TimerClear, TimerCount, Serve, HandlerRuns, Opened
<1>2. ~pie
  BY <1>1 DEF IInv, WhoIsOpen
<1> USE TopLevel, <1>1
<1>3. depth - 1 \in Int /\ mask = MaskOf(depth - 1)
  BY DEF IInv, Masked, Level
<1>4. UNCHANGED <<boots, cpu, depth, old>>
  BY DEF Look, Again, Dispatch, TimerClear, TimerCount, Serve
<1>5. (MaskOf(depth - 1))' = MaskOf(depth - 1)
  <2>1. irq' = irq \/ irq' = [irq EXCEPT ![depth] = i]
    BY DEF Look, Again, Dispatch, TimerClear, TimerCount, Serve
  <2>2. CASE depth = 1
    BY <1>4, <2>2 DEF MaskOf
  <2>3. CASE depth # 1
    <3>1. depth - 1 \in Level /\ depth - 1 # depth
      BY <2>3, IrqAssumption DEF Level
    <3>2. irq'[depth - 1] = irq[depth - 1]
      BY <2>1, <3>1 DEF IInv, TypeOK
    <3>. QED
      BY <1>4, <3>2 DEF MaskOf
  <2>. QED
    BY <2>2, <2>3
<1>6. CASE Look
  <2>1. pc' = [pc EXCEPT ![depth] = "search"] /\ irq' = irq /\ "search" \in FramePc \ Opened
    BY <1>6 DEF Look, FramePc, Opened
  <2>2. pc'[depth] = "search"
    BY <2>1 DEF IInv, TypeOK
  <2>3. (Placed(depth))'
    BY <1>4, <1>5, <1>6, <2>1, <2>2 DEF Placed, Look, HandlerRuns, top, Opened
  <2>4. WhoIsOpen' /\ Masked' /\ HasHandler' /\ ByPriority'
    BY <1>4, <2>1, <2>3, Quiet
  <2>5. SearchEnds'
    <3>1. Pending # {} /\ found'[depth] = Pending
      BY <1>6 DEF Look, HandlerRuns, IInv, SearchEnds, TypeOK
    <3>2. active \subseteq registered
      BY DEF IInv, HasHandler, WhoIsOpen
    <3>3. Pending \subseteq registered \intersect mask \intersect line
      BY <3>2 DEF Pending, IInv, Masked, WhoIsOpen
    <3>4. line' = line
      BY <1>6 DEF Look, Again
    <3>. QED
      BY <1>4, <2>2, <3>1, <3>3, <3>4 DEF SearchEnds, cpu
  <2>. QED
    BY <2>4, <2>5 DEF IInv
<1>7. CASE Again
  <2>1. pc' = [pc EXCEPT ![depth] = "search"] /\ irq' = irq /\ "search" \in FramePc \ Opened
    BY <1>7 DEF Again, FramePc, Opened
  <2>2. pc'[depth] = "search"
    BY <2>1 DEF IInv, TypeOK
  <2>3. (Placed(depth))'
    BY <1>4, <1>5, <1>7, <2>1, <2>2 DEF Placed, Again, HandlerRuns, top, Opened
  <2>4. WhoIsOpen' /\ Masked' /\ HasHandler' /\ ByPriority'
    BY <1>4, <2>1, <2>3, Quiet
  <2>5. SearchEnds'
    <3>1. Pending # {} /\ found'[depth] = Pending
      BY <1>7 DEF Again, HandlerRuns, IInv, SearchEnds, TypeOK
    <3>2. active \subseteq registered
      BY DEF IInv, HasHandler, WhoIsOpen
    <3>3. Pending \subseteq registered \intersect mask \intersect line
      BY <3>2 DEF Pending, IInv, Masked, WhoIsOpen
    <3>4. line' = line
      BY <1>7 DEF Look, Again
    <3>. QED
      BY <1>4, <2>2, <3>1, <3>3, <3>4 DEF SearchEnds, cpu
  <2>. QED
    BY <2>4, <2>5 DEF IInv
<1>8. CASE TimerClear
  <2>1. pc' = [pc EXCEPT ![depth] = "count"] /\ irq' = irq /\ "count" \in FramePc \ Opened
    BY <1>8 DEF TimerClear, FramePc, Opened
  <2>2. pc'[depth] = "count"
    BY <2>1 DEF IInv, TypeOK
  <2>3. (Placed(depth))'
    BY <1>4, <1>5, <1>8, <2>1, <2>2 DEF Placed, TimerClear, HandlerRuns, top, Opened
  <2>4. WhoIsOpen' /\ Masked' /\ HasHandler' /\ ByPriority'
    BY <1>4, <2>1, <2>3, Quiet
  <2>5. SearchEnds'
    BY <1>4, <2>2 DEF SearchEnds
  <2>. QED
    BY <2>4, <2>5 DEF IInv
<1>9. CASE TimerCount
  <2>1. pc' = [pc EXCEPT ![depth] = "done"] /\ irq' = irq /\ "done" \in FramePc \ Opened
    BY <1>9 DEF TimerCount, FramePc, Opened
  <2>2. pc'[depth] = "done"
    BY <2>1 DEF IInv, TypeOK
  <2>3. (Placed(depth))'
    BY <1>4, <1>5, <1>9, <2>1, <2>2 DEF Placed, TimerCount, HandlerRuns, top, Opened
  <2>4. WhoIsOpen' /\ Masked' /\ HasHandler' /\ ByPriority'
    BY <1>4, <2>1, <2>3, Quiet
  <2>5. SearchEnds'
    BY <1>4, <2>2 DEF SearchEnds
  <2>. QED
    BY <2>4, <2>5 DEF IInv
<1>10. CASE Serve
  <2>1. pc' = [pc EXCEPT ![depth] = "done"] /\ irq' = irq /\ "done" \in FramePc \ Opened
    BY <1>10 DEF Serve, FramePc, Opened
  <2>2. pc'[depth] = "done"
    BY <2>1 DEF IInv, TypeOK
  <2>3. (Placed(depth))'
    BY <1>4, <1>5, <1>10, <2>1, <2>2 DEF Placed, Serve, HandlerRuns, top, Opened
  <2>4. WhoIsOpen' /\ Masked' /\ HasHandler' /\ ByPriority'
    BY <1>4, <2>1, <2>3, Quiet
  <2>5. SearchEnds'
    BY <1>4, <2>2 DEF SearchEnds
  <2>. QED
    BY <2>4, <2>5 DEF IInv
<1>11. CASE Dispatch(i)
  <2>1. /\ pc' = [pc EXCEPT ![depth] = "isr"] /\ irq' = [irq EXCEPT ![depth] = i]
        /\ "isr" \in FramePc \ Opened
    BY <1>11 DEF Dispatch, FramePc, Opened
  <2>2. pc'[depth] = "isr" /\ irq'[depth] = i
    BY <2>1 DEF IInv, TypeOK
  <2>3. (Placed(depth))'
    <3>1. i \in MaskOf(depth - 1)
      BY <1>3, <1>11 DEF Dispatch, HandlerRuns, First, IInv, SearchEnds
    <3>2. depth + i <= NIRQ
      <4>1. CASE depth = 1
        BY <4>1, IrqAssumption DEF Irq
      <4>2. CASE depth > 1
        <5>1. depth - 1 \in 1 .. depth /\ depth - 1 \in Level
          BY <4>2, IrqAssumption DEF Level
        <5>2. pc[depth - 1] \in Opened /\ Placed(depth - 1) /\ irq[depth - 1] \in Irq
          BY <4>2, <5>1 DEF IInv, WhoIsOpen, ByPriority, TypeOK
        <5>3. (depth - 1) + irq[depth - 1] <= NIRQ
          BY <5>2 DEF Placed, Opened
        <5>4. i <= irq[depth - 1] - 1
          BY <3>1, <4>2, <5>2 DEF MaskOf, Above, Irq
        <5>. QED
          BY <5>2, <5>3, <5>4, IrqAssumption DEF Irq
      <4>. QED
        BY <4>1, <4>2
    <3>. QED
      BY <1>4, <1>5, <2>2, <3>1, <3>2 DEF Placed, Opened
  <2>4. WhoIsOpen' /\ Masked' /\ HasHandler' /\ ByPriority'
    BY <1>4, <2>1, <2>3, Quiet
  <2>5. i \in line /\ line' = line
    BY <1>11 DEF Dispatch, HandlerRuns, First, IInv, SearchEnds
  <2>6. SearchEnds'
    BY <1>4, <2>2, <2>5 DEF SearchEnds
  <2>. QED
    BY <2>4, <2>6 DEF IInv
<1>. QED
  BY <1>6, <1>7, <1>8, <1>9, <1>10, <1>11

\* A device that raises its line, whatever the processor is doing.
LEMMA DeviceStep ==
  ASSUME IInv, TypeOK', NEW i \in Irq, Timeout \/ Raise(i)
  PROVE  IInv'
<1>1. UNCHANGED <<boots, cpu, frames>> /\ line \subseteq line'
  BY DEF Timeout, Raise
<1>2. WhoIsOpen' /\ HasHandler'
  BY <1>1 DEF IInv, WhoIsOpen, HasHandler, boots, calls, cpu, frames
<1>3. Masked'
  BY <1>1 DEF IInv, Masked, MaskOf, boots, cpu, frames
<1>4. ByPriority'
  BY <1>1 DEF IInv, ByPriority, Placed, MaskOf, frames
<1>5. SearchEnds'
  BY <1>1 DEF IInv, SearchEnds, Pending, cpu, frames
<1>. QED
  BY <1>2, <1>3, <1>4, <1>5 DEF IInv

\* The exception is entered by an interrupt that the mask of the innermost
\* activation lets through, so it has a higher priority.
LEMMA EnterStep == ASSUME IInv, TypeOK', Enter PROVE IInv'
<1> USE DEF IInv
<1>1. /\ depth' = depth + 1 /\ depth \in 0 .. NIRQ /\ depth + 1 \in Level
      /\ UNCHANGED <<boots, active, mask, ienable, registered, line, irq, old>>
  BY IrqAssumption DEF Enter, TypeOK, Level
<1>2. pc'[depth + 1] = "entry" /\ \A n \in 1 .. depth : pc'[n] = pc[n]
  BY <1>1 DEF Enter, TypeOK, Level
<1>3. pie /\ Pending # {} /\ boot # "irq_init" /\ thread = "run"
  BY DEF Enter, Taken, WhoIsOpen
<1>4. depth > 0 => pc[depth] \in Opened
  BY <1>3 DEF WhoIsOpen
<1>5. mask = MaskOf(depth) /\ ienable = active \intersect mask
  BY <1>3, <1>4 DEF Masked
<1>6. \A n \in 0 .. depth : (MaskOf(n))' = MaskOf(n)
  BY <1>1 DEF MaskOf
<1>. PICK k \in 0 .. NIRQ : k = depth
  BY <1>1
<1>7. WhoIsOpen'
  <2>1. ~pie'
    BY DEF Enter
  <2>2. \A n \in 1 .. depth : pc'[n] \in Opened
    BY <1>1, <1>2, <1>4 DEF WhoIsOpen
  <2>. QED
    BY <1>1, <1>2, <1>3, <2>1, <2>2 DEF WhoIsOpen, boots, Opened
<1>8. Masked'
  <2>1. mask' = (MaskOf(k))'
    BY <1>1, <1>5, <1>6
  <2>2. \A n \in 1 .. depth + 1 : pc'[n] \in Opened => old'[n] = (MaskOf(n - 1))'
    BY <1>1, <1>2, <1>6 DEF Masked, Opened
  <2>. QED
    BY <1>1, <1>2, <1>3, <1>5, <2>1, <2>2, IrqAssumption DEF Masked, boots, Opened
<1>9. HasHandler'
  BY <1>1 DEF HasHandler, boots, calls
<1>10. ByPriority'
  <2>1. \A n \in 1 .. depth : (Placed(n))'
    BY <1>1, <1>2, <1>6 DEF ByPriority, Placed
  <2>2. depth + 1 <= NIRQ
    <3>1. CASE depth = 0
      BY <3>1, IrqAssumption
    <3>2. CASE depth > 0
      <4>1. PICK i \in Irq : i \in MaskOf(depth)
        BY <1>3, <1>5 DEF Pending, TypeOK
      <4>2. irq[depth] \in Irq /\ depth + irq[depth] <= NIRQ
        BY <1>4, <3>2, TopLevel DEF Placed, Opened
      <4>3. 1 <= irq[depth]
        BY <3>2, <4>1, <4>2 DEF MaskOf, Above, Irq
      <4>. QED
        BY <1>1, <4>2, <4>3, IrqAssumption DEF Irq
    <3>. QED
      BY <1>1, <3>1, <3>2
  <2>3. (Placed(k + 1))'
    BY <1>1, <1>2, <2>2 DEF Placed, Opened
  <2>. QED
    BY <1>1, <2>1, <2>3 DEF ByPriority
<1>11. SearchEnds'
  BY <1>1, <1>2, <1>3 DEF SearchEnds, Pending
<1>. QED
  BY <1>7, <1>8, <1>9, <1>10, <1>11

\* A handler that lets others in, that serves its device meanwhile, and that
\* shuts them out again keeps the invariant.
LEMMA OpenStep ==
  ASSUME IInv, TypeOK', Interruptible \/ ServeOpen \/ NonInterruptible
  PROVE  IInv'
<1> USE DEF IInv
<1>1. /\ depth > 0 /\ depth' = depth /\ irq' = irq
      /\ UNCHANGED <<boots, active, registered>>
      /\ pc[depth] \notin {"entry", "search", "count"}
  BY DEF Interruptible, ServeOpen, NonInterruptible, HandlerRuns, cpu
<1>. PICK k \in 1 .. NIRQ : k = depth
  BY <1>1, TopLevel
<1>2. k \in Level /\ Placed(k) /\ boot # "irq_init" /\ thread = "run" /\ k - 1 \in Int
  BY <1>1, TopLevel DEF WhoIsOpen
<1>3. /\ \A n \in 1 .. k - 1 : pc'[n] = pc[n] /\ old'[n] = old[n] /\ pc[n] \in Opened
      /\ \A n \in 0 .. k : (MaskOf(n))' = MaskOf(n)
  <2>1. \A n \in 1 .. k - 1 : pc'[n] = pc[n] /\ old'[n] = old[n]
    <3>1. ASSUME NEW p \in {"open", "close", "done"}, pc' = [pc EXCEPT ![k] = p]
          PROVE  \A n \in 1 .. k - 1 : pc'[n] = pc[n]
      BY <1>2, <3>1 DEF TypeOK, Level
    <3>2. \A n \in 1 .. k - 1 : pc'[n] = pc[n]
      BY <3>1 DEF Interruptible, ServeOpen, NonInterruptible
    <3>3. \A n \in 1 .. k - 1 : old'[n] = old[n]
      <4>1. old' = old \/ old' = [old EXCEPT ![k] = mask]
        BY DEF Interruptible, ServeOpen, NonInterruptible
      <4>2. ASSUME NEW n \in 1 .. k - 1 PROVE old'[n] = old[n]
        <5>1. n \in Level /\ n # k
          BY <1>2, IrqAssumption DEF Level
        <5>. QED
          BY <4>1, <5>1 DEF TypeOK
      <4>. QED
        BY <4>2
    <3>. QED
      BY <3>2, <3>3
  <2>. QED
    BY <1>1, <2>1 DEF WhoIsOpen, MaskOf
<1>4. HasHandler'
  BY <1>1 DEF HasHandler, boots, calls
<1>5. SUFFICES ASSUME pc'[k] \in {"open", "close", "done"},
                      pc'[k] \in Opened <=> pie',
                      pc'[k] \in Opened => top \in Preemptible,
                      mask' = MaskOf(IF pc'[k] \in Opened THEN k ELSE k - 1),
                      ienable' = active \intersect mask',
                      pc'[k] \in Opened => old'[k] = MaskOf(k - 1)
               PROVE  IInv'
  <2>1. CASE Interruptible
    <3>1. pc'[k] = "open" /\ old'[k] = mask /\ pie' /\ pc[k] = "isr"
      BY <1>1, <1>2, <2>1 DEF Interruptible, TypeOK, HandlerRuns
    <3>2. mask = MaskOf(k - 1) /\ mask' = MaskOf(k)
      BY <1>1, <1>2, <2>1, <3>1 DEF Interruptible, Masked, MaskOf, top, Opened
    <3>. QED
      BY <1>5, <2>1, <3>1, <3>2 DEF Interruptible, Opened
  <2>2. CASE ServeOpen
    <3>1. pc'[k] = "close" /\ old' = old /\ pc[k] = "open"
      BY <1>1, <1>2, <2>2 DEF ServeOpen, TypeOK, HandlerRuns
    <3>2. pie' /\ mask' = MaskOf(k) /\ ienable' = active \intersect mask'
      BY <1>1, <1>2, <2>2, <3>1 DEF ServeOpen, Masked, WhoIsOpen, Opened, cpu
    <3>3. old[k] = MaskOf(k - 1) /\ top \in Preemptible
      BY <1>1, <1>2, <3>1 DEF Masked, Placed, Opened, top
    <3>. QED
      BY <1>5, <3>1, <3>2, <3>3 DEF Opened
  <2>3. CASE NonInterruptible
    <3>1. pc'[k] = "done" /\ pc[k] = "close" /\ ~pie'
      BY <1>1, <1>2, <2>3 DEF NonInterruptible, TypeOK, HandlerRuns
    <3>2. mask' = MaskOf(k - 1)
      BY <1>1, <1>2, <2>3, <3>1 DEF NonInterruptible, Masked, Opened
    <3>. QED
      BY <1>5, <2>3, <3>1, <3>2 DEF NonInterruptible, Opened
  <2>. QED
    BY <2>1, <2>2, <2>3
<1>6. WhoIsOpen'
  BY <1>1, <1>2, <1>3, <1>5 DEF WhoIsOpen, boots
<1>7. Masked'
  <2>1. mask' = (MaskOf(IF pc[k] \notin Opened THEN k - 1 ELSE k))'
    BY <1>1, <1>3, <1>5 DEF MaskOf
  <2>2. \A n \in 1 .. k : pc'[n] \in Opened => old'[n] = (MaskOf(n - 1))'
    BY <1>1, <1>3, <1>5 DEF Masked
  <2>. QED
    BY <1>1, <1>2, <1>5, <2>1, <2>2 DEF Masked, boots
<1>8. ByPriority'
  <2>1. \A n \in 1 .. k - 1 : (Placed(n))'
    BY <1>1, <1>3 DEF ByPriority, Placed
  <2>2. (Placed(k))'
    BY <1>1, <1>2, <1>3, <1>5 DEF Placed, top
  <2>. QED
    BY <1>1, <2>1, <2>2 DEF ByPriority
<1>9. SearchEnds'
  BY <1>1, <1>5 DEF SearchEnds
<1>. QED
  BY <1>4, <1>6, <1>7, <1>8, <1>9

\* What an exception returns to finds its mask as it has left it.
LEMMA ReturnStep == ASSUME IInv, TypeOK', Return PROVE IInv'
<1> USE DEF IInv
<1>. PICK k \in 1 .. NIRQ : k = depth
  BY TopLevel DEF Return, HandlerRuns
<1>1. /\ depth' = k - 1 /\ k \in Level /\ k - 1 \in Nat /\ pc[k] = "done" /\ pie'
      /\ UNCHANGED <<boots, active, mask, ienable, registered>>
  BY TopLevel DEF Return, HandlerRuns
<1>2. \A n \in 1 .. k - 1 :
        pc'[n] = pc[n] /\ irq'[n] = irq[n] /\ old'[n] = old[n] /\ pc[n] \in Opened
  BY <1>1 DEF Return, TypeOK, Level, WhoIsOpen
<1>3. \A n \in 0 .. k - 1 : (MaskOf(n))' = MaskOf(n)
  BY <1>1, <1>2 DEF MaskOf
<1>4. boot # "irq_init" /\ thread = "run" /\ mask = MaskOf(k - 1)
  BY <1>1 DEF WhoIsOpen, Masked, Opened
<1>5. WhoIsOpen'
  BY <1>1, <1>2, <1>4 DEF WhoIsOpen, boots
<1>6. Masked'
  <2>1. mask' = (MaskOf(k - 1))'
    BY <1>1, <1>3, <1>4
  <2>2. k - 1 > 0 => pc'[k - 1] \in Opened
    BY <1>1, <1>2
  <2>3. \A n \in 1 .. k - 1 : pc'[n] \in Opened => old'[n] = (MaskOf(n - 1))'
    BY <1>1, <1>2, <1>3 DEF Masked
  <2>4. ienable' = active' \intersect mask'
    BY <1>1, <1>4 DEF Masked
  <2>. QED
    BY <1>1, <1>4, <2>1, <2>2, <2>3, <2>4 DEF Masked, boots
<1>7. HasHandler'
  BY <1>1 DEF HasHandler, boots, calls
<1>8. ByPriority'
  BY <1>1, <1>2, <1>3 DEF ByPriority, Placed
<1>9. SearchEnds'
  BY <1>1, <1>2 DEF SearchEnds, Opened
<1>. QED
  BY <1>5, <1>6, <1>7, <1>8, <1>9

\* Every step keeps the invariant.
LEMMA NextStep == ASSUME IInv, [Next]_vars PROVE IInv'
<1>1. TypeOK'
  BY TypeStep DEF IInv
<1>2. CASE UNCHANGED vars
  BY <1>2 DEF vars, boots, calls, cpu, frames, IInv, TypeOK, WhoIsOpen, Masked,
     ByPriority, Placed, HasHandler, SearchEnds, MaskOf, Pending
<1>3. CASE Thread
  BY <1>1, <1>3, ThreadStep
<1>4. CASE Handler
  <2>1. 0 \in Irq
    BY IrqAssumption DEF Irq
  <2>. QED
    BY <1>1, <1>4, <2>1, ClosedStep, EnterStep, OpenStep, ReturnStep DEF Handler
<1>5. CASE Timeout \/ \E i \in Irq : Raise(i)
  <2>1. 0 \in Irq
    BY IrqAssumption DEF Irq
  <2>. QED
    BY <1>1, <1>5, <2>1, DeviceStep
<1>. QED
  BY <1>2, <1>3, <1>4, <1>5 DEF Next

\* However registrations, interrupts and nested handlers interleave, the
\* dispatcher always finds an interrupt that has a handler, handlers are only
\* interrupted by those of higher priority, and the processor's enable register
\* is what alt_irq_active and the innermost handler say.
THEOREM Dispatched == Spec => []IInv
<1>1. IInv /\ [Next]_vars => IInv'
  BY NextStep
<1>. QED
  BY InitInv, <1>1, PTL DEF Spec

-----------------------------------------------------------------------------
\* What the handlers do with the timeouts keeps the account.
LEMMA TickStep == ASSUME IInv, IInv', TicksKept, [Next]_vars PROVE TicksKept'
<1> USE DEF TicksKept, Counting
<1>1. owed \in Int /\ Timer \notin Preemptible
  BY IrqAssumption DEF IInv, TypeOK
<1>2. CASE Thread
  <2>1. depth = 0
    BY <1>2 DEF Thread, IrqInit, StartTimer, InitDriver, Call, DisableAll, Store,
       Enable, EnableAll, ThreadRuns, IInv, WhoIsOpen
  <2>2. UNCHANGED <<line, owed, depth>>
    BY <1>2 DEF Thread, IrqInit, StartTimer, InitDriver, Call, DisableAll, Store,
       Enable, EnableAll, frames
  <2>. QED
    BY <2>1, <2>2
<1>3. CASE Timeout
  BY <1>1, <1>3 DEF Timeout, cpu, frames
<1>4. ASSUME NEW i \in Irq, Raise(i) PROVE TicksKept'
  BY <1>4 DEF Raise, frames
<1>5. CASE Enter
  <2>1. ~Counting
    BY <1>5 DEF Enter, Taken, IInv, WhoIsOpen, Opened
  <2>2. depth' = depth + 1 /\ depth + 1 \in Level /\ UNCHANGED <<line, owed>>
    BY <1>5, IrqAssumption DEF Enter, IInv, TypeOK, Level
  <2>3. pc'[depth'] = "entry"
    BY <1>5, <2>2 DEF Enter, IInv, TypeOK
  <2>. QED
    BY <2>1, <2>2, <2>3
<1>6. CASE Return
  <2>1. ~Counting /\ UNCHANGED <<line, owed>>
    BY <1>6 DEF Return, HandlerRuns
  <2>2. depth' > 0 => pc'[depth'] \in Opened
    BY <1>6 DEF Return, IInv, WhoIsOpen
  <2>. QED
    BY <2>1, <2>2 DEF Opened
<1>7. ASSUME depth > 0, depth' = depth, NEW p \in FramePc, pc' = [pc EXCEPT ![depth] = p]
      PROVE  pc'[depth] = p
  BY <1>7, TopLevel DEF IInv, TypeOK
<1>8. CASE TimerClear
  <2>1. Timer \in line
    BY <1>8 DEF TimerClear, HandlerRuns, top, IInv, SearchEnds
  <2>. QED
    BY <1>1, <1>7, <1>8, <2>1 DEF TimerClear, HandlerRuns, FramePc
<1>9. CASE TimerCount
  BY <1>1, <1>7, <1>9 DEF TimerCount, HandlerRuns, FramePc, cpu
<1>10. CASE Serve \/ Interruptible \/ ServeOpen \/ NonInterruptible
  <2>1. Timer \in line' <=> Timer \in line
    <3>1. top # Timer
      BY <1>1, <1>10, TopLevel DEF Serve, Interruptible, ServeOpen, NonInterruptible,
         HandlerRuns, Placed, top, Opened
    <3>. QED
      BY <1>10, <3>1 DEF Serve, Interruptible, ServeOpen, NonInterruptible
  <2>2. ~Counting /\ owed' = owed /\ depth > 0 /\ depth' = depth
    BY <1>10 DEF Serve, Interruptible, ServeOpen, NonInterruptible, HandlerRuns
  <2>3. pc'[depth] # "count"
    BY <1>7, <1>10 DEF Serve, Interruptible, ServeOpen, NonInterruptible,
       HandlerRuns, FramePc
  <2>. QED
    BY <2>1, <2>2, <2>3
<1>11. ASSUME NEW i \in Irq, Look \/ Again \/ Dispatch(i) PROVE TicksKept'
  BY <1>7, <1>11 DEF Look, Again, Dispatch, HandlerRuns, FramePc
<1>12. CASE UNCHANGED vars
  BY <1>12 DEF vars, frames
<1>. QED
  <2>1. 0 \in Irq
    BY IrqAssumption DEF Irq
  <2>. QED
    BY <1>2, <1>3, <1>4, <1>5, <1>6, <1>8, <1>9, <1>10, <1>11, <1>12, <2>1
       DEF Next, Handler

\* The timeouts that the hardware takes are counted once each.
THEOREM TicksCounted == Spec => []TicksKept
<1>1. TicksKept /\ IInv /\ IInv' /\ [Next]_vars => TicksKept'
  BY TickStep
<1>. QED
  BY InitInv, Dispatched, <1>1, PTL DEF Spec
=============================================================================
