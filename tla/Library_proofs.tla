--------------------------- MODULE Library_proofs ---------------------------
(***************************************************************************)
(* Proofs about the parts of the library, each for every value of its      *)
(* constants.                                                              *)
(***************************************************************************)
EXTENDS Library, SequenceTheorems, FiniteSetTheorems, WellFoundedInduction, TLAPS

\* A step of the library is a step of each part, or leaves it alone.
LEMMA PartSteps ==
  ASSUME [Next]_libraryVars
  PROVE  /\ [HeapNext]_heapVars /\ [NamesNext]_namesVars
         /\ [DataNext]_dataVars /\ [CodeNext]_codeVars
         /\ [TimeNext]_timeVars /\ [DelayNext]_delayVars /\ [StampNext]_stampVars
         /\ [ProfileNext]_profileVars /\ [ExcNext]_excVars
         /\ [PrintNext]_printVars /\ [PolledNext]_polledVars
         /\ [ProcessNext]_processVars /\ [MapNext]_mapVars /\ [AdcNext]_adcVars
<1>1. CASE UNCHANGED libraryVars
  BY <1>1 DEF libraryVars, cacheVars
<1>2. CASE Next
  BY <1>2, Zenon DEF Next
<1>. QED
  BY <1>1, <1>2

-----------------------------------------------------------------------------
(* Heap *)

\* Rounding up goes up.
LEMMA WordUpGoesUp ==
  ASSUME NEW a \in Int
  PROVE  WordUp(a) \in Int /\ WordUp(a) >= a
<1>1. WordSize \in Nat \ {0}
  BY HeapAssumption
<1>2. (-a) % WordSize \in Nat
  BY <1>1
<1> QED
  BY <1>2 DEF WordUp

\* A block taken from heap_end on, or bytes given back, leave no byte with two
\* holders and none at or above the new end.
LEMMA HeldOnce ==
  ASSUME NEW base \in Int, NEW top \in Int,
         holders \in [Heap -> Nat],
         \A x \in Heap : holders[x] <= 1,
         \A x \in Heap : x >= base => holders[x] = 0
  PROVE  /\ Held(base, top) \in [Heap -> Nat]
         /\ \A x \in Heap : Held(base, top)[x] <= 1
         /\ \A x \in Heap : x >= top => Held(base, top)[x] = 0
<1>1. Heap \subseteq Int
  BY HeapAssumption DEF Heap
<1> QED
  BY <1>1 DEF Held

\* The invariant holds at the start.
LEMMA HeapStarts == HeapInit => HeapInv
  BY HeapAssumption, SMTT(60) DEF HeapInit, HeapInv, HeapTypeOK, BlocksDisjoint, Heap

\* Every step of sbrk, the thread's or a handler's, keeps it.
LEMMA HeapKeeps == HeapInv /\ [HeapNext]_heapVars => HeapInv'
<1> SUFFICES ASSUME HeapInv, [HeapNext]_heapVars PROVE HeapInv'
  OBVIOUS
<1> USE HeapAssumption DEF HeapInv, HeapTypeOK, BlocksDisjoint
<1>1. WordUp(heap_end) \in Int /\ WordUp(heap_end) >= heap_end
  BY WordUpGoesUp
<1>2. ASSUME NEW k \in Increments, SbrkCall(k) PROVE HeapInv'
  <2>1. k \in Int
    BY HeapAssumption
  <2>2. heap_end + k >= HeapStart
    BY <1>2, <2>1 DEF SbrkCall, Fits
  <2> QED
    BY <1>2, <2>1, <2>2 DEF SbrkCall
<1>3. ASSUME NEW k \in Increments, SbrkInIsr(k) PROVE HeapInv'
  <2> DEFINE base == WordUp(heap_end)
  <2>1. k \in Int /\ k >= 0 /\ base \in Int /\ base >= heap_end
    BY <1>1, <1>3 DEF SbrkInIsr
  <2> HIDE DEF base
  <2>2. CASE base + k > HeapLimit
    BY <1>3, <2>1, <2>2 DEF SbrkInIsr, base, Heap
  <2>3. CASE ~(base + k > HeapLimit)
    <3>1. heap_end' = base + k /\ holders' = Held(base, base + k)
      BY <1>3, <2>3 DEF SbrkInIsr, base
    <3>2. \A x \in Heap : x >= base => holders[x] = 0
      BY <2>1 DEF Heap
    <3>3. /\ holders' \in [Heap -> Nat]
          /\ \A x \in Heap : holders'[x] <= 1
          /\ \A x \in Heap : x >= base + k => holders'[x] = 0
      BY <2>1, <3>1, <3>2, HeldOnce
    <3> QED
      BY <1>3, <2>1, <3>1, <3>3 DEF SbrkInIsr
  <2> QED
    BY <2>2, <2>3
<1>4. CASE SbrkRound
  BY <1>1, <1>4 DEF SbrkRound, Heap
<1>5. CASE SbrkFail
  BY <1>5 DEF SbrkFail
<1>6. CASE SbrkTake
  BY <1>6 DEF SbrkTake
<1>7. CASE SbrkMove
  <2>1. heap_end' = heap_end + incr /\ holders' = Held(heap_end, heap_end + incr)
    BY <1>7 DEF SbrkMove
  <2>2. /\ holders' \in [Heap -> Nat]
        /\ \A x \in Heap : holders'[x] <= 1
        /\ \A x \in Heap : x >= heap_end + incr => holders'[x] = 0
    BY <2>1, HeldOnce
  <2> QED
    BY <1>7, <2>1, <2>2 DEF SbrkMove
<1>8. CASE UNCHANGED heapVars
  BY <1>8 DEF heapVars
<1> QED
  BY <1>2, <1>3, <1>4, <1>5, <1>6, <1>7, <1>8 DEF HeapNext

\* The inductive invariant of the heap's end, for every heap and every
\* sequence of calls.
THEOREM HeapInvariance == HeapSpec => []HeapInv
<1>1. HeapInit => HeapInv
  BY HeapStarts
<1>2. HeapInv /\ [HeapNext]_heapVars => HeapInv'
  BY HeapKeeps
<1> QED
  BY <1>1, <1>2, PTL DEF HeapSpec

\* sbrk never hands a byte out twice, nor one that is not in the heap.
THEOREM HandedOutOnce == HeapSpec => []BlocksDisjoint
<1>1. HeapInv => BlocksDisjoint
  BY DEF HeapInv
<1> QED
  BY <1>1, HeapInvariance, PTL

-----------------------------------------------------------------------------
(* Process *)

USE ProcessAssumption

LEMMA CalledMore ==
  ASSUME NEW n \in Nat, NEW called, FromTheEnd(called, n), n - Len(called) > 0
  PROVE  /\ FromTheEnd(Append(called, n - Len(called)), n)
         /\ Len(Append(called, n - Len(called))) = Len(called) + 1
         /\ Append(called, n - Len(called)) # <<>>
<1> DEFINE e == n - Len(called)
           more == Append(called, e)
<1>1. called \in Seq(1 .. n) /\ Len(called) \in Nat
  BY DEF FromTheEnd
<1>2. e \in 1 .. n
  BY <1>1
<1>3. more \in Seq(1 .. n) /\ Len(more) = Len(called) + 1
  BY <1>1, <1>2
<1>4. ASSUME NEW k \in 1 .. Len(more) PROVE more[k] = n + 1 - k
  <2>1. CASE k = Len(called) + 1
    BY <2>1, <1>1
  <2>2. CASE k \in 1 .. Len(called)
    BY <2>2, <1>1, <1>2 DEF FromTheEnd
  <2>. QED
    BY <1>1, <1>3, <2>1, <2>2
<1>5. Len(more) <= n /\ more # <<>>
  BY <1>1, <1>2, <1>3
<1>6. FromTheEnd(more, n)
  BY <1>3, <1>4, <1>5 DEF FromTheEnd
<1>. QED
  BY <1>3, <1>5, <1>6

LEMMA LifeStarts == ProcessInit => LifeInv
BY SMTT(60) DEF ProcessInit, LifeInv, FromTheEnd, Ended

LEMMA LifeStep ==
  ASSUME LifeInv, [ProcessNext]_processVars
  PROVE  LifeInv'
<1> USE DEF LifeInv, Ended
<1>1. CASE do_ctors
  <2>1. undone = <<>>
    BY <1>1 DEF do_ctors
  <2>2. CASE next > 0
    <3>1. next = Ctors - Len(built) /\ Len(built) \in Nat
      BY <1>1 DEF do_ctors, FromTheEnd
    <3>2. built' = Append(built, Ctors - Len(built)) /\ next' = next - 1
      BY <1>1, <2>2, <3>1 DEF do_ctors
    <3>3. FromTheEnd(built', Ctors) /\ Len(built') = Len(built) + 1
      BY <2>2, <3>1, <3>2, CalledMore
    <3>4. ~at_exit
      BY <2>2, <3>1
    <3>. QED
      BY <1>1, <2>1, <2>2, <3>1, <3>2, <3>3, <3>4
         DEF do_ctors, ending, answers, line, output
  <2>3. CASE ~(next > 0)
    <3>1. Len(built) = Ctors
      BY <1>1, <2>3 DEF do_ctors, FromTheEnd
    <3>. QED
      BY <1>1, <2>1, <2>3, <3>1 DEF do_ctors, ending, answers, line, output
  <2>. QED
    BY <2>2, <2>3
<1>2. CASE do_dtors
  <2>1. CASE next > 0
    <3>1. next = Dtors - Len(undone) /\ Len(undone) \in Nat
      BY <1>2 DEF do_dtors, FromTheEnd
    <3>2. undone' = Append(undone, Dtors - Len(undone)) /\ next' = next - 1
      BY <1>2, <2>1, <3>1 DEF do_dtors
    <3>3. FromTheEnd(undone', Dtors) /\ Len(undone') = Len(undone) + 1
      BY <2>1, <3>1, <3>2, CalledMore
    <3>. QED
      BY <1>2, <2>1, <3>1, <3>2, <3>3 DEF do_dtors, ending, answers, line, output
  <2>2. CASE ~(next > 0)
    <3>1. Len(undone) = Dtors
      BY <1>2, <2>2 DEF do_dtors, FromTheEnd
    <3>. QED
      BY <1>2, <2>2, <3>1 DEF do_dtors, ending, answers, line, output
  <2>. QED
    BY <2>1, <2>2
<1>3. CASE \E code \in 0 .. 1 : MainReturns(code)
  <2>1. undone = <<>> /\ ~cut
    BY <1>3 DEF MainReturns
  <2>. QED
    BY <1>3, <2>1 DEF MainReturns, lists, answers, line, output
<1>4. CASE \E code \in 0 .. 1, way \in {"exit", "_exit"} : Leaves(way, code)
  <2>1. undone = <<>> /\ ~cut
    BY <1>4 DEF Leaves
  <2>2. PICK way \in {"exit", "_exit"} : \E code \in 0 .. 1 : Leaves(way, code)
    BY <1>4
  <2>3. /\ UNCHANGED <<at_exit, reported, lists, answers, line, output>>
        /\ way = "exit" => life' = "exit" /\ cut' = FALSE
        /\ way = "_exit" => life' = "_exit" /\ cut' = TRUE
    BY <2>2 DEF Leaves
  <2>4. CASE way = "exit"
    BY <2>1, <2>3, <2>4 DEF lists, answers, line, output
  <2>5. CASE way = "_exit"
    BY <2>1, <2>3, <2>5 DEF lists, answers, line, output
  <2>. QED
    BY <2>4, <2>5
<1>5. CASE CloseStdout
  <2>1. ~Released(1)
    BY DEF Released
  <2>2. stdout'
    BY <1>5, <2>1, Zenon DEF CloseStdout
  <2>. QED
    BY <1>5, <2>2 DEF CloseStdout, ending, lists, answers, output
<1>6. CASE Exit
  <2>1. Len(undone) = 0
    BY <1>6 DEF Exit
  <2>. QED
    BY <1>6, <2>1 DEF Exit, ending, answers, line, output
<1>7. CASE Flushed
  BY <1>7 DEF Flushed, ending, lists, answers, line, output
<1>8. CASE ALT_EXIT
  BY <1>8 DEF ALT_EXIT, lists, answers, line, output
<1>9. CASE PutsChar
  BY <1>9 DEF PutsChar, Running, ending, lists, answers, line
<1>10. CASE WritesChar
  BY <1>10 DEF WritesChar, Running, ending, lists, answers, line
<1>11. CASE Interrupt
  BY <1>11 DEF Interrupt, ending, lists, answers, line
<1>12. CASE Watch
  BY <1>12 DEF Watch, ending, lists, answers, output
<1>13. CASE HostMoves \/ Toggle
  <2>1. UNCHANGED <<life, stdout, gone, absent, ending, lists, answers, output>>
    BY <1>13 DEF HostMoves, Toggle
  <2>. QED
    BY <2>1 DEF ending, lists, answers, output
<1>14. CASE \E pid \in {-1, getpid, 1}, sig \in Signals : ALT_KILL(pid, sig)
  <2>1. /\ life = "main" /\ life' \in {"main", "_exit"}
        /\ UNCHANGED <<stat_fd, free, reported, lists, line, output, at_exit>>
        /\ life' = "main" => cut' = cut
        /\ life' = "_exit" => cut' = TRUE
    BY <1>14 DEF ALT_KILL, Calling, Returns
  <2>2. undone = <<>> /\ ~cut
    BY <2>1
  <2>. QED
    BY <2>1, <2>2 DEF lists, line, output
<1>15. CASE Stubs
  BY <1>15 DEF Stubs, ending, lists, line, output
<1>16. CASE \E known \in BOOLEAN : StatOpen(known)
  BY <1>16 DEF StatOpen, Calling, ending, lists, line, output
<1>17. CASE StatClose
  BY <1>17 DEF StatClose, ending, lists, line, output
<1>18. CASE UNCHANGED processVars
  BY <1>18 DEF processVars
<1>. QED
  BY <1>1, <1>2, <1>3, <1>4, <1>5, <1>6, <1>7, <1>8, <1>9, <1>10, <1>11, <1>12,
     <1>13, <1>14, <1>15, <1>16, <1>17, <1>18, Zenon DEF ProcessNext

\* What was run from the end of a list is the beginning of the list read backwards,
\* and all of it once it is as long.
LEMMA CalledDownwards ==
  ASSUME NEW n \in Nat, NEW called, FromTheEnd(called, n)
  PROVE  /\ IsPrefix(called, Downwards(n))
         /\ Len(called) = n => called = Downwards(n)
<1>1. called \in Seq(1 .. n) /\ Len(called) \in 0 .. n
  BY DEF FromTheEnd
<1>2. Downwards(n) \in Seq(1 .. n) /\ Len(Downwards(n)) = n
  BY DEF Downwards
<1>3. \A k \in 1 .. Len(called) : called[k] = Downwards(n)[k]
  BY <1>1 DEF FromTheEnd, Downwards
<1>4. SubSeq(called, 1, Len(called)) = SubSeq(Downwards(n), 1, Len(called))
  BY <1>1, <1>3
<1>5. Len(called) = n => called = Downwards(n)
  BY <1>1, <1>2, <1>3, SeqEqual
<1>. QED
  BY <1>1, <1>2, <1>4, <1>5 DEF IsPrefix

LEMMA LifePromises == LifeInv => ProcessInv
<1> SUFFICES ASSUME LifeInv PROVE ProcessInv
  OBVIOUS
<1> USE DEF LifeInv, Ended
<1>1. IsPrefix(built, Downwards(Ctors)) /\ IsPrefix(undone, Downwards(Dtors))
  BY CalledDownwards
<1>2. life = "main" => built = Downwards(Ctors)
  BY CalledDownwards
<1>3. undone # <<>> => built = Downwards(Ctors)
  BY CalledDownwards
<1>4. life = "stopped" /\ ~cut /\ at_exit => undone = Downwards(Dtors)
  BY CalledDownwards
<1>5. life = "stopped" => (reported = "pass" <=> exit_code = 0)
  BY DEF alt_sim_halt
<1>. QED
  BY <1>1, <1>2, <1>3, <1>4, <1>5 DEF ProcessInv

\* Constructors and destructors are run in their order, once and only in their
\* time, and no way out of the process drops output that had somewhere to go.
THEOREM LifeInvariance == Spec => []ProcessInv
<1>1. Init => LifeInv
  BY LifeStarts DEF Init
<1>2. LifeInv /\ [Next]_libraryVars => LifeInv'
  BY LifeStep, PartSteps
<1>. QED
  BY <1>1, <1>2, LifePromises, PTL DEF Spec

-----------------------------------------------------------------------------
(* Arithmetic: products and quotients, stated once *)

LEMMA ProductGrows ==
  ASSUME NEW a \in Nat, NEW b \in Nat, NEW n \in Nat, a <= b
  PROVE  /\ a * n \in Nat /\ b * n \in Nat /\ a * n <= b * n
         /\ n * a \in Nat /\ n * b \in Nat /\ n * a <= n * b
OBVIOUS

LEMMA Distributes ==
  ASSUME NEW r \in Nat, NEW p \in Nat, NEW u \in Nat, NEW l \in Nat
  PROVE  (r * p + u) * l = r * (p * l) + u * l
OBVIOUS

LEMMA Division ==
  ASSUME NEW a \in Nat, NEW n \in Nat \ {0}
  PROVE  /\ a \div n \in Nat /\ a % n \in 0 .. n - 1
         /\ a = (a \div n) * n + (a % n)
OBVIOUS

LEMMA IntDivision ==
  ASSUME NEW a \in Int, NEW n \in Nat \ {0}
  PROVE  /\ a \div n \in Int /\ a % n \in 0 .. n - 1
         /\ a = (a \div n) * n + (a % n)
OBVIOUS

\* There is one quotient and one remainder.
LEMMA DivisionUnique ==
  ASSUME NEW q \in Int, NEW n \in Nat \ {0}, NEW r \in 0 .. n - 1
  PROVE  (q * n + r) \div n = q /\ (q * n + r) % n = r
OBVIOUS

-----------------------------------------------------------------------------
(* Delay *)

USE DelayAssumption

\* A round holds as many whole microseconds as fit.
LEMMA RoundHolds ==
  /\ PerRound \in Nat \ {0} /\ PerRound * LoopsPerUs \in Nat
  /\ LoopMax - PerRound * LoopsPerUs \in 0 .. LoopsPerUs - 1
<1>1. /\ PerRound \in Nat /\ LoopMax % LoopsPerUs \in 0 .. LoopsPerUs - 1
      /\ LoopMax = PerRound * LoopsPerUs + (LoopMax % LoopsPerUs)
  BY Division DEF PerRound
<1>2. PerRound # 0
  BY <1>1
<1>. QED
  BY <1>1, <1>2

\* The count of the rest fits the register.
LEMMA RestFits ==
  ASSUME NEW u \in Nat, u < PerRound
  PROVE  /\ u * LoopsPerUs \in 0 .. LoopMax
         /\ (u * LoopsPerUs) % (2 * (LoopMax + 1)) = u * LoopsPerUs
         /\ u # 0 => u * LoopsPerUs # 0
<1>1. u * LoopsPerUs \in Nat /\ u * LoopsPerUs <= PerRound * LoopsPerUs
  BY RoundHolds, ProductGrows
<1>2. u * LoopsPerUs \in 0 .. LoopMax
  BY <1>1, RoundHolds
<1>3. \A x \in 0 .. LoopMax : x % (2 * (LoopMax + 1)) = x
  OBVIOUS
<1>4. u # 0 => u * LoopsPerUs # 0
  OBVIOUS
<1>. QED
  BY <1>2, <1>3, <1>4

LEMMA RoundsStart == DelayInit => RoundsInv /\ DelayExact
<1>. SUFFICES ASSUME DelayInit PROVE RoundsInv /\ DelayExact
  OBVIOUS
<1>1. 0 \div PerRound = 0
  BY RoundHolds
<1>2. 0 * LoopsPerUs = 0 /\ LoopsPerUs * (0 + 1) = LoopsPerUs
  OBVIOUS
<1>. QED
  BY <1>1, <1>2 DEF DelayInit, RoundsInv, DelayExact

LEMMA RoundsStep ==
  ASSUME RoundsInv, DelayExact, [DelayNext]_delayVars
  PROVE  RoundsInv' /\ DelayExact'
<1> DEFINE P == PerRound
           R == asked \div P
           L == LoopsPerUs
           M == LoopMax
<1>1. P \in Nat \ {0} /\ P * L \in Nat /\ M - P * L \in 0 .. L - 1
  BY RoundHolds
<1>2. ASSUME NEW request \in Requests, Sleep(request)
      PROVE  RoundsInv' /\ DelayExact'
  <2> DEFINE Q == request \div P
  <2>1. request \in Nat /\ Q \in Nat
    BY <1>1, Division
  <2>2. /\ asked' = request /\ us' = request /\ big_loops' = Q /\ looped' = 0
        /\ sleep_pc' = IF Q > 0 THEN "rounds" ELSE "short"
    BY <1>2 DEF Sleep
  <2>3. Q = 0 => request < P
    <3>1. request = Q * P + (request % P) /\ request % P \in 0 .. P - 1
      BY <1>1, <2>1, Division
    <3>. QED
      BY <3>1, <1>1
  <2>4. Slept' = 0 /\ Slept' * PerRound = 0 /\ Slept' * LoopMax = 0
    BY <2>1, <2>2, <1>1 DEF Slept
  <2>. QED
    BY <2>1, <2>2, <2>3, <2>4 DEF RoundsInv, DelayExact
<1>3. CASE BigRound
  <2>1. /\ sleep_pc = "rounds" /\ big_loops \in Nat /\ big_loops > 0
        /\ us' = us - P /\ big_loops' = big_loops - 1
        /\ looped' = looped + TurnsToZero(M)
        /\ UNCHANGED <<asked, sleep_pc>>
    BY <1>3 DEF BigRound, RoundsInv
  <2>2. /\ Slept \in Nat /\ R > 0 /\ us \in Nat /\ asked \in Nat
        /\ us + Slept * P = asked /\ looped = Slept * M
    BY <2>1 DEF RoundsInv
  <2>3. R \in Nat /\ asked = R * P + (asked % P) /\ asked % P \in 0 .. P - 1
    BY <1>1, <2>2, Division
  <2>4. Slept' = Slept + 1 /\ Slept + 1 <= R
    BY <2>1, <2>2, <2>3 DEF Slept
  <2>5. TurnsToZero(M) = M
    BY DEF TurnsToZero
  <2>6. (Slept + 1) * P = Slept * P + P /\ (Slept + 1) * M = Slept * M + M
        /\ (Slept + 1) * P <= R * P /\ (Slept + 1) * P \in Nat /\ R * P \in Nat
        /\ Slept * P \in Nat /\ Slept * M \in Nat
    BY <1>1, <2>2, <2>3, <2>4, ProductGrows
  <2>. QED
    BY <1>1, <2>1, <2>2, <2>3, <2>4, <2>5, <2>6 DEF RoundsInv, DelayExact
<1>4. CASE Rest
  <2>1. /\ sleep_pc = "rounds" /\ big_loops = 0
        /\ looped' = looped + TurnsToZero((us * L) % (2 * (M + 1)))
        /\ sleep_pc' = "awake" /\ UNCHANGED <<asked, us, big_loops>>
    BY <1>4 DEF Rest
  <2>2. /\ Slept \in Nat /\ R > 0 /\ us \in Nat /\ asked \in Nat
        /\ us + Slept * P = asked /\ looped = Slept * M
    BY <2>1 DEF RoundsInv
  <2>3. R \in Nat /\ asked = R * P + (asked % P) /\ asked % P \in 0 .. P - 1
    BY <1>1, <2>2, Division
  <2>4. Slept = R
    BY <2>1, <2>3 DEF Slept
  <2>5. us = asked % P /\ us < P /\ asked = R * P + us
    BY <1>1, <2>2, <2>3, <2>4
  <2>6. /\ us * L \in 0 .. M /\ (us * L) % (2 * (M + 1)) = us * L
        /\ us # 0 => us * L # 0
    BY <2>2, <2>5, RestFits
  <2>7. looped' = R * M + us * L + (IF us = 0 THEN 2 * (M + 1) ELSE 0)
    <3>1. us = 0 => us * L = 0
      OBVIOUS
    <3>2. R * M \in Nat
      BY <2>3
    <3>. QED
      BY <2>1, <2>2, <2>4, <2>6, <3>1, <3>2 DEF TurnsToZero
  <2> DEFINE e == M - P * L
  <2>8. asked * L = R * (P * L) + us * L /\ R * M = R * (P * L) + R * e
    <3>2. \A r, x, m \in Int : r * m = r * x + r * (m - x)
      OBVIOUS
    <3>3. (R * P + us) * L = R * (P * L) + us * L
      <4>1. R \in Nat /\ P \in Nat /\ us \in Nat /\ L \in Nat
        BY <1>1, <2>2, <2>3
      <4> HIDE DEF R, P, L
      <4>. QED
        BY <4>1, Distributes
    <3>4. R * M = R * (P * L) + R * (M - P * L)
      BY <1>1, <2>3, <3>2
    <3>. QED
      BY <2>5, <3>3, <3>4
  <2>9. R * e \in 0 .. L * (R + 1)
    <3>1. R * e \in Nat /\ R * e <= R * L
      BY <1>1, <2>3, ProductGrows
    <3>2. L * (R + 1) = R * L + L /\ R * L \in Nat
      BY <2>3
    <3>. QED
      BY <3>1, <3>2
  <2>10. DelayExact'
    <3>1. asked' = asked /\ R' = R /\ asked' % PerRound = us
      BY <2>1, <2>5
    <3>2. R * (P * L) \in Nat /\ R * e \in Nat
      BY <1>1, <2>3, <2>9
    <3>3. looped' - asked * L - (IF us = 0 THEN 2 * (M + 1) ELSE 0) = R * e
      BY <2>6, <2>7, <2>8, <3>2
    <3>. QED
      BY <2>2, <2>9, <3>1, <3>3 DEF DelayExact
  <2>. QED
    BY <2>1, <2>2, <2>10 DEF RoundsInv
<1>5. CASE Short
  <2>1. /\ sleep_pc = "short" /\ sleep_pc' = "awake"
        /\ looped' = TurnsWhilePositive((us * L) % (2 * (M + 1)))
        /\ UNCHANGED <<asked, us, big_loops>>
    BY <1>5 DEF Short
  <2>2. us = asked /\ asked \in Nat /\ asked < P
    BY <2>1 DEF RoundsInv
  <2>3. R = 0 /\ asked % P = asked
    <3>1. \A x \in Nat, n \in Nat : x < n => x \div n = 0 /\ x % n = x
      OBVIOUS
    <3>. QED
      BY <1>1, <2>2, <3>1
  <2>4. /\ asked * L \in 0 .. M /\ (us * L) % (2 * (M + 1)) = asked * L
        /\ asked # 0 => asked * L # 0
    BY <2>2, RestFits
  <2>5. looped' - asked * L \in 0 .. 1
    BY <2>1, <2>4 DEF TurnsWhilePositive
  <2>6. L * (0 + 1) = L
    OBVIOUS
  <2>. QED
    BY <2>1, <2>2, <2>3, <2>5, <2>6 DEF RoundsInv, DelayExact
<1>6. CASE UNCHANGED delayVars
  BY <1>6 DEF delayVars, RoundsInv, Slept, DelayExact
<1>. QED
  BY <1>2, <1>3, <1>4, <1>5, <1>6 DEF DelayNext

-----------------------------------------------------------------------------
(* TimeOfDay *)

USE TimeAssumption

\* Ticks in microseconds: whole seconds, and what is left of the last one.
LEMMA TicksInSeconds ==
  ASSUME WholeTicks, NEW n \in Nat
  PROVE  /\ n \div TickRate \in Nat
         /\ (n * UsPerTick) % US \in 0 .. US - 1
         /\ n * UsPerTick = (n \div TickRate) * US + ((n * UsPerTick) % US)
<1> DEFINE a == n \div TickRate
           b == n % TickRate
           u == UsPerTick
<1>1. u \in Nat /\ US = u * TickRate
  BY Division DEF WholeTicks, UsPerTick
<1>2. a \in Nat /\ b \in 0 .. TickRate - 1 /\ n = a * TickRate + b
  BY Division
<1>3. u # 0
  BY <1>1
<1> HIDE DEF a, b, u
<1>4. n * u = a * US + b * u
  <2>1. (a * TickRate + b) * u = a * (TickRate * u) + b * u
    BY <1>1, <1>2, Distributes
  <2>2. TickRate * u = US
    BY <1>1
  <2>. QED
    BY <1>2, <2>1, <2>2
<1>5. b * u \in 0 .. US - 1
  <2>1. b * u \in Nat /\ (b + 1) * u <= TickRate * u /\ (b + 1) * u = b * u + u
    BY <1>1, <1>2, ProductGrows
  <2>2. TickRate * u = US
    BY <1>1
  <2>. QED
    BY <1>1, <1>3, <2>1, <2>2
<1>6. (n * u) % US = b * u
  <2> DEFINE r == b * u
  <2>1. r \in 0 .. US - 1
    BY <1>5
  <2> HIDE DEF r
  <2>2. (a * US + r) % US = r
    BY <1>2, <2>1, DivisionUnique
  <2>. QED
    BY <1>4, <2>2 DEF r
<1>. QED
  BY <1>2, <1>4, <1>5, <1>6 DEF a, u

LEMMA ResetStarts == TimeInit => ResetInv
<1> SUFFICES ASSUME TimeInit PROVE ResetInv
  OBVIOUS
<1>1. UsPerTick \in Nat
  BY Division DEF UsPerTick
<1>2. 0 * UsPerTick = 0 /\ 0 % US = 0 /\ 0 \div TickRate = 0
  BY <1>1
<1>. QED
  BY <1>2 DEF TimeInit, ResetInv, Zero, Time

LEMMA ResetStep ==
  ASSUME ResetInv, [TimeNext]_timeVars
  PROVE  ResetInv'
<1> USE DEF ResetInv
<1>1. CASE StartClock
  BY <1>1 DEF StartClock
<1>2. CASE ClockTick
  BY <1>2 DEF ClockTick
<1>3. ASSUME NEW t \in Times, SetTimeOfDay(t) PROVE ResetInv'
  <2>1. UsPerTick \in Nat
    BY Division DEF UsPerTick
  <2>2. nticks * UsPerTick \in Nat
    BY <2>1
  <2>3. nticks * UsPerTick < Word32 =>
          (nticks * UsPerTick) % Word32 = nticks * UsPerTick
    BY <2>2
  <2>4. tick_rate = TickRate
    BY <1>3 DEF SetTimeOfDay
  <2>. QED
    BY <1>3, <2>3, <2>4 DEF SetTimeOfDay, Time
<1>4. CASE UNCHANGED timeVars
  BY <1>4 DEF timeVars
<1>. QED
  BY <1>1, <1>2, <1>3, <1>4 DEF TimeNext

\* The second that is borrowed is there: the counter has passed it since.
LEMMA ClockIsRight ==
  ASSUME WholeTicks, ResetInv
  PROVE  ClockFollows
<1> SUFFICES ASSUME tick_rate # 0, set.ticks * UsPerTick < Word32
             PROVE  GetTimeOfDay = Shown
  BY DEF ClockFollows
<1> DEFINE a == nticks \div TickRate
           b == (nticks * UsPerTick) % US
           c == set.ticks \div TickRate
           d == (set.ticks * UsPerTick) % US
           x == set.time.sec
           y == set.time.usec
           w == y - d + b
           behind_us == y + Elapsed
<1>1. /\ tick_rate = TickRate /\ nticks \in Nat /\ set.ticks \in Nat
      /\ set.ticks <= nticks /\ x \in Nat /\ y \in 0 .. US - 1
      /\ alt_resettime = Time(x - c, y - d)
  BY DEF ResetInv
<1>2. /\ a \in Nat /\ b \in 0 .. US - 1 /\ nticks * UsPerTick = a * US + b
      /\ c \in Nat /\ d \in 0 .. US - 1 /\ set.ticks * UsPerTick = c * US + d
  BY <1>1, TicksInSeconds
<1>3. UsPerTick \in Nat
  BY Division DEF UsPerTick
<1>4. behind_us = y + (a * US + b) - (c * US + d)
  <2>1. Elapsed = (nticks - set.ticks) * UsPerTick
    BY <1>1 DEF Elapsed, ALT_TIMES
  <2>2. \A m, n, u \in Nat : (m - n) * u = m * u - n * u
    OBVIOUS
  <2>3. Elapsed = nticks * UsPerTick - set.ticks * UsPerTick
    BY <1>1, <1>3, <2>1, <2>2
  <2>. QED
    BY <1>1, <1>2, <2>3
<1>5. GetTimeOfDay = Normal(Time((x - c) + a, w))
  BY <1>1 DEF GetTimeOfDay, Time
<1>6. Shown = Time(x + behind_us \div US, behind_us % US)
  BY DEF Shown
<1>7. c * US + d <= a * US + b
  <2>1. set.ticks * UsPerTick <= nticks * UsPerTick
    BY <1>1, <1>3, ProductGrows
  <2>. QED
    BY <1>2, <2>1
<1>8. a * US \in Nat /\ c * US \in Nat /\ (a - c) * US = a * US - c * US
  BY <1>2
<1> HIDE DEF a, b, c, d, x, y, behind_us
<1>9. c <= a /\ (w < 0 => c < a)
  <2>1. ASSUME a + 1 <= c PROVE FALSE
    <3>1. (a + 1) * US <= c * US
      BY <1>2, <2>1, ProductGrows
    <3>2. (a + 1) * US = a * US + US
      BY <1>2
    <3>. QED
      BY <1>2, <1>7, <1>8, <3>1, <3>2
  <2>2. ASSUME w < 0, c = a PROVE FALSE
    BY <1>1, <1>2, <1>7, <1>8, <2>2
  <2>. QED
    BY <1>2, <2>1, <2>2
<1>10. behind_us = (a - c) * US + w /\ w \in Int /\ w < 2 * US /\ w >= -US
  BY <1>1, <1>2, <1>4, <1>8
<1> HIDE DEF w
<1>11. CASE w < 0
  <2>1. behind_us = ((a - c) - 1) * US + (w + US) /\ w + US \in 0 .. US - 1
        /\ (a - c) - 1 \in Int
    BY <1>2, <1>10, <1>11
  <2>2. behind_us \div US = (a - c) - 1 /\ behind_us % US = w + US
    BY <2>1, DivisionUnique
  <2>3. ~((x - c) + a <= 0)
    BY <1>1, <1>2, <1>9, <1>11
  <2>4. GetTimeOfDay = Time(((x - c) + a) - 1, w + US)
    BY <1>5, <1>11, <2>3 DEF Normal, Time
  <2>5. ((x - c) + a) - 1 = x + ((a - c) - 1)
    BY <1>1, <1>2
  <2>. QED
    BY <1>6, <2>2, <2>4, <2>5
<1>12. CASE w >= US
  <2>1. behind_us = ((a - c) + 1) * US + (w - US) /\ w - US \in 0 .. US - 1
        /\ (a - c) + 1 \in Int
    BY <1>2, <1>10, <1>12
  <2>2. behind_us \div US = (a - c) + 1 /\ behind_us % US = w - US
    BY <2>1, DivisionUnique
  <2>3. GetTimeOfDay = Time(((x - c) + a) + 1, w - US)
    BY <1>5, <1>10, <1>12 DEF Normal, Time
  <2>4. ((x - c) + a) + 1 = x + ((a - c) + 1)
    BY <1>1, <1>2
  <2>. QED
    BY <1>6, <2>2, <2>3, <2>4
<1>13. CASE w \in 0 .. US - 1
  <2>1. behind_us \div US = a - c /\ behind_us % US = w
    <3>1. a - c \in Int
      BY <1>2
    <3>. QED
      BY <1>10, <1>13, <3>1, DivisionUnique
  <2>2. GetTimeOfDay = Time((x - c) + a, w)
    BY <1>5, <1>13 DEF Normal, Time
  <2>3. (x - c) + a = x + (a - c)
    BY <1>1, <1>2
  <2>. QED
    BY <1>6, <2>1, <2>2, <2>3
<1>. QED
  BY <1>10, <1>11, <1>12, <1>13

-----------------------------------------------------------------------------
(* Timestamp *)

\* Full scale is two full halves, and the period of a reset one half.
LEMMA Scales ==
  /\ Half \in Nat /\ Half >= 2 /\ ResetPeriod \in Nat /\ ResetPeriod >= 1
  /\ FullScale \in Nat /\ FullScale >= 1 /\ (Half - 1) * Half + (Half - 1) = FullScale
  /\ 0 * Half + ResetPeriod = ResetPeriod /\ Period \in Nat /\ Period >= 1
<1>1. Half \in Nat /\ Half >= 2 /\ ResetPeriod \in Nat /\ ResetPeriod >= 1
  BY TimestampAssumption
<1>2. Half * Half \in Nat /\ Half * Half >= 2 * Half /\ (Half - 1) * Half = Half * Half - Half
  BY <1>1
<1>3. FullScale \in Nat /\ FullScale >= 1 /\ (Half - 1) * Half + (Half - 1) = FullScale
  BY <1>1, <1>2 DEF FullScale
<1>. QED
  BY <1>1, <1>3 DEF Period

\* The bits of what the drivers write to the control register.
LEMMA ControlBits ==
  /\ Has(ITO + CONT + START, START) /\ ~Has(ITO + CONT + START, STOP)
  /\ Has((ITO + CONT + START) % 16, CONT)
  /\ Has(START, START) /\ ~Has(START, STOP) /\ ~Has(START % 16, CONT)
  /\ ~Has(STOP, START) /\ Has(STOP, STOP) /\ ~Has(STOP % 16, CONT)
  BY DEF Has, ITO, CONT, START, STOP

\* An edge at which nothing is written, or the status or a snapshot register is.
LEMMA QuietEdge ==
  ASSUME NEW register \in {-1, STATUS, SNAPL}, TimerEdge(register, 0)
  PROVE  /\ force_reload' = FALSE /\ UNCHANGED <<control_register, period_l, period_h>>
         /\ Counts(FALSE, FALSE) /\ Elapses(FALSE, FALSE) /\ Flags(register = STATUS)
         /\ register # SNAPL => UNCHANGED <<counter_snapshot, snap_at>>
         /\ register = SNAPL => /\ counter_snapshot' = internal_counter
                                /\ snap_at' = IF started THEN elapsed ELSE -1
<1> DEFINE start == register = CONTROL /\ Has(0, START)
           stop == register = CONTROL /\ Has(0, STOP)
<1>1. register # CONTROL /\ register # PERIODL /\ register # PERIODH /\ register # SNAPH
      /\ (register \in {SNAPL, SNAPH} <=> register = SNAPL)
  BY DEF STATUS, CONTROL, PERIODL, PERIODH, SNAPL, SNAPH
<1>2. start = FALSE /\ stop = FALSE
  BY <1>1
<1>3. Counts(start, stop) /\ Elapses(start, stop)
  BY DEF TimerEdge
<1>4. Counts(FALSE, FALSE) /\ Elapses(FALSE, FALSE)
  BY <1>2, <1>3
<1>5. Flags(register = STATUS) /\ force_reload' = (register \in {PERIODL, PERIODH})
      /\ control_register' = (IF register = CONTROL THEN 0 % 16 ELSE control_register)
      /\ period_l' = (IF register = PERIODL THEN 0 ELSE period_l)
      /\ period_h' = (IF register = PERIODH THEN 0 ELSE period_h)
  BY DEF TimerEdge
<1>6. force_reload' = FALSE /\ UNCHANGED <<control_register, period_l, period_h>>
  <2>1. (register \in {PERIODL, PERIODH}) = FALSE
    BY <1>1
  <2>2. force_reload' = FALSE
    BY <1>5, <2>1, Zenon
  <2>. QED
    BY <1>1, <1>5, <2>2
<1>7. /\ register # SNAPL => UNCHANGED <<counter_snapshot, snap_at>>
      /\ register = SNAPL => /\ counter_snapshot' = internal_counter
                             /\ snap_at' = IF started THEN elapsed ELSE -1
  BY <1>1 DEF TimerEdge
<1>. QED
  BY <1>4, <1>5, <1>6, <1>7

\* What of the invariant is about the timer alone.
TimerRuns == 
  /\ started \in BOOLEAN /\ rolled \in BOOLEAN
  /\ counter_is_running \in BOOLEAN /\ force_reload \in BOOLEAN
  /\ timeout_occurred \in BOOLEAN /\ was_zero \in BOOLEAN
  /\ elapsed \in Nat /\ waited \in Nat /\ overrun \in {-1, ResetPeriod}
  /\ started => /\ elapsed <= Period /\ internal_counter = Period - elapsed
                /\ counter_is_running <=> ~rolled
                /\ rolled => ~sysclk /\ elapsed = 0
  /\ ~started => ~counter_is_running
  /\ started /\ ~sysclk => /\ ~Continuous /\ ~force_reload
                           /\ period_l = Half - 1 /\ period_h = Half - 1
  /\ sysclk => /\ started /\ Continuous /\ ~force_reload
               /\ period_h = 0 /\ period_l = ResetPeriod
               /\ timeout_occurred => waited = elapsed
               /\ was_zero => elapsed = 0

LEMMA TimerInvRuns == TimerInv => TimerRuns /\ sysclk \in BOOLEAN
  BY DEF TimerInv, StampTypeOK, Served, Counting, Timeouts, TimerRuns

\* A quiet edge lets the counter run on, and is acknowledged only as a timeout.
LEMMA QuietRuns ==
  ASSUME TimerRuns, sysclk \in BOOLEAN, sysclk' = sysclk,
         NEW register \in {-1, STATUS, SNAPL}, TimerEdge(register, 0),
         register = STATUS => sysclk /\ timeout_occurred
  PROVE  TimerRuns' /\ (started' <=> started)
<1>1. /\ force_reload' = FALSE /\ UNCHANGED <<control_register, period_l, period_h>>
      /\ Counts(FALSE, FALSE) /\ Elapses(FALSE, FALSE) /\ Flags(register = STATUS)
  BY QuietEdge
<1>2. started' <=> started
  BY <1>1 DEF Elapses, TimerRuns
<1>3. rolled' <=> (rolled \/ (started /\ CounterIsZero /\ ~sysclk))
  BY <1>1 DEF Elapses, TimerRuns
<1>4. elapsed' = IF ~started \/ rolled' \/ (sysclk /\ elapsed = ResetPeriod) THEN 0
                 ELSE elapsed + 1
  BY <1>1 DEF Elapses
<1>5. counter_is_running' <=> 
        counter_is_running /\ ~(force_reload \/ (CounterIsZero /\ ~Continuous))
  BY <1>1 DEF Counts
<1>6. was_zero' <=> CounterIsZero
  BY <1>1 DEF Flags
<1>7. timeout_occurred' <=> register # STATUS /\ (timeout_occurred \/ TimeoutEvent)
  BY <1>1 DEF Flags
<1>8. rolled' \in BOOLEAN /\ started' \in BOOLEAN /\ counter_is_running' \in BOOLEAN
      /\ was_zero' \in BOOLEAN /\ timeout_occurred' \in BOOLEAN /\ force_reload' \in BOOLEAN
  <2>1. rolled' \in BOOLEAN /\ started' \in BOOLEAN
    BY <1>1, Zenon DEF Elapses
  <2>2. counter_is_running' \in BOOLEAN
    BY <1>1, Zenon DEF Counts
  <2>3. was_zero' \in BOOLEAN /\ timeout_occurred' \in BOOLEAN
    <3>1. was_zero' = CounterIsZero
          /\ timeout_occurred' = (~(register = STATUS) /\ (timeout_occurred \/ TimeoutEvent))
      BY <1>1, Zenon DEF Flags
    <3>2. CounterIsZero \in BOOLEAN
      BY DEF CounterIsZero
    <3>. QED
      BY <3>1, <3>2, Zenon
  <2>. QED
    BY <1>1, <2>1, <2>2, <2>3
<1>9. Period' = Period /\ (Continuous' <=> Continuous)
  BY <1>1 DEF Period, Continuous
<1>10. started => 
         /\ elapsed' \in Nat /\ elapsed' <= Period /\ internal_counter' = Period - elapsed'
         /\ counter_is_running' <=> ~rolled'
         /\ rolled' => ~sysclk /\ elapsed' = 0
  <2> SUFFICES ASSUME started
               PROVE  /\ elapsed' \in Nat /\ elapsed' <= Period
                      /\ internal_counter' = Period - elapsed'
                      /\ counter_is_running' <=> ~rolled'
                      /\ rolled' => ~sysclk /\ elapsed' = 0
    OBVIOUS
  <2>1. internal_counter = Period - elapsed /\ elapsed <= Period /\ elapsed \in Nat
        /\ Period \in Nat /\ Period >= 1 /\ ~force_reload
        /\ period_h * Half + period_l = Period /\ (sysclk <=> Continuous)
        /\ (counter_is_running <=> ~rolled) /\ (rolled => ~sysclk /\ elapsed = 0)
        /\ (sysclk => Period = ResetPeriod)
    BY Scales DEF TimerRuns, Period
  <2>2. internal_counter' = IF ~rolled /\ CounterIsZero THEN Period
                            ELSE IF ~rolled THEN internal_counter - 1 ELSE internal_counter
    BY <1>1, <2>1 DEF Counts
  <2>3. CounterIsZero <=> elapsed = Period
    BY <2>1 DEF CounterIsZero
  <2>. QED
    BY <1>3, <1>4, <1>5, <2>1, <2>2, <2>3
<1>11. ~started => elapsed' = 0
  BY <1>4
<1>12. waited' = IF sysclk /\ timeout_occurred /\ register # STATUS /\ ~TimeoutEvent
                 THEN waited + 1 ELSE 0
  BY <1>1 DEF Flags
<1>13. sysclk => /\ timeout_occurred' => waited' = elapsed'
                 /\ was_zero' => elapsed' = 0
  <2> SUFFICES ASSUME sysclk PROVE /\ timeout_occurred' => waited' = elapsed'
                                   /\ was_zero' => elapsed' = 0
    OBVIOUS
  <2>1. internal_counter = ResetPeriod - elapsed /\ elapsed \in Nat /\ started
        /\ ResetPeriod \in Nat /\ ResetPeriod >= 1 /\ ~rolled /\ ~rolled'
    BY <1>3, Scales DEF TimerRuns, Period
  <2>2. CounterIsZero <=> elapsed = ResetPeriod
    BY <2>1 DEF CounterIsZero
  <2>3. elapsed' = IF elapsed = ResetPeriod THEN 0 ELSE elapsed + 1
    BY <1>4, <2>1
  <2>4. (timeout_occurred => waited = elapsed) /\ (was_zero => elapsed = 0)
    BY DEF TimerRuns
  <2>5. TimeoutEvent <=> CounterIsZero
    BY <2>1, <2>2, <2>4 DEF TimeoutEvent
  <2>. QED
    BY <1>6, <1>7, <1>12, <2>1, <2>2, <2>3, <2>4, <2>5
<1>14. overrun' \in {-1, ResetPeriod}
  <2>1. overrun' = IF sysclk /\ overrun < 0 /\ TimeoutEvent
                      /\ (timeout_occurred \/ register = STATUS)
                   THEN waited ELSE overrun
    BY <1>1 DEF Flags
  <2>2. sysclk /\ TimeoutEvent /\ timeout_occurred => waited = ResetPeriod
    BY Scales DEF TimeoutEvent, CounterIsZero, TimerRuns, Period
  <2>. QED
    BY <2>1, <2>2 DEF TimerRuns
<1>15. waited' \in Nat /\ elapsed' \in Nat
  BY <1>10, <1>11, <1>12 DEF TimerRuns
<1>16. ~started => ~counter_is_running'
  BY <1>5 DEF TimerRuns
<1>17. /\ started /\ ~sysclk => /\ ~Continuous' /\ ~force_reload'
                                /\ period_l' = Half - 1 /\ period_h' = Half - 1
       /\ sysclk => /\ started /\ Continuous' /\ ~force_reload'
                    /\ period_h' = 0 /\ period_l' = ResetPeriod
  BY <1>1, <1>9 DEF TimerRuns
<1>. QED
  BY <1>2, <1>8, <1>9, <1>10, <1>13, <1>14, <1>15, <1>16, <1>17 DEF TimerRuns

\* Nor does it disturb what the drivers have written, or a snapshot.
LEMMA QuietKeeps ==
  ASSUME TimerInv, sysclk' = sysclk,
         NEW register \in {-1, STATUS, SNAPL}, TimerEdge(register, 0),
         register = STATUS => sysclk /\ timeout_occurred,
         register = SNAPL => ts_freq
  PROVE  /\ TimerRuns' /\ (started' <=> started)
         /\ ~ts_freq => /\ ~force_reload' /\ period_h' = 0 /\ period_l' = ResetPeriod
                        /\ snap_at' = -1
         /\ ~ts_freq /\ ~sysclk => /\ ~started' /\ ~timeout_occurred' /\ ~was_zero'
                                   /\ internal_counter' = ResetPeriod
         /\ ts_pc \in {"period_h", "start"} => period_l' = Half - 1
         /\ ts_pc = "start" => period_h' = Half - 1 /\ internal_counter' = FullScale
         /\ snap_at' \in Int
         /\ snap_at' >= 0 => snap_at' <= FullScale /\ counter_snapshot' = FullScale - snap_at'
         /\ register = SNAPL => (snap_at' >= 0 <=> started)
         /\ register # SNAPL => UNCHANGED snap_at
<1>1. TimerRuns' /\ (started' <=> started)
  BY TimerInvRuns, QuietRuns
<1>2. /\ force_reload' = FALSE /\ UNCHANGED <<control_register, period_l, period_h>>
      /\ Counts(FALSE, FALSE) /\ Flags(register = STATUS)
      /\ register # SNAPL => UNCHANGED <<counter_snapshot, snap_at>>
      /\ register = SNAPL => /\ counter_snapshot' = internal_counter
                             /\ snap_at' = IF started THEN elapsed ELSE -1
  BY QuietEdge
<1>3. ~ts_freq => /\ ~force_reload' /\ period_h' = 0 /\ period_l' = ResetPeriod
                  /\ snap_at' = -1
  BY <1>2 DEF TimerInv, Served
<1>4. ASSUME ~ts_freq, ~sysclk
      PROVE  /\ ~started' /\ ~timeout_occurred' /\ ~was_zero'
             /\ internal_counter' = ResetPeriod
  <2>1. /\ ~started /\ ~timeout_occurred /\ ~was_zero /\ ~force_reload
        /\ internal_counter = ResetPeriod /\ ~counter_is_running
    BY <1>4 DEF TimerInv, Served, Counting
  <2>2. ~CounterIsZero
    BY <2>1, Scales DEF CounterIsZero
  <2>3. internal_counter' = ResetPeriod
    BY <1>2, <2>1 DEF Counts
  <2>4. ~timeout_occurred' /\ ~was_zero'
    BY <1>2, <2>1, <2>2 DEF Flags, TimeoutEvent
  <2>. QED
    BY <1>1, <2>1, <2>3, <2>4
<1>5. ts_pc \in {"period_h", "start"} => period_l' = Half - 1
  BY <1>2 DEF TimerInv, Counting
<1>6. ASSUME ts_pc = "start"
      PROVE  period_h' = Half - 1 /\ internal_counter' = FullScale
  <2>1. /\ period_l = Half - 1 /\ period_h = Half - 1 /\ ~counter_is_running
        /\ force_reload \/ internal_counter = FullScale
    BY <1>6 DEF TimerInv, Counting
  <2>2. period_h * Half + period_l = FullScale
    BY <2>1, Scales
  <2>. QED
    BY <1>2, <2>1, <2>2 DEF Counts
<1>7. started /\ ts_freq => /\ elapsed \in Nat /\ elapsed <= FullScale
                            /\ internal_counter = FullScale - elapsed
  BY DEF TimerInv, StampTypeOK, Served, Counting, Period
<1>8. /\ snap_at \in Int
      /\ snap_at >= 0 => snap_at <= FullScale /\ counter_snapshot = FullScale - snap_at
  BY DEF TimerInv, StampTypeOK, Halves
<1>9. /\ snap_at' \in Int
      /\ snap_at' >= 0 => snap_at' <= FullScale /\ counter_snapshot' = FullScale - snap_at'
      /\ register = SNAPL => (snap_at' >= 0 <=> started)
  <2>1. CASE register = SNAPL
    BY <1>2, <1>7, <2>1
  <2>2. CASE register # SNAPL
    BY <1>2, <1>8, <2>2
  <2>. QED
    BY <2>1, <2>2
<1>. QED
  BY <1>1, <1>2, <1>3, <1>4, <1>5, <1>6, <1>9

\* A stamp of halves that are of different times lies where StampBetween says.
LEMMA TwoHalves ==
  ASSUME NEW l \in 0 .. FullScale, NEW h \in 0 .. FullScale
  PROVE  LET s == FullScale - (((FullScale - h) \div Half) * Half + ((FullScale - l) % Half))
         IN  /\ s \in Int
             /\ l = h => s = l
             /\ l <= h => s >= l
             /\ s < h + Half
<1> DEFINE qh == (FullScale - h) \div Half
           rh == (FullScale - h) % Half
           ql == (FullScale - l) \div Half
           rl == (FullScale - l) % Half
<1>1. Half \in Nat \ {0} /\ FullScale \in Nat /\ FullScale - h \in Nat /\ FullScale - l \in Nat
  BY Scales
<1>2. qh \in Nat /\ rh \in 0 .. Half - 1 /\ FullScale - h = qh * Half + rh
  BY <1>1, Division
<1>3. ql \in Nat /\ rl \in 0 .. Half - 1 /\ FullScale - l = ql * Half + rl
  BY <1>1, Division
<1>4. l = h => ql = qh
  OBVIOUS
<1> HIDE DEF qh, rh, ql, rl
<1>5. l <= h => qh * Half <= ql * Half
  <2>1. ASSUME l <= h, ql + 1 <= qh PROVE FALSE
    <3>1. (ql + 1) * Half <= qh * Half
      BY <1>1, <1>2, <1>3, <2>1, ProductGrows
    <3>2. (ql + 1) * Half = ql * Half + Half
      BY <1>1, <1>3
    <3>. QED
      BY <1>1, <1>2, <1>3, <2>1, <3>1, <3>2
  <2>2. qh <= ql => qh * Half <= ql * Half
    BY <1>1, <1>2, <1>3, ProductGrows
  <2>. QED
    BY <1>2, <1>3, <2>1, <2>2
<1> DEFINE b == qh * Half
           c == ql * Half
<1>6. b \in Nat /\ c \in Nat
  BY <1>1, <1>2, <1>3
<1>7. FullScale - h = b + rh /\ FullScale - l = c + rl /\ (l <= h => b <= c) /\ (l = h => b = c)
  BY <1>2, <1>3, <1>4, <1>5
<1> HIDE DEF b, c
<1>8. /\ FullScale - (b + rl) \in Int
      /\ l = h => FullScale - (b + rl) = l
      /\ l <= h => FullScale - (b + rl) >= l
      /\ FullScale - (b + rl) < h + Half
  BY <1>1, <1>2, <1>3, <1>6, <1>7
<1>. QED
  BY <1>8 DEF b, qh, rl

LEMMA TimerStarts == StampInit => TimerInv
<1> SUFFICES ASSUME StampInit PROVE TimerInv
  OBVIOUS
<1>1. StampTypeOK
  <2>1. overrun \in {-1, ResetPeriod} /\ snap_at \in Int /\ low_at \in Int /\ high_at \in Int
        /\ elapsed \in Nat /\ waited \in Nat
    BY DEF StampInit
  <2>2. /\ ts_freq \in BOOLEAN /\ sysclk \in BOOLEAN /\ started \in BOOLEAN
        /\ rolled \in BOOLEAN /\ counter_is_running \in BOOLEAN /\ force_reload \in BOOLEAN
        /\ timeout_occurred \in BOOLEAN /\ was_zero \in BOOLEAN
    BY DEF StampInit
  <2>3. ts_pc = "idle"
    BY DEF StampInit
  <2>. QED
    BY <2>1, <2>2, <2>3 DEF StampTypeOK
<1>2. Served /\ Counting /\ Timeouts /\ Halves
  BY DEF StampInit, Served, Counting, Timeouts, Halves
<1>. QED
  BY <1>1, <1>2 DEF TimerInv

\* An edge of a quiet register, with the thread where it was.
LEMMA ThreadStays ==
  ASSUME TimerInv, UNCHANGED <<sysclk, ts_pc, lower, low_at, high_at, stamp>>,
         ts_freq' = ts_freq \/ (ts_freq' = TRUE /\ ~sysclk),
         NEW register \in {-1, STATUS, SNAPL}, TimerEdge(register, 0),
         register = STATUS => sysclk /\ timeout_occurred,
         register = SNAPL => ts_freq
  PROVE  TimerInv'
<1>1. /\ TimerRuns' /\ (started' <=> started)
      /\ ~ts_freq => /\ ~force_reload' /\ period_h' = 0 /\ period_l' = ResetPeriod
                     /\ snap_at' = -1
      /\ ~ts_freq /\ ~sysclk => /\ ~started' /\ ~timeout_occurred' /\ ~was_zero'
                                /\ internal_counter' = ResetPeriod
      /\ ts_pc \in {"period_h", "start"} => period_l' = Half - 1
      /\ ts_pc = "start" => period_h' = Half - 1 /\ internal_counter' = FullScale
      /\ snap_at' \in Int
      /\ snap_at' >= 0 => snap_at' <= FullScale /\ counter_snapshot' = FullScale - snap_at'
      /\ register = SNAPL => (snap_at' >= 0 <=> started)
      /\ register # SNAPL => UNCHANGED snap_at
  BY QuietKeeps
<1>2. StampTypeOK' /\ Timeouts'
  BY <1>1 DEF TimerInv, StampTypeOK, TimerRuns, Timeouts
<1>3. Served'
  BY <1>1 DEF TimerInv, StampTypeOK, Served, TimerRuns
<1>4. Counting'
  BY <1>1 DEF TimerInv, Counting, TimerRuns
<1>5. Halves'
  BY <1>1 DEF TimerInv, Halves, StampBetween
<1>. QED
  BY <1>2, <1>3, <1>4, <1>5 DEF TimerInv

LEMMA QuietSteps ==
  ASSUME TimerInv, Idling \/ HandlerStamps \/ SysclkIrq \/ TsInit
  PROVE  TimerInv'
<1>1. -1 # STATUS /\ -1 # SNAPL /\ STATUS # SNAPL
  BY DEF STATUS, SNAPL
<1>2. CASE Idling
  BY <1>1, <1>2, ThreadStays DEF Idling, NoWrite, Thread
<1>3. CASE HandlerStamps
  BY <1>1, <1>3, ThreadStays DEF HandlerStamps, Thread
<1>4. CASE SysclkIrq
  BY <1>1, <1>4, ThreadStays DEF SysclkIrq, TimerIrq, Thread
<1>5. CASE TsInit
  BY <1>1, <1>5, ThreadStays DEF TsInit, NoWrite
<1>. QED
  BY <1>2, <1>3, <1>4, <1>5

\* A write to the control register starts the counter, or stops it.
LEMMA ControlEdge ==
  ASSUME NEW writedata, NEW start \in BOOLEAN, NEW stop \in BOOLEAN,
         start <=> Has(writedata, START), stop <=> Has(writedata, STOP),
         TimerEdge(CONTROL, writedata)
  PROVE  /\ Counts(start, stop) /\ Elapses(start, stop) /\ Flags(FALSE)
         /\ force_reload' = FALSE /\ control_register' = writedata % 16
         /\ UNCHANGED <<period_l, period_h, counter_snapshot, snap_at>>
<1> DEFINE first == CONTROL = CONTROL /\ Has(writedata, START)
           second == CONTROL = CONTROL /\ Has(writedata, STOP)
           third == CONTROL = STATUS
           fourth == CONTROL \in {PERIODL, PERIODH}
<1>1. /\ CONTROL # STATUS /\ CONTROL # PERIODL /\ CONTROL # PERIODH
      /\ CONTROL # SNAPL /\ CONTROL # SNAPH
  BY DEF STATUS, CONTROL, PERIODL, PERIODH, SNAPL, SNAPH
<1>2. first = start /\ second = stop /\ third = FALSE /\ fourth = FALSE
  <2>1. Has(writedata, START) \in BOOLEAN /\ Has(writedata, STOP) \in BOOLEAN
    BY DEF Has
  <2>2. third = FALSE /\ fourth = FALSE
    BY <1>1
  <2>3. first = start /\ second = stop
    BY <2>1, Zenon
  <2>. QED
    BY <2>2, <2>3
<1>3. Counts(first, second) /\ Elapses(first, second) /\ Flags(third)
      /\ force_reload' = fourth
  BY Zenon DEF TimerEdge
<1>4. control_register' = writedata % 16
      /\ UNCHANGED <<period_l, period_h, counter_snapshot, snap_at>>
  BY <1>1 DEF TimerEdge
<1> HIDE DEF first, second, third, fourth
<1>. QED
  BY <1>2, <1>3, <1>4

\* A write to a half of the period stops the counter, to be reloaded.
LEMMA PeriodEdge ==
  ASSUME NEW register \in {PERIODL, PERIODH}, NEW writedata,
         TimerEdge(register, writedata)
  PROVE  /\ Counts(FALSE, FALSE) /\ Elapses(FALSE, FALSE) /\ Flags(FALSE)
         /\ force_reload' = TRUE
         /\ register = PERIODL => period_l' = writedata /\ UNCHANGED period_h
         /\ register = PERIODH => period_h' = writedata /\ UNCHANGED period_l
         /\ UNCHANGED <<control_register, counter_snapshot, snap_at>>
<1> DEFINE first == register = CONTROL /\ Has(writedata, START)
           second == register = CONTROL /\ Has(writedata, STOP)
           third == register = STATUS
           fourth == register \in {PERIODL, PERIODH}
<1>1. /\ register # STATUS /\ register # CONTROL /\ PERIODL # PERIODH
      /\ register # SNAPL /\ register # SNAPH
  BY DEF STATUS, CONTROL, PERIODL, PERIODH, SNAPL, SNAPH
<1>2. first = FALSE /\ second = FALSE /\ third = FALSE /\ fourth = TRUE
  BY <1>1
<1>3. Counts(first, second) /\ Elapses(first, second) /\ Flags(third)
      /\ force_reload' = fourth
  BY Zenon DEF TimerEdge
<1>4. /\ register = PERIODL => period_l' = writedata /\ UNCHANGED period_h
      /\ register = PERIODH => period_h' = writedata /\ UNCHANGED period_l
      /\ UNCHANGED <<control_register, counter_snapshot, snap_at>>
  BY <1>1 DEF TimerEdge
<1> HIDE DEF first, second, third, fourth
<1>. QED
  BY <1>2, <1>3, <1>4

\* The system clock's timer is started from the period of the reset.
LEMMA SysclkStarts ==
  ASSUME TimerInv, SysclkInit
  PROVE  TimerInv'
<1>1. /\ ~ts_freq /\ ~sysclk /\ sysclk' = TRUE
      /\ UNCHANGED <<ts_freq, ts_pc, lower, low_at, high_at, stamp>>
      /\ TimerEdge(CONTROL, ITO + CONT + START)
  BY DEF SysclkInit
<1>3. /\ Counts(TRUE, FALSE) /\ Elapses(TRUE, FALSE) /\ Flags(FALSE)
      /\ force_reload' = FALSE /\ control_register' = (ITO + CONT + START) % 16
      /\ UNCHANGED <<period_l, period_h, counter_snapshot, snap_at>>
  BY <1>1, ControlBits, ControlEdge
<1>4. /\ ts_pc = "idle" /\ ~force_reload /\ period_h = 0 /\ period_l = ResetPeriod
      /\ low_at = -1 /\ snap_at = -1 /\ ~started /\ ~timeout_occurred /\ ~was_zero
      /\ internal_counter = ResetPeriod /\ ~counter_is_running /\ overrun \in {-1, ResetPeriod}
  BY <1>1 DEF TimerInv, StampTypeOK, Served, Counting
<1>5. ~CounterIsZero
  BY <1>4, Scales DEF CounterIsZero
<1>6. /\ internal_counter' = ResetPeriod /\ counter_is_running' = TRUE
      /\ started' = TRUE /\ rolled' = FALSE /\ elapsed' = 0
      /\ timeout_occurred' = FALSE /\ was_zero' = FALSE /\ waited' = 0
      /\ overrun' = overrun
  <2>1. internal_counter' = ResetPeriod /\ counter_is_running' = TRUE
    BY <1>3, <1>4, <1>5 DEF Counts
  <2>2. started' = TRUE /\ rolled' = FALSE /\ elapsed' = 0
    BY <1>3 DEF Elapses
  <2>3. timeout_occurred' = FALSE /\ was_zero' = FALSE /\ waited' = 0 /\ overrun' = overrun
    <3>1. CounterIsZero = FALSE /\ TimeoutEvent = FALSE
      BY <1>5 DEF TimeoutEvent, CounterIsZero
    <3>2. timeout_occurred' = FALSE /\ was_zero' = FALSE
      BY <1>3, <1>4, <3>1, Zenon DEF Flags
    <3>. QED
      BY <1>1, <1>3, <3>1, <3>2 DEF Flags
  <2>. QED
    BY <2>1, <2>2, <2>3
<1>7. Continuous' /\ Period' = ResetPeriod /\ ResetPeriod \in Nat
  BY <1>1, <1>3, ControlBits, Scales DEF Continuous, Period
<1>8. StampTypeOK'
  BY <1>1, <1>3, <1>4, <1>6 DEF TimerInv, StampTypeOK
<1>9. Served'
  BY <1>1, <1>3, <1>4, <1>6, <1>7 DEF Served
<1>10. Counting'
  BY <1>1, <1>4, <1>6, <1>7 DEF Counting
<1>11. Timeouts' /\ Halves'
  BY <1>1, <1>3, <1>4, <1>6 DEF Timeouts, Halves
<1>. QED
  BY <1>8, <1>9, <1>10, <1>11 DEF TimerInv

\* Each write of alt_timestamp_start.
LEMMA StartSteps ==
  ASSUME TimerInv, alt_timestamp_start
  PROVE  TimerInv'
<1>2. \A from, register, w, to : StartStep(from, register, w, to) =>
        /\ ts_freq /\ ts_pc = from /\ ts_pc' = to /\ TimerEdge(register, w)
        /\ UNCHANGED <<ts_freq, sysclk, lower, low_at, high_at, stamp>>
  BY DEF StartStep, GoesTo
<1>3. ASSUME NEW start \in BOOLEAN, NEW stop \in BOOLEAN, ts_freq, UNCHANGED sysclk,
             Counts(start, stop), Elapses(start, stop), Flags(FALSE)
      PROVE  /\ started' \in BOOLEAN /\ rolled' \in BOOLEAN /\ counter_is_running' \in BOOLEAN
             /\ timeout_occurred' \in BOOLEAN /\ was_zero' \in BOOLEAN
             /\ elapsed' \in Nat /\ waited' = 0 /\ overrun' = overrun /\ ~sysclk /\ ~sysclk'
             /\ started' <=> start \/ (started /\ ~stop)
             /\ start => ~rolled' /\ elapsed' = 0 /\ counter_is_running'
             /\ ~start /\ (stop \/ ~counter_is_running) => ~counter_is_running'
  <2>1. ~sysclk /\ ~sysclk' /\ started \in BOOLEAN /\ elapsed \in Nat
    BY <1>3 DEF TimerInv, StampTypeOK, Served
  <2>2. started' \in BOOLEAN /\ rolled' \in BOOLEAN /\ counter_is_running' \in BOOLEAN
        /\ timeout_occurred' \in BOOLEAN /\ was_zero' \in BOOLEAN
    <3>1. started' \in BOOLEAN /\ rolled' \in BOOLEAN
      BY <1>3, Zenon DEF Elapses
    <3>2. counter_is_running' \in BOOLEAN
      BY <1>3, Zenon DEF Counts
    <3>3. CounterIsZero \in BOOLEAN
      BY DEF CounterIsZero
    <3>4. was_zero' = CounterIsZero
          /\ timeout_occurred' = (~FALSE /\ (timeout_occurred \/ TimeoutEvent))
      BY <1>3, Zenon DEF Flags
    <3>. QED
      BY <3>1, <3>2, <3>3, <3>4, Zenon
  <2>3. elapsed' \in Nat /\ (started' <=> start \/ (started /\ ~stop))
        /\ (start => ~rolled' /\ elapsed' = 0)
    <3>1. started' <=> start \/ (started /\ ~stop)
      BY <1>3, Zenon DEF Elapses
    <3>2. start => ~rolled'
      BY <1>3, Zenon DEF Elapses
    <3>3. elapsed' = IF start \/ ~started \/ rolled' \/ (sysclk /\ elapsed = ResetPeriod)
                     THEN 0 ELSE elapsed + 1
      BY <1>3 DEF Elapses
    <3>. QED
      BY <2>1, <3>1, <3>2, <3>3
  <2>4. waited' = 0 /\ overrun' = overrun
    BY <1>3, <2>1 DEF Flags
  <2>5. /\ start => counter_is_running'
        /\ ~start /\ (stop \/ ~counter_is_running) => ~counter_is_running'
    BY <1>3 DEF Counts
  <2>. QED
    BY <2>1, <2>2, <2>3, <2>4, <2>5
<1>4. ASSUME StartStep("idle", CONTROL, STOP, "period_l") PROVE TimerInv'
  <2>1. /\ ts_freq /\ ts_pc = "idle" /\ ts_pc' = "period_l" /\ TimerEdge(CONTROL, STOP)
        /\ UNCHANGED <<ts_freq, sysclk, lower, low_at, high_at, stamp>>
    BY <1>2, <1>4
  <2>2. /\ Counts(FALSE, TRUE) /\ Elapses(FALSE, TRUE) /\ Flags(FALSE)
        /\ force_reload' = FALSE
        /\ UNCHANGED <<period_l, period_h, counter_snapshot, snap_at>>
    BY <2>1, ControlBits, ControlEdge
  <2>3. /\ started' = FALSE /\ rolled' \in BOOLEAN /\ ~counter_is_running'
        /\ counter_is_running' \in BOOLEAN
        /\ timeout_occurred' \in BOOLEAN /\ was_zero' \in BOOLEAN
        /\ elapsed' \in Nat /\ waited' = 0 /\ overrun' = overrun /\ ~sysclk /\ ~sysclk'
    BY <1>3, <2>1, <2>2
  <2>4. StampTypeOK' /\ Timeouts'
    BY <2>1, <2>2, <2>3 DEF TimerInv, StampTypeOK, Timeouts
  <2>5. Served' /\ Counting'
    BY <2>1, <2>2, <2>3 DEF Served, Counting
  <2>6. Halves'
    BY <2>1, <2>2 DEF TimerInv, Halves, StampBetween
  <2>. QED
    BY <2>4, <2>5, <2>6 DEF TimerInv
<1>5. ASSUME StartStep("period_l", PERIODL, Half - 1, "period_h") PROVE TimerInv'
  <2>1. /\ ts_freq /\ ts_pc = "period_l" /\ ts_pc' = "period_h"
        /\ TimerEdge(PERIODL, Half - 1)
        /\ UNCHANGED <<ts_freq, sysclk, lower, low_at, high_at, stamp>>
    BY <1>2, <1>5
  <2>2. /\ Counts(FALSE, FALSE) /\ Elapses(FALSE, FALSE) /\ Flags(FALSE)
        /\ force_reload' = TRUE /\ period_l' = Half - 1
        /\ UNCHANGED <<counter_snapshot, snap_at>>
    BY <2>1, PeriodEdge
  <2>3. ~started /\ ~counter_is_running
    BY <2>1 DEF TimerInv, Counting
  <2>4. /\ started' = FALSE /\ rolled' \in BOOLEAN /\ ~counter_is_running'
        /\ counter_is_running' \in BOOLEAN
        /\ timeout_occurred' \in BOOLEAN /\ was_zero' \in BOOLEAN
        /\ elapsed' \in Nat /\ waited' = 0 /\ overrun' = overrun /\ ~sysclk /\ ~sysclk'
    BY <1>3, <2>1, <2>2, <2>3
  <2>5. StampTypeOK' /\ Timeouts'
    BY <2>1, <2>2, <2>4 DEF TimerInv, StampTypeOK, Timeouts
  <2>6. Served' /\ Counting'
    BY <2>1, <2>2, <2>4 DEF Served, Counting
  <2>7. Halves'
    BY <2>1, <2>2 DEF TimerInv, Halves, StampBetween
  <2>. QED
    BY <2>5, <2>6, <2>7 DEF TimerInv
<1>6. ASSUME StartStep("period_h", PERIODH, Half - 1, "start") PROVE TimerInv'
  <2>1. /\ ts_freq /\ ts_pc = "period_h" /\ ts_pc' = "start"
        /\ TimerEdge(PERIODH, Half - 1)
        /\ UNCHANGED <<ts_freq, sysclk, lower, low_at, high_at, stamp>>
    BY <1>2, <1>6
  <2>2. /\ Counts(FALSE, FALSE) /\ Elapses(FALSE, FALSE) /\ Flags(FALSE)
        /\ force_reload' = TRUE /\ period_h' = Half - 1
        /\ UNCHANGED <<period_l, counter_snapshot, snap_at>>
    BY <2>1, PeriodEdge
  <2>3. ~started /\ ~counter_is_running /\ period_l' = Half - 1
    BY <2>1, <2>2 DEF TimerInv, Counting
  <2>4. /\ started' = FALSE /\ rolled' \in BOOLEAN /\ ~counter_is_running'
        /\ counter_is_running' \in BOOLEAN
        /\ timeout_occurred' \in BOOLEAN /\ was_zero' \in BOOLEAN
        /\ elapsed' \in Nat /\ waited' = 0 /\ overrun' = overrun /\ ~sysclk /\ ~sysclk'
    BY <1>3, <2>1, <2>2, <2>3
  <2>5. StampTypeOK' /\ Timeouts'
    BY <2>1, <2>2, <2>4 DEF TimerInv, StampTypeOK, Timeouts
  <2>6. Served' /\ Counting'
    BY <2>1, <2>2, <2>3, <2>4 DEF Served, Counting
  <2>7. Halves'
    BY <2>1, <2>2 DEF TimerInv, Halves, StampBetween
  <2>. QED
    BY <2>5, <2>6, <2>7 DEF TimerInv
<1>7. ASSUME StartStep("start", CONTROL, START, "idle") PROVE TimerInv'
  <2>1. /\ ts_freq /\ ts_pc = "start" /\ ts_pc' = "idle" /\ TimerEdge(CONTROL, START)
        /\ UNCHANGED <<ts_freq, sysclk, lower, low_at, high_at, stamp>>
    BY <1>2, <1>7
  <2>2. /\ Counts(TRUE, FALSE) /\ Elapses(TRUE, FALSE) /\ Flags(FALSE)
        /\ force_reload' = FALSE /\ control_register' = START % 16
        /\ UNCHANGED <<period_l, period_h, counter_snapshot, snap_at>>
    BY <2>1, ControlBits, ControlEdge
  <2>3. /\ period_l = Half - 1 /\ period_h = Half - 1 /\ ~counter_is_running
        /\ force_reload \/ internal_counter = FullScale
    BY <2>1 DEF TimerInv, Counting
  <2>4. internal_counter' = FullScale
    <3>1. period_h * Half + period_l = FullScale
      BY <2>3, Scales
    <3>. QED
      BY <2>2, <2>3, <3>1 DEF Counts
  <2>5. /\ started' = TRUE /\ rolled' = FALSE /\ elapsed' = 0 /\ counter_is_running'
        /\ counter_is_running' \in BOOLEAN
        /\ timeout_occurred' \in BOOLEAN /\ was_zero' \in BOOLEAN
        /\ waited' = 0 /\ overrun' = overrun /\ ~sysclk /\ ~sysclk'
    BY <1>3, <2>1, <2>2
  <2>6. ~Continuous' /\ Period' = FullScale /\ FullScale \in Nat
    BY <2>2, <2>5, ControlBits, Scales DEF Continuous, Period
  <2>7. StampTypeOK' /\ Timeouts'
    BY <2>1, <2>2, <2>5 DEF TimerInv, StampTypeOK, Timeouts
  <2>8. Served' /\ Counting'
    BY <2>1, <2>2, <2>3, <2>4, <2>5, <2>6 DEF Served, Counting
  <2>9. Halves'
    BY <2>1, <2>2 DEF TimerInv, Halves, StampBetween
  <2>. QED
    BY <2>7, <2>8, <2>9 DEF TimerInv
<1>. QED
  BY <1>4, <1>5, <1>6, <1>7 DEF alt_timestamp_start

\* Each step of alt_timestamp.
LEMMA StampSteps ==
  ASSUME TimerInv, alt_timestamp
  PROVE  TimerInv'
<1>1. -1 # STATUS /\ -1 # SNAPL /\ SNAPL # STATUS /\ SNAPH # STATUS /\ SNAPH # CONTROL
      /\ SNAPH # PERIODL /\ SNAPH # PERIODH /\ SNAPH # SNAPL /\ SNAPL # CONTROL
      /\ SNAPL # PERIODL /\ SNAPL # PERIODH
  BY DEF STATUS, SNAPL, CONTROL, PERIODL, PERIODH, SNAPH
<1>2. ts_freq /\ ts_freq' /\ sysclk' = sysclk /\ ~sysclk
  BY DEF alt_timestamp, TakeSnapshot, ReadLower, ReadUpper, GoesTo, TimerInv, Served
<1>3. \/ TimerEdge(SNAPL, 0) /\ TakeSnapshot
      \/ TimerEdge(-1, 0) /\ (ReadLower \/ ReadUpper)
  BY DEF alt_timestamp, TakeSnapshot, ReadLower, ReadUpper, NoWrite
<1>4. /\ TimerRuns' /\ (started' <=> started)
      /\ snap_at' \in Int
      /\ snap_at' >= 0 => snap_at' <= FullScale /\ counter_snapshot' = FullScale - snap_at'
      /\ TakeSnapshot => (snap_at' >= 0 <=> started)
      /\ ~TakeSnapshot => UNCHANGED snap_at
  <2>1. ts_pc # "idle" => ~TakeSnapshot
    BY DEF TakeSnapshot, GoesTo
  <2>2. CASE TimerEdge(SNAPL, 0) /\ TakeSnapshot
    BY <1>1, <1>2, <2>2, QuietKeeps
  <2>3. CASE TimerEdge(-1, 0) /\ (ReadLower \/ ReadUpper)
    <3>1. ~TakeSnapshot
      BY <2>1, <2>3 DEF ReadLower, ReadUpper, GoesTo
    <3>. QED
      BY <1>1, <1>2, <2>3, <3>1, QuietKeeps
  <2>. QED
    BY <1>3, <2>2, <2>3
<1>5. ASSUME ts_pc' \in {"idle", "lower", "upper"},
             low_at' \in Int, high_at' \in Int
      PROVE  StampTypeOK' /\ Timeouts' /\ Served' /\ Counting'
  <2>1. StampTypeOK' /\ Timeouts'
    BY <1>2, <1>4, <1>5 DEF TimerInv, StampTypeOK, TimerRuns, Timeouts
  <2>2. Served'
    BY <1>2, <1>4, <1>5 DEF Served, TimerRuns
  <2>3. Counting'
    BY <1>2, <1>4, <1>5 DEF Counting, TimerRuns
  <2>. QED
    BY <2>1, <2>2, <2>3
<1>6. low_at \in Int /\ high_at \in Int /\ snap_at \in Int
  BY DEF TimerInv, StampTypeOK
<1>7. CASE TakeSnapshot
  <2>1. /\ ts_pc = "idle" /\ ts_pc' = "lower"
        /\ UNCHANGED <<lower, low_at, high_at, stamp>>
    BY <1>7 DEF TakeSnapshot, GoesTo
  <2>2. Halves'
    BY <1>4, <1>7, <2>1 DEF TimerInv, Halves, StampBetween
  <2>. QED
    BY <1>5, <1>6, <2>1, <2>2 DEF TimerInv
<1>8. CASE ReadLower
  <2>1. /\ ts_pc = "lower" /\ ts_pc' = "upper"
        /\ lower' = read_mux_out(SNAPL) /\ low_at' = snap_at
        /\ UNCHANGED <<high_at, stamp>>
    BY <1>8 DEF ReadLower, GoesTo
  <2>2. lower' = counter_snapshot % Half
    BY <1>1, <2>1 DEF read_mux_out
  <2>3. snap_at' = snap_at
    BY <1>4, <2>1 DEF TakeSnapshot, GoesTo
  <2>4. /\ snap_at >= 0 => snap_at <= FullScale /\ counter_snapshot = FullScale - snap_at
        /\ snap_at >= 0 => started
    BY <2>1 DEF TimerInv, Halves
  <2>5. Halves'
    BY <1>4, <2>1, <2>2, <2>3, <2>4 DEF Halves
  <2>. QED
    BY <1>5, <1>6, <2>1, <2>5 DEF TimerInv
<1>9. CASE ReadUpper
  <2>1. /\ ts_pc = "upper" /\ ts_pc' = "idle"
        /\ stamp' = FullScale - (read_mux_out(SNAPH) * Half + lower) /\ high_at' = snap_at
        /\ UNCHANGED <<lower, low_at>>
    BY <1>9 DEF ReadUpper, GoesTo
  <2>2. read_mux_out(SNAPH) = counter_snapshot \div Half
    BY <1>1 DEF read_mux_out
  <2>3. snap_at' = snap_at
    BY <1>4, <2>1 DEF TakeSnapshot, GoesTo
  <2>4. low_at >= 0 => StampBetween'
    <3>1. stamp' = FullScale - ((counter_snapshot \div Half) * Half + lower)
      BY <2>1, <2>2
    <3>2. CASE low_at >= 0
      <4>1. /\ low_at \in 0 .. FullScale /\ lower = (FullScale - low_at) % Half
            /\ snap_at \in 0 .. FullScale /\ counter_snapshot = FullScale - snap_at
        BY <1>6, <2>1, <3>2, Scales DEF TimerInv, Halves
      <4>2. /\ stamp' \in Int
            /\ low_at = snap_at => stamp' = low_at
            /\ low_at <= snap_at => stamp' >= low_at
            /\ stamp' < snap_at + Half
        BY <3>1, <4>1, TwoHalves
      <4>. QED
        BY <2>1, <4>2 DEF StampBetween
    <3>3. CASE ~(low_at >= 0)
      BY <3>3
    <3>. QED
      BY <3>2, <3>3
  <2>5. Halves'
    BY <1>4, <2>1, <2>4 DEF TimerInv, Halves
  <2>. QED
    BY <1>5, <1>6, <2>1, <2>4, <2>5 DEF TimerInv
<1>. QED
  BY <1>7, <1>8, <1>9 DEF alt_timestamp

LEMMA RegistersStart == StampInit => RegistersOK
  BY Scales DEF StampInit, RegistersOK

\* Every edge leaves the registers what they are.
LEMMA EdgeKeepsRegisters ==
  ASSUME RegistersOK, NEW register, NEW writedata \in Nat,
         TimerEdge(register, writedata)
  PROVE  /\ internal_counter' \in Nat /\ period_l' \in Nat /\ period_h' \in Nat
         /\ counter_snapshot' \in Nat /\ control_register' \in Nat
<1>1. /\ internal_counter \in Nat /\ period_l \in Nat /\ period_h \in Nat
      /\ counter_snapshot \in Nat /\ control_register \in Nat /\ Half \in Nat
  BY Scales DEF RegistersOK
<1>2. internal_counter' \in Nat
  <2>1. internal_counter' \in
          {period_h * Half + period_l, internal_counter} \union
          (IF CounterIsZero THEN {} ELSE {internal_counter - 1})
    BY DEF TimerEdge, Counts
  <2>2. period_h * Half + period_l \in Nat
    BY <1>1
  <2>3. ~CounterIsZero => internal_counter - 1 \in Nat
    BY <1>1 DEF CounterIsZero
  <2>. QED
    BY <1>1, <2>1, <2>2, <2>3
<1>3. writedata % 16 \in Nat
  OBVIOUS
<1>4. /\ period_l' \in {writedata, period_l} /\ period_h' \in {writedata, period_h}
      /\ counter_snapshot' \in {internal_counter, counter_snapshot}
      /\ control_register' \in {writedata % 16, control_register}
  BY DEF TimerEdge
<1>. QED
  BY <1>1, <1>2, <1>3, <1>4

LEMMA RegistersStep == RegistersOK /\ [StampNext]_stampVars => RegistersOK'
<1> SUFFICES ASSUME RegistersOK, [StampNext]_stampVars PROVE RegistersOK'
  OBVIOUS
<1>1. CASE UNCHANGED stampVars
  BY <1>1 DEF stampVars, timer, RegistersOK
<1>2. CASE StampNext
  <2>1. \E register, writedata \in Int : writedata >= 0 /\ TimerEdge(register, writedata)
    <3>1. /\ ITO + CONT + START \in Nat /\ START \in Nat /\ STOP \in Nat /\ Half - 1 \in Nat
          /\ CONTROL \in Int /\ STATUS \in Int /\ SNAPL \in Int
          /\ PERIODL \in Int /\ PERIODH \in Int
      BY Scales DEF ITO, CONT, START, STOP, CONTROL, STATUS, SNAPL, PERIODL, PERIODH
    <3>. QED
      BY <1>2, <3>1 DEF StampNext, Idling, HandlerStamps, SysclkInit, SysclkIrq, TsInit,
        alt_timestamp_start, StartStep, alt_timestamp, TakeSnapshot, ReadLower, ReadUpper,
        NoWrite
  <2>2. /\ internal_counter' \in Nat /\ period_l' \in Nat /\ period_h' \in Nat
        /\ counter_snapshot' \in Nat /\ control_register' \in Nat
    BY <2>1, EdgeKeepsRegisters
  <2>3. CASE ReadLower
    <3>1. lower' = read_mux_out(SNAPL) /\ UNCHANGED stamp
      BY <2>3 DEF ReadLower
    <3>2. read_mux_out(SNAPL) = counter_snapshot % Half
      BY DEF read_mux_out, STATUS, CONTROL, PERIODL, PERIODH, SNAPL, SNAPH
    <3>3. counter_snapshot % Half \in Nat
      BY Scales DEF RegistersOK
    <3>. QED
      BY <2>2, <3>1, <3>2, <3>3 DEF RegistersOK
  <2>4. CASE ReadUpper
    <3>1. stamp' = FullScale - (read_mux_out(SNAPH) * Half + lower) /\ UNCHANGED lower
      BY <2>4 DEF ReadUpper
    <3>2. read_mux_out(SNAPH) = counter_snapshot \div Half
      BY DEF read_mux_out, STATUS, CONTROL, PERIODL, PERIODH, SNAPL, SNAPH
    <3>3. (counter_snapshot \div Half) * Half \in Nat
      BY Scales DEF RegistersOK
    <3>4. stamp' \in Int
      BY <3>1, <3>2, <3>3, Scales DEF RegistersOK
    <3>. QED
      BY <2>2, <3>1, <3>4 DEF RegistersOK
  <2>5. CASE ~(ReadLower \/ ReadUpper)
    <3>1. UNCHANGED <<lower, stamp>>
      BY <1>2, <2>5 DEF StampNext, Idling, HandlerStamps, SysclkInit, SysclkIrq, TsInit,
        alt_timestamp_start, StartStep, alt_timestamp, TakeSnapshot, Thread
    <3>. QED
      BY <2>2, <3>1 DEF RegistersOK
  <2>. QED
    BY <2>3, <2>4, <2>5
<1>. QED
  BY <1>1, <1>2

LEMMA TimerStep == TimerInv /\ [StampNext]_stampVars => TimerInv'
<1>1. TimerInv /\ UNCHANGED stampVars => TimerInv'
  BY DEF stampVars, timer, TimerInv, StampTypeOK, Served, Counting, Timeouts, Halves,
    StampBetween, Period, Continuous
<1>2. TimerInv /\ StampNext => TimerInv'
  BY QuietSteps, SysclkStarts, StartSteps, StampSteps DEF StampNext
<1>. QED
  BY <1>1, <1>2

LEMMA TimerPromises == RegistersOK /\ TimerInv => TimestampInv
<1> SUFFICES ASSUME RegistersOK, TimerInv PROVE TimestampInv
  OBVIOUS
<1>1. started => internal_counter = (IF sysclk THEN ResetPeriod ELSE FullScale) - elapsed
  BY DEF TimerInv, Counting, Period
<1>2. started => counter_is_running = ~rolled
  BY DEF TimerInv, StampTypeOK, Counting
<1>3. ts_pc = "idle" /\ low_at >= 0 => StampBetween
  BY DEF TimerInv, Halves
<1>4. sysclk => overrun \in {-1, ResetPeriod}
  BY DEF TimerInv, StampTypeOK
<1>. QED
  BY <1>1, <1>2, <1>3, <1>4 DEF TimestampInv

\* The clocks a program reads are right and its delays take the turns they should,
\* if a tick is a whole number of microseconds: the time of day goes on from what it
\* was set to, the timer has counted every clock since its start and lost no
\* timeout that was answered within a period, a stamp torn by a handler lies where
\* its halves do, and usleep sleeps what it was asked.
THEOREM TimeInvariance ==
  ASSUME WholeTicks
  PROVE  Spec => []TimeInv
<1> DEFINE Inv == ResetInv /\ RoundsInv /\ DelayExact /\ RegistersOK /\ TimerInv
<1>1. Init => Inv
  BY ResetStarts, RoundsStart, RegistersStart, TimerStarts DEF Init
<1>2. Inv /\ [Next]_libraryVars => Inv'
  <2>1. [Next]_libraryVars =>
          [TimeNext]_timeVars /\ [DelayNext]_delayVars /\ [StampNext]_stampVars
    BY PartSteps
  <2>. QED
    BY <2>1, ResetStep, RoundsStep, RegistersStep, TimerStep
<1>3. Inv => TimeInv
  BY WholeTicks, ClockIsRight, TimerPromises DEF TimeInv
<1>. QED
  BY <1>1, <1>2, <1>3, PTL DEF Spec

-----------------------------------------------------------------------------
(* Exceptions *)

USE ExceptionsAssumption

\* The codes of the causes fit the register's field, and an interrupt is none of
\* those an instruction has.
LEMMA CausesFit ==
  \A cause \in Faults \union {INTERRUPT} :
    /\ cause \in Nat /\ cause * 4 \in Nat /\ ((cause * 4) \div 4) % 32 = cause
    /\ INTERRUPT \notin Faults
<1>1. \A cause \in 0 .. 31 : cause * 4 \in Nat /\ ((cause * 4) \div 4) % 32 = cause
  OBVIOUS
<1>. QED
  BY <1>1 DEF INTERRUPT

\* Addresses of the program and of the handler are apart.
LEMMA Addresses ==
  /\ Program \subseteq Nat /\ HandlerCode \subseteq Nat
  /\ \A i \in Program : i \notin HandlerCode /\ i >= 1 /\ i + 1 <= ProgramEnd
  /\ \A i \in HandlerCode : i >= HandlerStart /\ i + 1 <= HandlerEnd
  /\ HandlerStart > ProgramEnd /\ HandlerEnd > HandlerStart
  BY DEF Program, HandlerCode

\* An exception puts its frame on those that wait.
LEMMA FramePushed ==
  ASSUME frames \in Seq(Frame), NEW frame \in Frame,
         frames' = [i \in DOMAIN frames |-> [frames[i] EXCEPT !.nested = TRUE]]
                     \o <<frame>>
  PROVE  /\ frames' \in Seq(Frame) /\ Len(frames') = Len(frames) + 1 /\ Top' = frame
         /\ frames' # <<>>
         /\ \A i \in DOMAIN frames' :
              /\ i < Len(frames') =>
                   /\ i \in DOMAIN frames /\ frames[i] \in Frame
                   /\ frames'[i] = [frames[i] EXCEPT !.nested = TRUE]
              /\ i = Len(frames') => frames'[i] = frame
<1> DEFINE waiting == [i \in DOMAIN frames |-> [frames[i] EXCEPT !.nested = TRUE]]
<1>1. DOMAIN frames = 1 .. Len(frames) /\ Len(frames) \in Nat
  OBVIOUS
<1>2. \A i \in DOMAIN frames : frames[i] \in Frame
  OBVIOUS
<1>3. \A f \in Frame : [f EXCEPT !.nested = TRUE] \in Frame
  BY DEF Frame
<1>4. waiting \in Seq(Frame) /\ Len(waiting) = Len(frames)
  <2>1. waiting \in [1 .. Len(frames) -> Frame]
    BY <1>1, <1>2, <1>3
  <2>. HIDE DEF waiting
  <2>2. waiting \in Seq(Frame)
    BY <1>1, <2>1, SeqDef, SMTT(30)
  <2>3. DOMAIN waiting = 1 .. Len(frames)
    BY <2>1
  <2>. QED
    BY <1>1, <2>2, <2>3, LenProperties
<1>5. <<frame>> \in Seq(Frame) /\ Len(<<frame>>) = 1 /\ <<frame>>[1] = frame
  OBVIOUS
<1>6. \A i \in DOMAIN frames : waiting[i] = [frames[i] EXCEPT !.nested = TRUE]
  OBVIOUS
<1>7. frames' = waiting \o <<frame>>
  OBVIOUS
<1> HIDE DEF waiting
<1>8. /\ frames' \in Seq(Frame) /\ Len(frames') = Len(frames) + 1
      /\ \A i \in 1 .. Len(frames) + 1 :
           frames'[i] = IF i <= Len(frames) THEN waiting[i] ELSE <<frame>>[i - Len(frames)]
  <2>1. /\ waiting \o <<frame>> \in Seq(Frame)
        /\ Len(waiting \o <<frame>>) = Len(waiting) + Len(<<frame>>)
        /\ \A i \in 1 .. Len(waiting) + Len(<<frame>>) :
             (waiting \o <<frame>>)[i] =
               IF i <= Len(waiting) THEN waiting[i] ELSE <<frame>>[i - Len(waiting)]
    BY <1>4, <1>5, ConcatProperties, ZenonT(60)
  <2>. QED
    BY <1>4, <1>5, <1>7, <2>1, Zenon
<1>9. DOMAIN frames' = 1 .. Len(frames) + 1
  BY <1>8
<1>10. \A i \in DOMAIN frames' :
         /\ i < Len(frames') =>
              /\ i \in DOMAIN frames /\ frames[i] \in Frame
              /\ frames'[i] = [frames[i] EXCEPT !.nested = TRUE]
         /\ i = Len(frames') => frames'[i] = frame
  <2> SUFFICES ASSUME NEW i \in DOMAIN frames'
               PROVE  /\ i < Len(frames') =>
                           /\ i \in DOMAIN frames /\ frames[i] \in Frame
                           /\ frames'[i] = [frames[i] EXCEPT !.nested = TRUE]
                      /\ i = Len(frames') => frames'[i] = frame
    OBVIOUS
  <2>. i \in 1 .. Len(frames) + 1 /\ Len(frames') = Len(frames) + 1
    BY <1>8, <1>9
  <2>1. CASE i <= Len(frames)
    BY <1>1, <1>2, <1>6, <1>8, <2>1
  <2>2. CASE i = Len(frames) + 1
    <3>1. frames'[i] = <<frame>>[i - Len(frames)] /\ i - Len(frames) = 1
      BY <1>1, <1>8, <2>2
    <3>. QED
      BY <1>1, <1>5, <2>2, <3>1
  <2>3. i <= Len(frames) \/ i = Len(frames) + 1
    BY <1>1
  <2>. QED
    BY <2>1, <2>2, <2>3, Zenon
<1>11. Len(frames') \in DOMAIN frames' /\ frames' # <<>>
  BY <1>1, <1>8, <1>9
<1>. QED
  BY <1>8, <1>10, <1>11 DEF Top

\* The exception code changes the innermost frame, and the last step drops it.
LEMMA FrameSet ==
  ASSUME frames \in Seq(Frame), frames # <<>>, NEW frame \in Frame, SetTop(frame)
  PROVE  /\ frames' \in Seq(Frame) /\ Len(frames') = Len(frames) /\ Top' = frame
         /\ frames' # <<>>
         /\ \A i \in DOMAIN frames' :
              /\ i \in DOMAIN frames
              /\ i < Len(frames') => frames'[i] = frames[i]
              /\ i = Len(frames') => frames'[i] = frame
  BY DEF SetTop, Top

LEMMA FrameDropped ==
  ASSUME frames \in Seq(Frame), frames # <<>>,
         frames' = SubSeq(frames, 1, Len(frames) - 1)
  PROVE  /\ frames' \in Seq(Frame) /\ Len(frames') = Len(frames) - 1
         /\ frames' = <<>> <=> Len(frames) = 1
         /\ frames' # <<>> => Top' = frames[Len(frames) - 1]
         /\ \A i \in DOMAIN frames' :
              i \in DOMAIN frames /\ i < Len(frames) /\ frames'[i] = frames[i]
<1>1. Len(frames) \in Nat /\ Len(frames) >= 1 /\ DOMAIN frames = 1 .. Len(frames)
      /\ \A i \in 1 .. Len(frames) - 1 : frames[i] \in Frame
  OBVIOUS
<1>2. /\ frames' \in Seq(Frame)
      /\ Len(frames') = IF 1 <= Len(frames) - 1 THEN Len(frames) - 1 ELSE 0
      /\ \A i \in 1 .. Len(frames) - 1 : frames'[i] = frames[i]
  <2>1. Len(frames) - 1 \in Int
    BY <1>1
  <2>2. /\ SubSeq(frames, 1, Len(frames) - 1) \in Seq(Frame)
        /\ Len(SubSeq(frames, 1, Len(frames) - 1)) =
             IF 1 <= Len(frames) - 1 THEN (Len(frames) - 1) - 1 + 1 ELSE 0
        /\ \A i \in 1 .. (Len(frames) - 1) - 1 + 1 :
             SubSeq(frames, 1, Len(frames) - 1)[i] = frames[1 + i - 1]
    BY <1>1, <2>1, SubSeqProperties
  <2>. QED
    BY <1>1, <2>2
<1>3. Len(frames') = Len(frames) - 1 /\ DOMAIN frames' = 1 .. Len(frames) - 1
  BY <1>1, <1>2
<1>4. frames' = <<>> <=> Len(frames) = 1
  <2>1. frames' # <<>> => Len(frames') \in Nat \ {0}
    BY <1>2, EmptySeq
  <2>2. frames' = <<>> => Len(frames') = 0
    BY EmptySeq
  <2>. QED
    BY <1>1, <1>3, <2>1, <2>2
<1>. QED
  BY <1>1, <1>2, <1>3, <1>4, SMTT(30) DEF Top

LEMMA TopIsLast ==
  ASSUME frames \in Seq(Frame), frames # <<>>
  PROVE  /\ Len(frames) \in Nat \ {0} /\ Len(frames) \in DOMAIN frames
         /\ DOMAIN frames = 1 .. Len(frames) /\ Top = frames[Len(frames)] /\ Top \in Frame
  BY DEF Top

LEMMA FramesStart == ExcInit => FramesInv
<1> SUFFICES ASSUME ExcInit PROVE FramesInv
  OBVIOUS
<1>1. frames = <<>> /\ pc = 1 /\ exc_pc = "run" /\ astray = FALSE
      /\ taken = [i \in Program |-> 0]
  BY DEF ExcInit
<1>2. ExcTypeOK
  <2>1. <<>> \in Seq(Frame) /\ [i \in Program |-> 0] \in [Program -> Nat]
    BY EmptySeq
  <2>2. ea = 0 /\ pie \in BOOLEAN /\ estatus \in BOOLEAN /\ ipending \in BOOLEAN
    BY DEF ExcInit
  <2>. QED
    BY <1>1, <2>1, <2>2 DEF ExcTypeOK
<1>3. Stacked /\ Entering /\ Handling
  BY <1>1 DEF Stacked, Entering, Handling
<1>4. \A i \in Program : taken[i] = IF i < Arrived THEN 1 ELSE 0
  BY <1>1 DEF Arrived, Program
<1>. QED
  BY <1>1, <1>2, <1>3, <1>4 DEF FramesInv

\* Every step, of the processor, the exception code and the handler.
LEMMA FramesExecute ==
  ASSUME FramesInv, ~astray, Execute
  PROVE  FramesInv'
<1>1. /\ exc_pc = "run" /\ pc \in Program \union HandlerCode /\ pc' = pc + 1 /\ Take(pc)
      /\ UNCHANGED <<pie, ea, estatus, exception, badaddr, ipending, exc_pc, frames,
                     registered, told, astray>>
  BY DEF Execute, kept
<1>2. /\ ExcTypeOK /\ Stacked /\ Handling /\ taken \in [Program -> Nat] /\ pc \in Nat
      /\ \A i \in Program : taken[i] = IF i < Arrived THEN 1 ELSE 0
  BY DEF FramesInv, ExcTypeOK
<1>3. Stacked' /\ Entering'
  BY <1>1, <1>2 DEF Stacked, Entering
<1>4. CASE frames = <<>>
  <2>1. pc \in Program /\ pc + 1 \in 1 .. ProgramEnd
    BY <1>1, <1>2, <1>4, Addresses DEF Handling
  <2>2. taken' = [taken EXCEPT ![pc] = taken[pc] + 1]
    BY <1>1, <2>1 DEF Take
  <2>3. taken[pc] = 0 /\ Arrived = pc /\ Arrived' = pc + 1
    BY <1>1, <1>2, <1>4, <2>1 DEF Arrived
  <2>4. \A i \in Program : taken'[i] = IF i < pc + 1 THEN 1 ELSE 0
    BY <1>2, <2>1, <2>2, <2>3, Addresses
  <2>5. taken' \in [Program -> Nat]
    <3>1. taken[pc] + 1 \in Nat
      BY <2>3
    <3>. QED
      BY <1>2, <2>2, <3>1
  <2>6. Handling' /\ ExcTypeOK'
    BY <1>1, <1>2, <1>4, <2>1, <2>5 DEF Handling, ExcTypeOK
  <2>. QED
    BY <1>1, <1>3, <2>3, <2>4, <2>6 DEF FramesInv
<1>5. CASE frames # <<>>
  <2>1. pc \in HandlerCode /\ pc \notin Program /\ pc + 1 \in HandlerStart .. HandlerEnd
    BY <1>1, <1>2, <1>5, Addresses DEF Handling
  <2>2. taken' = taken
    BY <1>1, <2>1 DEF Take
  <2>3. Arrived' = Arrived
    BY <1>1, <1>5 DEF Arrived, Top
  <2>4. Handling'
    BY <1>1, <1>2, <1>5, <2>1 DEF Handling, Top, BadAddrOf
  <2>5. ExcTypeOK'
    BY <1>1, <1>2, <2>2 DEF ExcTypeOK
  <2>. QED
    BY <1>1, <1>2, <1>3, <2>2, <2>3, <2>4, <2>5 DEF FramesInv
<1>. QED
  BY <1>4, <1>5

LEMMA FramesSets ==
  ASSUME FramesInv, ~astray, Program_Sets \/ InterruptRequest
  PROVE  FramesInv'
<1>1. /\ UNCHANGED <<pc, ea, estatus, exception, badaddr, exc_pc, frames, told, taken, astray>>
      /\ pie' \in BOOLEAN /\ ipending' \in BOOLEAN /\ (ipending => ipending')
  <2>1. CASE InterruptRequest
    BY <2>1 DEF InterruptRequest, kept, FramesInv, ExcTypeOK
  <2>2. CASE Program_Sets
    BY <2>2 DEF Program_Sets, kept, FramesInv, ExcTypeOK
  <2>. QED
    BY <2>1, <2>2
<1>2. ExcTypeOK' /\ Stacked' /\ Entering' /\ Handling' /\ Arrived' = Arrived /\ Top' = Top
  BY <1>1 DEF FramesInv, ExcTypeOK, Stacked, Entering, Handling, Arrived, Top, BadAddrOf
<1>. QED
  BY <1>1, <1>2 DEF FramesInv

LEMMA FramesException ==
  ASSUME FramesInv, ~astray,
         NEW cause \in Faults \union {INTERRUPT}, Exception(cause)
  PROVE  FramesInv'
<1> DEFINE frame == [at |-> pc, cause |-> cause, nested |-> FALSE,
                     resume |-> 0, pie |-> FALSE, irq |-> FALSE]
<1>1. /\ exc_pc = "run" /\ exc_pc' = "entry"
      /\ IF cause = INTERRUPT THEN pie /\ ipending /\ pc \in Program \union HandlerCode
                              ELSE pc \in Faulty
      /\ exception' = cause * 4 /\ estatus' = pie /\ pie' = FALSE /\ ea' = pc + 1
      /\ badaddr' = IF alt_exception_cause_generated_bad_addr(cause) THEN pc ELSE badaddr
      /\ UNCHANGED <<pc, ipending, registered, told, taken, astray>>
  BY DEF Exception, Goto_Exc
<1>2. frames' = [i \in DOMAIN frames |-> [frames[i] EXCEPT !.nested = TRUE]] \o <<frame>>
  BY DEF Exception
<1>3. /\ ExcTypeOK /\ Stacked /\ Handling /\ frames \in Seq(Frame) /\ pc \in Nat
      /\ pie \in BOOLEAN
      /\ \A i \in Program : taken[i] = IF i < Arrived THEN 1 ELSE 0
  BY DEF FramesInv, ExcTypeOK
<1>4. pc \in IF frames = <<>> THEN Program ELSE HandlerCode
  <2>1. pc \in Program \union HandlerCode
    BY <1>1 DEF Program, HandlerCode
  <2>. QED
    BY <1>1, <1>3, <2>1, Addresses DEF Handling
<1>5. frame \in Frame
  BY <1>4 DEF Frame
<1>6. /\ frame.at = pc /\ frame.cause = cause /\ frame.nested = FALSE /\ frame.resume = 0
      /\ frame.pie = FALSE /\ frame.irq = FALSE
  OBVIOUS
<1> HIDE DEF frame
<1>7. /\ frames' \in Seq(Frame) /\ Len(frames') = Len(frames) + 1 /\ Top' = frame
      /\ frames' # <<>>
      /\ \A i \in DOMAIN frames' :
           /\ i < Len(frames') =>
                /\ i \in DOMAIN frames /\ frames[i] \in Frame
                /\ frames'[i] = [frames[i] EXCEPT !.nested = TRUE]
           /\ i = Len(frames') => frames'[i] = frame
  BY <1>2, <1>3, <1>5, FramePushed
<1>8. Len(frames) \in Nat /\ DOMAIN frames = 1 .. Len(frames)
      /\ DOMAIN frames' = 1 .. Len(frames) + 1 /\ (frames = <<>> <=> Len(frames) = 0)
  BY <1>3, <1>7, EmptySeq
<1>9. ExcTypeOK'
  <2>1. ea' \in Nat /\ pie' \in BOOLEAN /\ estatus' \in BOOLEAN
    <3>1. ea' \in Nat
      BY <1>1, <1>3
    <3>2. pie' \in BOOLEAN /\ estatus' \in BOOLEAN
      BY <1>1, <1>3, Zenon
    <3>. QED
      BY <3>1, <3>2
  <2>. QED
    BY <1>1, <1>3, <1>7, <2>1 DEF ExcTypeOK
<1>10. \A i \in DOMAIN frames : frames[i].resume = frames[i].at + 1
  BY <1>1, <1>3, <1>8, TopIsLast DEF Stacked, Handling
<1>11. Stacked'
  <2> SUFFICES ASSUME NEW i \in DOMAIN frames'
               PROVE  /\ frames'[i].at \in IF i = 1 THEN Program ELSE HandlerCode
                      /\ frames'[i].irq => frames'[i].pie
                      /\ i < Len(frames') => /\ frames'[i].nested
                                             /\ frames'[i].resume = frames'[i].at + 1
    BY <1>7 DEF Stacked
  <2>1. CASE i < Len(frames')
    <3>1. /\ i \in DOMAIN frames /\ frames[i] \in Frame
          /\ frames'[i] = [frames[i] EXCEPT !.nested = TRUE]
      BY <1>7, <2>1
    <3>2. /\ frames'[i].at = frames[i].at /\ frames'[i].irq = frames[i].irq
          /\ frames'[i].pie = frames[i].pie /\ frames'[i].resume = frames[i].resume
          /\ frames'[i].nested = TRUE
      BY <3>1 DEF Frame
    <3>. QED
      BY <1>3, <1>10, <3>1, <3>2 DEF Stacked
  <2>2. CASE i = Len(frames')
    <3>1. frames'[i] = frame
      BY <1>7, <2>2, Zenon
    <3>2. Len(frames') = Len(frames) + 1 /\ Len(frames) \in Nat
      BY <1>7, <1>8, Zenon
    <3>3. ~(i < Len(frames')) /\ (i = 1 <=> Len(frames) = 0)
      BY <2>2, <3>2
    <3>4. frames = <<>> <=> Len(frames) = 0
      BY <1>8, Zenon
    <3>. QED
      BY <1>4, <1>6, <3>1, <3>3, <3>4
  <2>3. /\ i \in 1 .. Len(frames) + 1 /\ Len(frames) \in Nat
        /\ Len(frames') = Len(frames) + 1
    BY <1>7, <1>8, Zenon
  <2>4. i < Len(frames') \/ i = Len(frames')
    BY <2>3
  <2>. QED
    BY <2>1, <2>2, <2>4, Zenon
<1>12. Entering'
  BY <1>1, <1>6, <1>7 DEF Entering, BadAddrOf, alt_exception_cause_generated_bad_addr
<1>13. Handling'
  BY <1>1 DEF Handling
<1>14. Arrived' = Arrived
  <2>1. CASE frames = <<>>
    <3>1. frames'[1] = frame
      BY <1>7, <1>8, <2>1
    <3>. QED
      BY <1>1, <1>6, <1>7, <2>1, <3>1 DEF Arrived
  <2>2. CASE frames # <<>>
    <3>1. 1 \in DOMAIN frames /\ frames'[1] = [frames[1] EXCEPT !.nested = TRUE]
          /\ frames[1] \in Frame
      <4>0. /\ Len(frames) \in Nat /\ Len(frames) # 0 /\ Len(frames') = Len(frames) + 1
            /\ DOMAIN frames' = 1 .. Len(frames) + 1
        BY <1>7, <1>8, <2>2, Zenon
      <4>1. Len(frames) >= 1 /\ 1 \in DOMAIN frames' /\ 1 < Len(frames')
        BY <4>0
      <4>. QED
        BY <1>7, <4>1
    <3>2. frames'[1].at = frames[1].at
      BY <3>1 DEF Frame
    <3>. QED
      BY <1>1, <1>7, <2>2, <3>2 DEF Arrived
  <2>. QED
    BY <2>1, <2>2
<1>. QED
  BY <1>1, <1>3, <1>9, <1>11, <1>12, <1>13, <1>14 DEF FramesInv

\* The exception code leaves the frames that wait, and where the innermost is of.
LEMMA TopChanges ==
  ASSUME ExcTypeOK, Stacked, frames # <<>>,
         NEW frame \in Frame, SetTop(frame), frame.at = Top.at, frame.irq => frame.pie
  PROVE  /\ frames' \in Seq(Frame) /\ frames' # <<>> /\ Len(frames') = Len(frames)
         /\ Top' = frame /\ Stacked' /\ frames'[1].at = frames[1].at
         /\ Top.at \in Nat /\ Top \in Frame
         /\ Len(frames) = 1 => Top = frames[1] /\ Top.at \in Program
         /\ Len(frames) # 1 => Top.at \in HandlerCode
<1>1. /\ frames \in Seq(Frame) /\ Len(frames) \in Nat \ {0}
      /\ Len(frames) \in DOMAIN frames /\ DOMAIN frames = 1 .. Len(frames)
      /\ Top = frames[Len(frames)] /\ Top \in Frame
  BY TopIsLast DEF ExcTypeOK
<1>2. /\ frames' \in Seq(Frame) /\ Len(frames') = Len(frames) /\ Top' = frame
      /\ frames' # <<>>
      /\ \A i \in DOMAIN frames' :
           /\ i \in DOMAIN frames
           /\ i < Len(frames') => frames'[i] = frames[i]
           /\ i = Len(frames') => frames'[i] = frame
  BY <1>1, FrameSet
<1>3. \A i \in DOMAIN frames' : i < Len(frames') \/ i = Len(frames')
  BY <1>1, <1>2
<1>4. Stacked'
  <2> SUFFICES ASSUME NEW i \in DOMAIN frames'
               PROVE  /\ frames'[i].at \in IF i = 1 THEN Program ELSE HandlerCode
                      /\ frames'[i].irq => frames'[i].pie
                      /\ i < Len(frames') => /\ frames'[i].nested
                                             /\ frames'[i].resume = frames'[i].at + 1
    BY <1>2 DEF Stacked
  <2>1. CASE i < Len(frames')
    BY <1>1, <1>2, <2>1 DEF Stacked
  <2>2. CASE i = Len(frames')
    <3>1. frames'[i] = frame /\ i = Len(frames) /\ i \in DOMAIN frames
      BY <1>2, <2>2
    <3>2. ~(i < Len(frames'))
      BY <1>1, <1>2, <2>2
    <3>3. frame.at = frames[i].at
      BY <1>1, <3>1
    <3>. QED
      BY <3>1, <3>2, <3>3 DEF Stacked
  <2>. QED
    BY <1>3, <2>1, <2>2
<1>5. frames'[1].at = frames[1].at
  <2>1. 1 \in DOMAIN frames'
    BY <1>1, <1>2
  <2>2. CASE 1 < Len(frames')
    BY <1>2, <2>1, <2>2
  <2>3. CASE 1 = Len(frames')
    BY <1>1, <1>2, <2>1, <2>3
  <2>. QED
    BY <1>3, <2>1, <2>2, <2>3
<1>6. /\ Top.at \in IF Len(frames) = 1 THEN Program ELSE HandlerCode
      /\ Len(frames) = 1 => Top = frames[1]
  BY <1>1 DEF Stacked
<1>7. Top.at \in Nat
  BY <1>6, Addresses
<1>. QED
  BY <1>1, <1>2, <1>4, <1>5, <1>6, <1>7

LEMMA FramesCode ==
  ASSUME FramesInv, ~astray, ExceptionEntry \/ IrqTest \/ NotIrq
  PROVE  FramesInv'
<1>1. /\ ExcTypeOK /\ Stacked /\ Entering /\ frames \in Seq(Frame) /\ frames # <<>>
      /\ exc_pc \in {"entry", "irqtest"}
      /\ \A i \in Program : taken[i] = IF i < Arrived THEN 1 ELSE 0
  BY DEF FramesInv, ExcTypeOK, Stacked, ExceptionEntry, IrqTest, NotIrq
<1>2. /\ ea = Top.at + 1 /\ exception = Top.cause * 4 /\ BadAddrOf(Top, badaddr)
      /\ ~Top.nested /\ ~Top.irq
      /\ exc_pc = "irqtest" => Top.resume = Top.at
      /\ Top.cause = INTERRUPT =>
           ipending /\ IF exc_pc = "entry" THEN estatus ELSE Top.pie
  BY <1>1 DEF Entering
<1>3. Top \in Frame /\ Top.at \in Nat
  <2>1. Top \in Frame
    BY <1>1, TopIsLast
  <2>2. Top.at \in Nat
    BY <2>1, Addresses DEF Frame
  <2>. QED
    BY <2>1, <2>2
<1>4. Arrived = frames[1].at
  BY <1>1 DEF Arrived
<1>5. CASE ExceptionEntry
  <2> DEFINE frame == [Top EXCEPT !.resume = ea - 1, !.pie = estatus]
  <2>1. /\ SetTop(frame) /\ exc_pc = "entry" /\ exc_pc' = "irqtest"
        /\ UNCHANGED <<pc, pie, ea, estatus, exception, badaddr, ipending, registered,
                       told, taken, astray>>
    BY <1>5 DEF ExceptionEntry, Goto_Exc, kept
  <2>2. frame \in Frame /\ frame.at = Top.at /\ frame.irq = Top.irq /\ frame.pie = estatus
        /\ frame.resume = Top.at /\ frame.nested = Top.nested /\ frame.cause = Top.cause
    <3>1. ea - 1 = Top.at
      BY <1>2, <1>3
    <3>2. estatus \in BOOLEAN
      BY <1>1 DEF ExcTypeOK
    <3>3. frame = [[Top EXCEPT !.resume = Top.at] EXCEPT !.pie = estatus]
      BY <3>1
    <3> DEFINE first == [Top EXCEPT !.resume = Top.at]
    <3>4. /\ first \in Frame /\ first.at = Top.at /\ first.irq = Top.irq
          /\ first.resume = Top.at /\ first.nested = Top.nested /\ first.cause = Top.cause
      BY <1>3 DEF Frame
    <3> HIDE DEF first
    <3> DEFINE second == [first EXCEPT !.pie = estatus]
    <3>5. /\ second \in Frame /\ second.at = first.at /\ second.irq = first.irq
          /\ second.pie = estatus /\ second.resume = first.resume
          /\ second.nested = first.nested /\ second.cause = first.cause
      BY <3>2, <3>4 DEF Frame
    <3> HIDE DEF frame, second
    <3>6. frame = second
      BY <3>3 DEF second, first
    <3>. QED
      BY <3>4, <3>5, <3>6
  <2> HIDE DEF frame
  <2>3. /\ frames' \in Seq(Frame) /\ frames' # <<>> /\ Len(frames') = Len(frames)
        /\ Top' = frame /\ Stacked' /\ frames'[1].at = frames[1].at
    BY <1>1, <1>2, <2>1, <2>2, TopChanges
  <2>4. ExcTypeOK'
    BY <1>1, <2>1, <2>3 DEF ExcTypeOK
  <2>5. Entering'
    BY <1>2, <2>1, <2>2, <2>3 DEF Entering, BadAddrOf
  <2>6. Handling' /\ Arrived' = Arrived
    BY <1>4, <2>1, <2>3 DEF Handling, Arrived
  <2>. QED
    BY <1>1, <2>1, <2>3, <2>4, <2>5, <2>6 DEF FramesInv
<1>6. CASE IrqTest
  <2> DEFINE frame == [Top EXCEPT !.irq = TRUE]
  <2>1. /\ SetTop(frame) /\ exc_pc = "irqtest" /\ exc_pc' = "exit" /\ Top.pie
        /\ ipending' = FALSE
        /\ UNCHANGED <<pc, pie, ea, estatus, exception, badaddr, registered,
                       told, taken, astray>>
    BY <1>6 DEF IrqTest, Goto_Exc, kept
  <2>2. frame \in Frame /\ frame.at = Top.at /\ frame.pie = Top.pie
        /\ frame.resume = Top.at
    BY <1>2, <1>3, <2>1 DEF Frame
  <2> HIDE DEF frame
  <2>3. /\ frames' \in Seq(Frame) /\ frames' # <<>> /\ Len(frames') = Len(frames)
        /\ Top' = frame /\ Stacked' /\ frames'[1].at = frames[1].at
        /\ Len(frames) = 1 => Top = frames[1]
    BY <1>1, <1>2, <2>1, <2>2, TopChanges
  <2>4. ExcTypeOK'
    BY <1>1, <2>1, <2>3 DEF ExcTypeOK
  <2>5. Entering' /\ Handling'
    BY <2>1 DEF Entering, Handling
  <2>6. Arrived' = Arrived
    BY <1>4, <2>1, <2>2, <2>3 DEF Arrived
  <2>. QED
    BY <1>1, <2>1, <2>2, <2>3, <2>4, <2>5, <2>6 DEF FramesInv
<1>7. CASE NotIrq
  <2> DEFINE frame == [Top EXCEPT !.resume = ea]
  <2>1. /\ SetTop(frame) /\ exc_pc = "irqtest" /\ exc_pc' = "unknown"
        /\ ~(Top.pie /\ ipending)
        /\ UNCHANGED <<pc, pie, ea, estatus, exception, badaddr, ipending, registered,
                       told, taken, astray>>
    BY <1>7 DEF NotIrq, Goto_Exc, kept
  <2>2. frame \in Frame /\ frame.at = Top.at /\ frame.irq = Top.irq /\ frame.pie = Top.pie
        /\ frame.resume = Top.at + 1 /\ frame.nested = Top.nested /\ frame.cause = Top.cause
    <3>1. ea = Top.at + 1 /\ ea \in Int
      BY <1>2, <1>3
    <3>. QED
      BY <1>3, <3>1 DEF Frame
  <2> HIDE DEF frame
  <2>3. /\ frames' \in Seq(Frame) /\ frames' # <<>> /\ Len(frames') = Len(frames)
        /\ Top' = frame /\ Stacked' /\ frames'[1].at = frames[1].at
    BY <1>1, <1>2, <2>1, <2>2, TopChanges
  <2>4. ExcTypeOK'
    BY <1>1, <2>1, <2>3 DEF ExcTypeOK
  <2>5. Top.cause # INTERRUPT
    BY <1>2, <2>1
  <2>6. Entering'
    BY <1>2, <2>1, <2>2, <2>3, <2>5 DEF Entering, BadAddrOf
  <2>7. Handling' /\ Arrived' = Arrived
    BY <1>4, <2>1, <2>3 DEF Handling, Arrived
  <2>. QED
    BY <1>1, <2>1, <2>3, <2>4, <2>6, <2>7 DEF FramesInv
<1>. QED
  BY <1>5, <1>6, <1>7

LEMMA FramesCall ==
  ASSUME FramesInv, ~astray, alt_instruction_exception_entry
  PROVE  FramesInv'
<1>1. /\ ExcTypeOK /\ Stacked /\ Entering /\ frames \in Seq(Frame) /\ frames # <<>>
      /\ exc_pc = "unknown"
      /\ \A i \in Program : taken[i] = IF i < Arrived THEN 1 ELSE 0
  BY DEF FramesInv, ExcTypeOK, Stacked, alt_instruction_exception_entry
<1>2. /\ ea = Top.at + 1 /\ exception = Top.cause * 4 /\ BadAddrOf(Top, badaddr)
      /\ Top.resume = Top.at + 1 /\ Top.cause # INTERRUPT
  BY <1>1 DEF Entering
<1>3. UNCHANGED <<pie, ea, estatus, exception, badaddr, ipending, frames, registered,
                  taken, astray>>
  BY DEF alt_instruction_exception_entry, kept
<1>4. Top' = Top /\ Stacked' /\ Top \in Frame /\ Top.at \in Nat
  <2>1. Top' = Top /\ Stacked' /\ Top \in Frame
    BY <1>1, <1>3, TopIsLast DEF Top, Stacked
  <2>2. Top.at \in Nat
    BY <2>1, Addresses DEF Frame
  <2>. QED
    BY <2>1, <2>2
<1>5. CASE registered
  <2>1. /\ told' = [cause |-> (exception \div 4) % 32, pc |-> ea - 1, badaddr |-> badaddr]
        /\ pc' = HandlerStart /\ exc_pc' = "run"
    BY <1>5 DEF alt_instruction_exception_entry, Goto_Exc
  <2>2. (exception \div 4) % 32 = Top.cause
    BY <1>2, <1>4, CausesFit DEF Frame
  <2>3. told'.cause = Top.cause /\ told'.pc = Top.at /\ told'.badaddr = badaddr
    BY <1>2, <1>4, <2>1, <2>2
  <2>4. Handling' /\ Entering'
    BY <1>1, <1>2, <1>3, <1>4, <2>1, <2>3, Addresses DEF Handling, Entering, BadAddrOf
  <2>5. ExcTypeOK' /\ Arrived' = Arrived
    BY <1>1, <1>3, <1>4, <2>1 DEF ExcTypeOK, Arrived
  <2>. QED
    BY <1>1, <1>3, <1>4, <2>1, <2>4, <2>5 DEF FramesInv
<1>6. CASE ~registered
  <2>1. exc_pc' = "break" /\ UNCHANGED <<told, pc>>
    BY <1>6 DEF alt_instruction_exception_entry, Goto_Exc
  <2>2. Handling' /\ Entering'
    BY <2>1 DEF Handling, Entering
  <2>3. ExcTypeOK' /\ Arrived' = Arrived
    BY <1>1, <1>3, <1>4, <2>1 DEF ExcTypeOK, Arrived
  <2>. QED
    BY <1>1, <1>3, <1>4, <2>1, <2>2, <2>3 DEF FramesInv
<1>. QED
  BY <1>5, <1>6

LEMMA FramesReturn ==
  ASSUME FramesInv, ~astray,
         NEW answer_given \in {REISSUE_INST, SKIP_INST}, HandlerReturns(answer_given)
  PROVE  FramesInv'
<1>1. /\ ExcTypeOK /\ Stacked /\ Handling /\ frames \in Seq(Frame)
      /\ exc_pc = "run" /\ pc = HandlerEnd /\ exc_pc' = "exit"
      /\ UNCHANGED <<pc, pie, ea, estatus, exception, badaddr, ipending, registered, told>>
      /\ taken \in [Program -> Nat]
      /\ \A i \in Program : taken[i] = IF i < Arrived THEN 1 ELSE 0
  BY DEF FramesInv, ExcTypeOK, HandlerReturns, Goto_Exc, kept
<1>2. frames # <<>>
  BY <1>1, Addresses DEF Handling
<1>3. /\ Top.resume = Top.at + 1
      /\ ~Top.nested => ea = Top.at + 1
  BY <1>1, <1>2 DEF Handling
<1>4. Top \in Frame /\ Len(frames) \in DOMAIN frames /\ Top = frames[Len(frames)]
      /\ Len(frames) \in Nat \ {0}
  BY <1>1, <1>2, TopIsLast
<1>5. Arrived = frames[1].at
  BY <1>1, <1>2 DEF Arrived
<1>6. Top.irq => Top.pie
  BY <1>1, <1>4 DEF Stacked
<1>7. Entering' /\ Handling'
  BY <1>1 DEF Entering, Handling
<1>8. CASE answer_given = SKIP_INST
  <2>1. UNCHANGED <<frames, astray>> /\ Take(Top.at)
    BY <1>8 DEF HandlerReturns
  <2>2. Stacked' /\ Top' = Top
    BY <1>1, <1>2, <2>1 DEF Stacked, Top
  <2>3. CASE Len(frames) = 1
    <3>1. Top.at \in Program /\ Top = frames[1]
      BY <1>1, <1>4, <2>3 DEF Stacked
    <3>2. taken' = [taken EXCEPT ![Top.at] = taken[Top.at] + 1]
      BY <2>1, <3>1 DEF Take
    <3>3. taken[Top.at] = 0
      <4>1. Arrived = Top.at /\ Top.at \in Nat
        BY <1>5, <3>1, Addresses
      <4>2. ~(Top.at < Top.at)
        BY <4>1
      <4>. QED
        BY <1>1, <3>1, <4>1, <4>2
    <3>4. Arrived' = Top.at + 1
      BY <1>1, <1>2, <1>3, <2>1, <2>2, <2>3 DEF Arrived
    <3>5. taken' \in [Program -> Nat]
      BY <1>1, <3>1, <3>2, <3>3
    <3>6. \A i \in Program : taken'[i] = IF i < Top.at + 1 THEN 1 ELSE 0
      <4>1. \A i \in Program : i < Top.at + 1 <=> i < Top.at \/ i = Top.at
        <5>1. \A i, n \in Nat : i < n + 1 <=> i < n \/ i = n
          OBVIOUS
        <5>2. Program \subseteq Nat
          BY Addresses
        <5>. QED
          BY <3>1, <5>1, <5>2
      <4>2. \A i \in Program : taken[i] = IF i < Top.at THEN 1 ELSE 0
        BY <1>1, <1>5, <3>1
      <4>3. Top.at \in Nat
        BY <3>1, Addresses
      <4>. QED
        BY <1>1, <3>1, <3>2, <3>3, <4>1, <4>2, <4>3
    <3>. QED
      BY <1>1, <1>3, <1>7, <2>1, <2>2, <3>4, <3>5, <3>6 DEF FramesInv, ExcTypeOK
  <2>4. CASE Len(frames) # 1
    <3>1. Top.at \in HandlerCode
      BY <1>1, <1>4, <2>4 DEF Stacked
    <3>2. taken' = taken
      BY <2>1, <3>1, Addresses DEF Take
    <3>3. Arrived' = Arrived
      BY <1>1, <1>2, <1>5, <2>1, <2>4 DEF Arrived
    <3>. QED
      BY <1>1, <1>3, <1>7, <2>1, <2>2, <3>2, <3>3 DEF FramesInv, ExcTypeOK
  <2>. QED
    BY <2>3, <2>4
<1>9. CASE answer_given # SKIP_INST
  <2> DEFINE frame == [Top EXCEPT !.resume = ea - 1]
  <2>1. /\ SetTop(frame) /\ UNCHANGED taken
        /\ astray' = (ea # Top.at + 1)
    BY <1>9 DEF HandlerReturns
  <2>2. ea \in Nat /\ ea - 1 \in Int
    BY <1>1 DEF ExcTypeOK
  <2>3. /\ frame \in Frame /\ frame.at = Top.at /\ frame.irq = Top.irq
        /\ frame.pie = Top.pie /\ frame.resume = ea - 1 /\ frame.nested = Top.nested
    BY <1>4, <2>2 DEF Frame
  <2> HIDE DEF frame
  <2>4. /\ frames' \in Seq(Frame) /\ frames' # <<>> /\ Len(frames') = Len(frames)
        /\ Top' = frame /\ Stacked' /\ frames'[1].at = frames[1].at /\ Top.at \in Nat
        /\ Len(frames) = 1 => Top = frames[1]
    BY <1>1, <1>2, <1>6, <2>1, <2>3, TopChanges
  <2>5. astray' \in BOOLEAN /\ (astray' <=> ea # Top.at + 1)
    BY <2>1
  <2>6. astray' => frames' # <<>> /\ Top'.nested
    BY <1>3, <2>3, <2>4, <2>5
  <2>7. ExcTypeOK'
    BY <1>1, <2>1, <2>4, <2>5 DEF ExcTypeOK
  <2>8. ASSUME ~astray' PROVE Top'.resume = Top.at /\ Arrived' = Arrived
    BY <1>1, <1>5, <2>2, <2>3, <2>4, <2>5, <2>8 DEF Arrived
  <2>. QED
    BY <1>1, <1>7, <2>1, <2>3, <2>4, <2>6, <2>7, <2>8 DEF FramesInv
<1>. QED
  BY <1>8, <1>9

LEMMA FramesExit ==
  ASSUME FramesInv, ~astray, ExceptionExit
  PROVE  FramesInv'
<1>1. /\ ExcTypeOK /\ Stacked /\ frames \in Seq(Frame) /\ frames # <<>>
      /\ exc_pc = "exit" /\ exc_pc' = "run"
      /\ ea' = Top.resume /\ estatus' = Top.pie /\ pc' = Top.resume /\ pie' = Top.pie
      /\ frames' = SubSeq(frames, 1, Len(frames) - 1)
      /\ UNCHANGED <<exception, badaddr, ipending, registered, told, taken, astray>>
      /\ Top.resume \in {Top.at, Top.at + 1}
      /\ \A i \in Program : taken[i] = IF i < Arrived THEN 1 ELSE 0
  BY DEF FramesInv, ExcTypeOK, Stacked, ExceptionExit, Goto_Exc
<1>2. Top \in Frame /\ Len(frames) \in DOMAIN frames /\ Top = frames[Len(frames)]
      /\ Len(frames) \in Nat \ {0} /\ DOMAIN frames = 1 .. Len(frames)
  BY <1>1, TopIsLast
<1>3. /\ frames' \in Seq(Frame) /\ Len(frames') = Len(frames) - 1
      /\ frames' = <<>> <=> Len(frames) = 1
      /\ frames' # <<>> => Top' = frames[Len(frames) - 1]
      /\ \A i \in DOMAIN frames' :
           i \in DOMAIN frames /\ i < Len(frames) /\ frames'[i] = frames[i]
  BY <1>1, FrameDropped
<1>4. Top.at \in IF Len(frames) = 1 THEN Program ELSE HandlerCode
  BY <1>1, <1>2 DEF Stacked
<1>5. Top.resume \in IF Len(frames) = 1 THEN 1 .. ProgramEnd ELSE HandlerStart .. HandlerEnd
  <2>1. CASE Len(frames) = 1
    BY <1>1, <1>4, <2>1 DEF Program
  <2>2. CASE Len(frames) # 1
    BY <1>1, <1>4, <2>2 DEF HandlerCode
  <2>. QED
    BY <2>1, <2>2
<1>6. Stacked'
  <2> SUFFICES ASSUME NEW i \in DOMAIN frames'
               PROVE  /\ frames'[i].at \in IF i = 1 THEN Program ELSE HandlerCode
                      /\ frames'[i].irq => frames'[i].pie
                      /\ frames'[i].nested /\ frames'[i].resume = frames'[i].at + 1
    BY <1>1 DEF Stacked
  <2>1. i \in DOMAIN frames /\ i < Len(frames) /\ frames'[i] = frames[i]
    BY <1>3
  <2>. QED
    BY <1>1, <2>1 DEF Stacked
<1>7. ExcTypeOK'
  <2>1. pc' \in Nat /\ ea' \in Nat
    BY <1>1, <1>5, Addresses
  <2>2. Top.pie \in BOOLEAN
    BY <1>2 DEF Frame
  <2>. QED
    BY <1>1, <1>3, <2>1, <2>2 DEF ExcTypeOK
<1>8. frames' # <<>> => Top'.nested /\ Top'.resume = Top'.at + 1
  <2> SUFFICES ASSUME frames' # <<>> PROVE Top'.nested /\ Top'.resume = Top'.at + 1
    OBVIOUS
  <2>1. Len(frames) - 1 \in DOMAIN frames /\ Len(frames) - 1 < Len(frames)
        /\ Top' = frames[Len(frames) - 1]
    BY <1>2, <1>3
  <2>. QED
    BY <1>1, <2>1 DEF Stacked
<1>9. Handling' /\ Entering'
  BY <1>1, <1>3, <1>5, <1>8 DEF Handling, Entering
<1>10. Arrived' = Arrived
  <2>1. CASE Len(frames) = 1
    BY <1>1, <1>3, <2>1 DEF Arrived
  <2>2. CASE Len(frames) # 1
    <3>1. 1 \in DOMAIN frames'
      BY <1>2, <1>3, <2>2
    <3>2. frames'[1].at = frames[1].at
      BY <1>3, <3>1
    <3>. QED
      BY <1>1, <1>3, <2>2, <3>2 DEF Arrived
  <2>. QED
    BY <2>1, <2>2
<1>. QED
  BY <1>1, <1>6, <1>7, <1>9, <1>10 DEF FramesInv

LEMMA FramesStep ==
  ASSUME FramesInv, [ExcNext]_excVars
  PROVE  FramesInv'
<1>1. CASE UNCHANGED excVars
  BY <1>1 DEF excVars, kept, FramesInv, ExcTypeOK, Stacked, Entering, Handling, Arrived,
    Top, BadAddrOf
<1>2. CASE ExcNext
  BY <1>2, FramesExecute, FramesSets, FramesException, FramesCode, FramesCall, FramesReturn,
    FramesExit DEF ExcNext
<1>. QED
  BY <1>1, <1>2

LEMMA FramesPromise == FramesInv => ExceptionsInv
<1> SUFFICES ASSUME FramesInv PROVE ExceptionsInv
  OBVIOUS
<1>1. ~astray /\ frames = <<>> => \A i \in Program : taken[i] = IF i < pc THEN 1 ELSE 0
  BY DEF FramesInv, Arrived
<1>2. ~astray /\ exc_pc = "exit" => Top.resume \in {Top.at, Top.at + 1}
  BY DEF FramesInv
<1>3. exc_pc = "run" /\ pc = HandlerStart /\ ~Top.nested =>
        /\ told.pc = Top.at /\ told.cause = Top.cause
        /\ told.cause # INTERRUPT
        /\ alt_exception_cause_generated_bad_addr(told.cause) => told.badaddr = Top.at
  <2> SUFFICES ASSUME exc_pc = "run", pc = HandlerStart, ~Top.nested
               PROVE  /\ told.pc = Top.at /\ told.cause = Top.cause
                      /\ told.cause # INTERRUPT
                      /\ alt_exception_cause_generated_bad_addr(told.cause) =>
                           told.badaddr = Top.at
    OBVIOUS
  <2>1. frames # <<>>
    BY Addresses DEF FramesInv, Handling
  <2>. QED
    BY <2>1 DEF FramesInv, Handling, BadAddrOf
<1>4. \A i \in DOMAIN frames : frames[i].irq => frames[i].pie
  BY DEF FramesInv, Stacked
<1>5. astray => Top.nested
  BY DEF FramesInv
<1>. QED
  BY <1>1, <1>2, <1>3, <1>4, <1>5 DEF ExceptionsInv

\* Wherever interrupts and exceptions come, every instruction is executed or skipped
\* once, a frame goes on where it should, and the handler is told the instruction,
\* cause and address of the exception it is called for; but for a handler that raised
\* an exception itself and then asks to issue the instruction again.
THEOREM FramesInvariance == Spec => []ExceptionsInv
<1>1. Init => FramesInv
  BY FramesStart DEF Init
<1>2. FramesInv /\ [Next]_libraryVars => FramesInv'
  BY PartSteps, FramesStep
<1>. QED
  BY <1>1, <1>2, FramesPromise, PTL DEF Spec

-----------------------------------------------------------------------------
(* Caches *)

USE CachesAssumption

\* A byte of memory is in a line of memory, and in one place of it.
LEMMA ByteInLine ==
  ASSUME NEW b \in Int
  PROVE  /\ LineOf(b) \in Int /\ b % LineSize \in 0 .. LineSize - 1
         /\ b = LineOf(b) * LineSize + (b % LineSize)
         /\ b \in Byte => LineOf(b) \in Line
<1>1. LineSize \in Nat \ {0} /\ MemLines \in Nat
  OBVIOUS
<1>2. /\ LineOf(b) \in Int /\ b % LineSize \in 0 .. LineSize - 1
      /\ b = LineOf(b) * LineSize + (b % LineSize)
  BY DEF LineOf
<1>3. ASSUME b \in Byte PROVE LineOf(b) \in Line
  <2> DEFINE l == LineOf(b)
             r == b % LineSize
  <2>1. b >= 0 /\ b <= MemLines * LineSize - 1 /\ MemLines * LineSize \in Nat
    BY <1>1, <1>3 DEF Byte
  <2>2. l \in Int /\ r \in 0 .. LineSize - 1 /\ b = l * LineSize + r
    BY <1>2
  <2> HIDE DEF l, r
  <2>3. l >= 0
    <3>1. ASSUME l <= -1 PROVE FALSE
      <4>1. l * LineSize <= (-1) * LineSize
        BY <1>1, <2>2, <3>1
      <4>. QED
        BY <1>1, <2>1, <2>2, <4>1
    <3>. QED
      BY <2>2, <3>1
  <2>4. l <= MemLines - 1
    <3>1. ASSUME l >= MemLines PROVE FALSE
      <4>1. MemLines * LineSize <= l * LineSize
        BY <1>1, <2>2, <3>1
      <4>. QED
        BY <1>1, <2>1, <2>2, <4>1
    <3>. QED
      BY <1>1, <2>2, <3>1
  <2>5. l \in Line
    BY <2>2, <2>3, <2>4 DEF Line
  <2>. QED
    BY <2>5 DEF l
<1>. QED
  BY <1>2, <1>3

\* Which line an address is in.
LEMMA LineIs ==
  ASSUME NEW l \in Int, NEW r \in 0 .. LineSize - 1
  PROVE  LineOf(l * LineSize + r) = l
  BY DivisionUnique DEF LineOf

\* The flush loops miss no line of what they are asked for, wherever in a line it
\* begins and ends.
LEMMA NoLineMissed ==
  ASSUME NEW start \in Nat, NEW len \in Nat, NEW b \in start .. start + len - 1
  PROVE  LineOf(b) \in LinesVisited(start, len)
<1> DEFINE d == b - start
           q == d \div LineSize
           p == d % LineSize
           s == start % LineSize
           k == LineOf(start)
           i == start + q * LineSize
<1>1. LineSize \in Nat \ {0} /\ d \in Nat /\ d <= len - 1 /\ b = start + d
  OBVIOUS
<1>2. q \in Nat /\ p \in 0 .. LineSize - 1 /\ d = q * LineSize + p
  BY <1>1, Division
<1>3. k \in Int /\ s \in 0 .. LineSize - 1 /\ start = k * LineSize + s
  BY <1>1, ByteInLine
<1>4. (i - start) % LineSize = 0 /\ i \in Int
  <2> HIDE DEF q, p
  <2>1. i - start = q * LineSize + 0 /\ 0 \in 0 .. LineSize - 1 /\ i \in Int
    BY <1>1, <1>2
  <2>. QED
    BY <1>1, <1>2, <2>1, DivisionUnique
<1>5. i \in Stops(start, len)
  <2>1. q * LineSize \in Nat
    BY <1>1, <1>2
  <2> HIDE DEF q, p
  <2>2. i \in start .. start + len - 1
    BY <1>1, <1>2, <2>1
  <2>. QED
    BY <1>4, <2>2 DEF Stops
<1>6. LineOf(i) = k + q
  <2>1. i = (k + q) * LineSize + s
    <3>1. (k + q) * LineSize = k * LineSize + q * LineSize
      BY <1>1, <1>2, <1>3
    <3>. QED
      BY <1>1, <1>2, <1>3, <3>1
  <2>2. k + q \in Int
    BY <1>2, <1>3
  <2>. QED
    BY <1>3, <2>1, <2>2, LineIs
<1>7. CASE s + p < LineSize
  <2>1. b = (k + q) * LineSize + (s + p)
    <3>1. (k + q) * LineSize = k * LineSize + q * LineSize
      BY <1>1, <1>2, <1>3
    <3>. QED
      BY <1>1, <1>2, <1>3, <3>1
  <2>2. LineOf(b) = k + q
    <3>1. k + q \in Int /\ s + p \in 0 .. LineSize - 1
      BY <1>1, <1>2, <1>3, <1>7
    <3>. QED
      BY <2>1, <3>1, LineIs
  <2>. QED
    BY <1>5, <1>6, <2>2 DEF LinesVisited
<1>8. CASE s + p >= LineSize
  <2>1. LineOf(b) = k + q + 1
    <3>1. (k + q + 1) * LineSize = k * LineSize + q * LineSize + LineSize
      BY <1>1, <1>2, <1>3
    <3>2. b = (k + q + 1) * LineSize + (s + p - LineSize)
      BY <1>1, <1>2, <1>3, <3>1
    <3>3. k + q + 1 \in Int /\ s + p - LineSize \in 0 .. LineSize - 1
      BY <1>1, <1>2, <1>3, <1>8
    <3>. QED
      BY <3>2, <3>3, LineIs
  <2>2. start % LineSize # 0
    BY <1>1, <1>2, <1>3, <1>8
  <2> DEFINE j == start + (q + 1) * LineSize
  <2>3. (q + 1) * LineSize = q * LineSize + LineSize /\ q * LineSize \in Nat
    BY <1>1, <1>2
  <2>4. LineOf(j) = k + q + 1
    <3>1. (k + q + 1) * LineSize = k * LineSize + q * LineSize + LineSize
      BY <1>1, <1>2, <1>3
    <3>2. j = (k + q + 1) * LineSize + s
      BY <1>1, <1>2, <1>3, <2>3, <3>1
    <3>3. k + q + 1 \in Int
      BY <1>2, <1>3
    <3>. QED
      BY <1>3, <3>2, <3>3, LineIs
  <2>5. CASE (q + 1) * LineSize <= len - 1
    <3>1. j \in Stops(start, len)
      <4>1. j - start = (q + 1) * LineSize + 0 /\ 0 \in 0 .. LineSize - 1 /\ q + 1 \in Int
        BY <1>1, <1>2, <2>3
      <4>2. (j - start) % LineSize = 0
        BY <1>1, <4>1, DivisionUnique
      <4>3. j \in start .. start + len - 1
        BY <2>3, <2>5
      <4>. QED
        BY <4>2, <4>3 DEF Stops
    <3>. QED
      BY <2>1, <2>4, <3>1 DEF LinesVisited
  <2>6. CASE (q + 1) * LineSize > len - 1
    <3>1. RoundUp(len) = (q + 1) * LineSize
      <4> DEFINE e == (len + LineSize - 1) - (q + 1) * LineSize
      <4>1. e \in 0 .. LineSize - 1
        BY <1>1, <1>2, <2>3, <2>6
      <4>2. len + LineSize - 1 = (q + 1) * LineSize + e /\ q + 1 \in Int
        BY <1>1, <1>2, <2>3
      <4> HIDE DEF e, q
      <4>3. (len + LineSize - 1) \div LineSize = q + 1
        <5>1. ((q + 1) * LineSize + e) \div LineSize = q + 1
          BY <1>1, <4>1, <4>2, DivisionUnique
        <5>. QED
          BY <4>2, <5>1
      <4>4. RoundUp(len) = LineSize * (q + 1)
        BY <4>3 DEF RoundUp
      <4>. QED
        BY <1>1, <1>2, <4>4
    <3>. QED
      BY <2>1, <2>2, <2>4, <3>1 DEF LinesVisited
  <2>. QED
    BY <1>1, <1>2, <2>3, <2>5, <2>6
<1>. QED
  BY <1>1, <1>2, <1>3, <1>7, <1>8

\* A request for whole lines visits no other bytes.
LEMMA WholeLines ==
  ASSUME NEW start \in Nat, NEW len \in Nat,
         start % LineSize = 0, len % LineSize = 0,
         NEW b \in Int, LineOf(b) \in LinesVisited(start, len)
  PROVE  b \in start .. start + len - 1
<1>1. LineSize \in Nat \ {0}
  OBVIOUS
<1>2. PICK i \in start .. start + len - 1 :
        (i - start) % LineSize = 0 /\ LineOf(b) = LineOf(i)
  BY DEF LinesVisited, Stops
<1> DEFINE k == LineOf(start)
           m == len \div LineSize
           n == (i - start) \div LineSize
           p == b % LineSize
<1>3. k \in Int /\ start = k * LineSize
  BY <1>1, ByteInLine
<1>4. m \in Nat /\ len = m * LineSize
  <2>1. m \in Nat /\ len = m * LineSize + (len % LineSize)
    BY <1>1, Division
  <2> HIDE DEF m
  <2>. QED
    BY <1>1, <2>1
<1>5. n \in Nat /\ i - start = n * LineSize
  <2>1. i - start \in Nat
    BY <1>2
  <2>2. n \in Nat /\ i - start = n * LineSize + ((i - start) % LineSize)
    BY <1>1, <2>1, Division
  <2> HIDE DEF n
  <2>. QED
    BY <1>1, <1>2, <2>2
<1>6. LineOf(b) \in Int /\ p \in 0 .. LineSize - 1 /\ b = LineOf(b) * LineSize + p
  BY ByteInLine
<1> HIDE DEF k, m, n, p
<1>7. (k + n) * LineSize = k * LineSize + n * LineSize /\ n * LineSize \in Nat
      /\ k * LineSize \in Int
  BY <1>1, <1>3, <1>5
<1>8. LineOf(i) = k + n
  <2>1. i = (k + n) * LineSize + 0 /\ k + n \in Int /\ 0 \in 0 .. LineSize - 1
    BY <1>1, <1>2, <1>3, <1>5, <1>7
  <2>. QED
    BY <2>1, LineIs
<1>9. b = start + n * LineSize + p
  BY <1>2, <1>3, <1>5, <1>6, <1>7, <1>8
<1>10. n + 1 <= m
  <2>1. ASSUME m <= n PROVE FALSE
    <3>1. m * LineSize <= n * LineSize
      BY <1>1, <1>4, <1>5, <2>1, ProductGrows
    <3>. QED
      BY <1>2, <1>4, <1>5, <1>7, <3>1
  <2>. QED
    BY <1>4, <1>5, <2>1
<1>11. n * LineSize + LineSize <= len
  <2>1. (n + 1) * LineSize <= m * LineSize
    BY <1>1, <1>4, <1>5, <1>10, ProductGrows
  <2>2. (n + 1) * LineSize = n * LineSize + LineSize
    BY <1>1, <1>5
  <2>. QED
    BY <1>4, <2>1, <2>2
<1>. QED
  BY <1>1, <1>6, <1>7, <1>9, <1>11

\* A flush as long as the cache visits a line at every index.
LEMMA EveryIndex ==
  ASSUME NEW start \in Nat, NEW l \in Int
  PROVE  \E v \in LinesVisited(start, CacheLines * LineSize) :
           v % CacheLines = l % CacheLines
<1> DEFINE k == LineOf(start)
           s == start % LineSize
           n == (l - k) % CacheLines
           i == start + n * LineSize
<1>1. LineSize \in Nat \ {0} /\ CacheLines \in Nat \ {0}
  OBVIOUS
<1>2. k \in Int /\ s \in 0 .. LineSize - 1 /\ start = k * LineSize + s
  BY ByteInLine
<1>3. n \in 0 .. CacheLines - 1
  BY <1>1, <1>2
<1>4. (k + n) % CacheLines = l % CacheLines
  <2> DEFINE d == (l - k) \div CacheLines
             e == l \div CacheLines
             r == l % CacheLines
  <2>1. l - k = d * CacheLines + n /\ d \in Int
    <3>1. l - k \in Int
      BY <1>2
    <3>. QED
      BY <1>1, <3>1, IntDivision
  <2>2. l = e * CacheLines + r /\ e \in Int /\ r \in 0 .. CacheLines - 1
    BY <1>1
  <2> HIDE DEF d, e, r, n, k
  <2>3. (e - d) * CacheLines = e * CacheLines - d * CacheLines /\ e - d \in Int
    BY <1>1, <2>1, <2>2
  <2>4. k + n = (e - d) * CacheLines + r
    BY <1>2, <1>3, <2>1, <2>2, <2>3
  <2>5. (k + n) % CacheLines = r
    BY <1>1, <2>2, <2>3, <2>4, DivisionUnique
  <2>. QED
    BY <2>5 DEF r
<1> HIDE DEF k, s, n
<1>5. n * LineSize \in Nat /\ n * LineSize <= CacheLines * LineSize - LineSize
      /\ CacheLines * LineSize \in Nat
  <2>1. n * LineSize <= (CacheLines - 1) * LineSize
    BY <1>1, <1>3, ProductGrows
  <2>2. (CacheLines - 1) * LineSize = CacheLines * LineSize - LineSize
    BY <1>1
  <2>. QED
    BY <1>1, <1>3, <2>1, <2>2
<1>6. LineOf(i) = k + n
  <2>1. (k + n) * LineSize = k * LineSize + n * LineSize
    BY <1>1, <1>2, <1>3
  <2>2. i = (k + n) * LineSize + s /\ k + n \in Int
    BY <1>1, <1>2, <1>3, <2>1
  <2>. QED
    BY <1>2, <2>2, LineIs
<1>7. i \in Stops(start, CacheLines * LineSize)
  <2>1. i - start = n * LineSize + 0 /\ n \in Int /\ 0 \in 0 .. LineSize - 1
    BY <1>1, <1>3, <1>5
  <2>2. (i - start) % LineSize = 0
    BY <1>1, <2>1, DivisionUnique
  <2>3. i \in start .. start + CacheLines * LineSize - 1
    BY <1>1, <1>5
  <2>. QED
    BY <2>2, <2>3 DEF Stops
<1>. QED
  BY <1>4, <1>6, <1>7 DEF LinesVisited

\* Two lines that are cached have indices of their own.
OwnIndex(lines, others) ==
  \A k \in lines, l \in others : k % CacheLines = l % CacheLines => k = l
Unique(lines) == OwnIndex(lines, lines)

DataInv ==
  /\ cached \subseteq Line /\ Unique(cached) /\ dirty \subseteq cached
  /\ newer \subseteq InLines(dirty) /\ Apart
  /\ \A block \in blocks : block \subseteq Byte
  /\ lost = {} /\ flushed \cap newer = {}

CodeInv ==
  /\ icached \subseteq Line /\ Unique(icached) /\ outdated \subseteq icached
  /\ renewed \cap outdated = {}

LEMMA DataAndCode == DataInv /\ CodeInv => CachesInv
  BY DEF DataInv, CodeInv, CachesInv, CachesTypeOK, CachesCoherent, Unique, OwnIndex, Apart, InLines

LEMMA CachesStart == CachesInit => DataInv /\ CodeInv
  BY DEF CachesInit, DataInv, CodeInv, Unique, OwnIndex, Apart, InLines

\* Lines leave the cache and one may come in.
LEMMA TurnoverKeeps ==
  ASSUME DataInv, NEW victims \in SUBSET cached, NEW incoming \in SUBSET Line,
         NEW stored \in SUBSET Byte, stored \subseteq InLines(incoming),
         OwnIndex(incoming, (cached \ victims) \union incoming),
         Turnover(victims, incoming, stored)
  PROVE  /\ cached' = (cached \ victims) \union incoming
         /\ cached' \subseteq Line /\ Unique(cached)' /\ dirty' \subseteq cached'
         /\ newer' = (newer \ InLines(victims)) \union stored
         /\ newer' \subseteq InLines(dirty)' /\ older' = {} /\ lost' = {}
<1>1. /\ cached' = (cached \ victims) \union incoming
      /\ dirty' = (dirty \ victims) \union {LineOf(b) : b \in stored}
      /\ newer' = (newer \ InLines(victims)) \union stored
      /\ older' = {} /\ lost' = {}
  BY DEF Turnover, DataInv, Apart
<1>2. cached' \subseteq Line /\ dirty' \subseteq cached'
  BY <1>1 DEF DataInv, InLines
<1>3. Unique(cached)'
  <2> SUFFICES ASSUME NEW k \in cached', NEW l \in cached', k % CacheLines = l % CacheLines
               PROVE  k = l
    BY DEF Unique, OwnIndex
  <2>1. CASE k \in incoming
    BY <1>1, <2>1 DEF OwnIndex
  <2>2. CASE l \in incoming
    BY <1>1, <2>2 DEF OwnIndex
  <2>3. CASE k \notin incoming /\ l \notin incoming
    BY <1>1, <2>3 DEF DataInv, Unique, OwnIndex
  <2>. QED
    BY <2>1, <2>2, <2>3
<1>4. newer' \subseteq InLines(dirty)'
  <2> SUFFICES ASSUME NEW b \in newer' PROVE b \in Byte /\ LineOf(b) \in dirty'
    BY DEF InLines, Byte, LineOf
  <2>1. CASE b \in stored
    BY <1>1, <2>1 DEF InLines
  <2>2. CASE b \notin stored
    <3>1. b \in Byte /\ LineOf(b) \in dirty /\ b \notin InLines(victims)
      BY <1>1, <2>2 DEF DataInv, InLines
    <3>. QED
      BY <1>1, <3>1 DEF InLines
  <2>. QED
    BY <2>1, <2>2
<1>. QED
  BY <1>1, <1>2, <1>3, <1>4

\* The program's own accesses.
LEMMA AccessKeeps ==
  ASSUME DataInv, NEW b \in Byte, NEW stored \in SUBSET {b}, Access(b, stored)
  PROVE  DataInv'
<1> DEFINE here == {LineOf(b)}
           victims == cached \cap (SameIndex(here) \ here)
<1>1. /\ b \notin uncached /\ Turnover(victims, here, stored)
      /\ flushed' = flushed \ stored /\ UNCHANGED blocks
  BY DEF Access
<1>2. LineOf(b) \in Line
  BY ByteInLine DEF Byte
<1>3. OwnIndex(here, (cached \ victims) \union here)
  BY <1>2 DEF SameIndex, DataInv, OwnIndex
<1>4. /\ cached' = (cached \ victims) \union here
      /\ cached' \subseteq Line /\ Unique(cached)' /\ dirty' \subseteq cached'
      /\ newer' = (newer \ InLines(victims)) \union stored
      /\ newer' \subseteq InLines(dirty)' /\ older' = {} /\ lost' = {}
  <2>1. victims \in SUBSET cached /\ here \in SUBSET Line /\ stored \in SUBSET Byte
        /\ stored \subseteq InLines(here)
    BY <1>2 DEF InLines
  <2> HIDE DEF victims, here
  <2>. QED
    BY <1>1, <1>3, <2>1, TurnoverKeeps, Zenon
<1>5. Apart'
  <2> SUFFICES ASSUME NEW block \in blocks, NEW c \in block
               PROVE  LineOf(c) \notin cached' /\ InLines({LineOf(c)}) \subseteq block
    BY <1>1, <1>4 DEF Apart, InLines, Byte, LineOf
  <2>1. LineOf(c) \notin cached /\ InLines({LineOf(c)}) \subseteq block
    BY DEF DataInv, Apart
  <2>2. b \notin block
    BY <1>1 DEF uncached
  <2>3. LineOf(b) # LineOf(c)
    BY <2>1, <2>2 DEF InLines
  <2>. QED
    BY <1>4, <2>1, <2>3
<1>6. flushed' \cap newer' = {}
  BY <1>1, <1>4 DEF DataInv
<1>. QED
  BY <1>1, <1>4, <1>5, <1>6 DEF DataInv, Byte

LEMMA UncachedStoreKeeps ==
  ASSUME DataInv, NEW b \in Byte, UncachedStore(b)
  PROVE  DataInv'
<1>1. /\ b \in uncached /\ newer' = newer \ {b}
      /\ older' = older \union ({b} \cap InLines(cached)) /\ flushed' = flushed \ {b}
      /\ UNCHANGED <<cached, dirty, lost, blocks>>
  BY DEF UncachedStore
<1>2. PICK block \in blocks : b \in block
  BY <1>1 DEF uncached
<1>3. LineOf(b) \notin cached
  BY <1>2 DEF DataInv, Apart
<1>4. older' = {}
  BY <1>1, <1>3 DEF DataInv, Apart, InLines
<1>. QED
  BY <1>1, <1>4 DEF DataInv, Apart, InLines, Unique, Byte, LineOf

\* The routines that write back and invalidate: all of a line's bytes are current
\* in memory.
LEMMA FlushKeeps ==
  ASSUME DataInv, NEW lines, Turnover(cached \cap lines, {}, {}), UNCHANGED blocks,
         \A b \in flushed' \cap Byte : LineOf(b) \in lines
  PROVE  DataInv'
<1>1. /\ cached' = (cached \ (cached \cap lines)) \union {}
      /\ cached' \subseteq Line /\ Unique(cached)' /\ dirty' \subseteq cached'
      /\ newer' = (newer \ InLines(cached \cap lines)) \union {}
      /\ newer' \subseteq InLines(dirty)' /\ older' = {} /\ lost' = {}
  <2>1. /\ cached \cap lines \in SUBSET cached /\ {} \in SUBSET Line /\ {} \in SUBSET Byte
        /\ {} \subseteq InLines({})
        /\ OwnIndex({}, (cached \ (cached \cap lines)) \union {})
    BY DEF OwnIndex
  <2>. QED
    BY <2>1, TurnoverKeeps, Zenon
<1>2. Apart'
  BY <1>1 DEF DataInv, Apart, InLines, Byte, LineOf
<1>3. flushed' \cap newer' = {}
  <2> SUFFICES ASSUME NEW b \in flushed', b \in newer' PROVE FALSE
    OBVIOUS
  <2>1. b \in newer /\ b \notin InLines(cached \cap lines)
    BY <1>1
  <2>2. b \in Byte /\ LineOf(b) \in cached
    BY <2>1 DEF DataInv, InLines
  <2>. QED
    BY <2>1, <2>2 DEF InLines
<1>. QED
  BY <1>1, <1>2, <1>3 DEF DataInv, Byte

\* The one that drops what the cache has: of whole lines, nothing else.
LEMMA NoWritebackKeeps ==
  ASSUME DataInv, NEW start \in Byte, NEW len \in Nat, DcacheFlushNoWriteback(start, len)
  PROVE  DataInv'
<1> DEFINE lines == LinesVisited(start, len)
           discarded == InLines(cached \cap lines)
<1>1. /\ start % LineSize = 0 /\ len % LineSize = 0
      /\ cached' = cached \ lines /\ dirty' = dirty \ lines
      /\ newer' = newer \ discarded /\ older' = older \ discarded
      /\ lost' = lost \union ((newer \cap discarded) \ (start .. start + len - 1))
      /\ UNCHANGED <<blocks, flushed>>
  BY DEF DcacheFlushNoWriteback
<1>2. \A b \in discarded : b \in start .. start + len - 1
  <2> SUFFICES ASSUME NEW b \in discarded PROVE b \in start .. start + len - 1
    OBVIOUS
  <2>1. b \in Int /\ LineOf(b) \in lines /\ start \in Nat
    BY DEF InLines, Byte
  <2>. QED
    BY <1>1, <2>1, WholeLines
<1>3. lost' = {} /\ older' = {}
  BY <1>1, <1>2 DEF DataInv, Apart
<1>4. newer' \subseteq InLines(dirty)'
  <2> SUFFICES ASSUME NEW b \in newer' PROVE b \in Byte /\ LineOf(b) \in dirty'
    BY DEF InLines, Byte, LineOf
  <2>1. b \in Byte /\ LineOf(b) \in dirty /\ b \notin discarded
    BY <1>1 DEF DataInv, InLines
  <2>2. LineOf(b) \in cached
    BY <2>1 DEF DataInv
  <2>3. LineOf(b) \notin lines
    BY <2>1, <2>2 DEF InLines
  <2> HIDE DEF lines
  <2>. QED
    BY <1>1, <2>1, <2>3
<1> HIDE DEF lines, discarded
<1>5. Unique(cached)' /\ cached' \subseteq Line /\ dirty' \subseteq cached'
  BY <1>1 DEF DataInv, Unique, OwnIndex
<1>6. Apart'
  BY <1>1, <1>3 DEF DataInv, Apart, InLines, Byte, LineOf
<1>7. flushed' \cap newer' = {}
  BY <1>1 DEF DataInv
<1>. QED
  BY <1>1, <1>3, <1>4, <1>5, <1>6, <1>7 DEF DataInv, Byte

\* A new block is whole lines, and flushed.
LEMMA MallocKeeps ==
  ASSUME DataInv, NEW ptr \in Byte, NEW size \in Nat, UncachedMalloc(ptr, size)
  PROVE  DataInv'
<1> DEFINE lines == LinesVisited(ptr, RoundUp(size))
           block == Block(ptr, size)
<1>1. /\ ptr % LineSize = 0 /\ block \subseteq Byte \ uncached
      /\ blocks' = blocks \union {block}
      /\ Turnover(cached \cap lines, {}, {}) /\ flushed' = block
  BY DEF UncachedMalloc
<1>2. LineSize \in Nat \ {0} /\ ptr \in Nat
  BY DEF Byte
<1>3. RoundUp(size) \in Nat /\ RoundUp(size) % LineSize = 0
  <2> DEFINE n == (size + LineSize - 1) \div LineSize
  <2>1. n \in Nat
    <3>1. size + LineSize - 1 \in Nat
      BY <1>2
    <3>. QED
      BY <1>2, <3>1, Division
  <2>2. RoundUp(size) = LineSize * n
    BY DEF RoundUp
  <2> HIDE DEF n
  <2>3. LineSize * n = n * LineSize + 0 /\ LineSize * n \in Nat /\ 0 \in 0 .. LineSize - 1
    BY <1>2, <2>1
  <2>4. (n * LineSize + 0) % LineSize = 0
    BY <1>2, <2>1, <2>3, DivisionUnique
  <2>. QED
    BY <2>2, <2>3, <2>4
<1>4. \A b \in block : LineOf(b) \in lines
  BY <1>2, <1>3, NoLineMissed DEF Block
<1>5. \A b \in Byte : LineOf(b) \in lines => b \in block
  <2> SUFFICES ASSUME NEW b \in Byte, LineOf(b) \in lines PROVE b \in block
    OBVIOUS
  <2>1. b \in Int
    BY DEF Byte
  <2>. QED
    BY <1>1, <1>2, <1>3, <2>1, WholeLines DEF Block
<1> HIDE DEF lines, block
<1>6. /\ cached' = (cached \ (cached \cap lines)) \union {}
      /\ cached' \subseteq Line /\ Unique(cached)' /\ dirty' \subseteq cached'
      /\ newer' = (newer \ InLines(cached \cap lines)) \union {}
      /\ newer' \subseteq InLines(dirty)' /\ older' = {} /\ lost' = {}
  <2>1. /\ cached \cap lines \in SUBSET cached /\ {} \in SUBSET Line /\ {} \in SUBSET Byte
        /\ {} \subseteq InLines({})
        /\ OwnIndex({}, (cached \ (cached \cap lines)) \union {})
    BY DEF OwnIndex
  <2>. QED
    BY <1>1, <2>1, TurnoverKeeps, Zenon
<1>7. Apart'
  <2> SUFFICES ASSUME NEW other \in blocks', NEW b \in other
               PROVE  LineOf(b) \notin cached' /\ InLines({LineOf(b)}) \subseteq other
    BY <1>6 DEF Apart, InLines, Byte, LineOf
  <2>1. CASE other \in blocks
    BY <1>6, <2>1 DEF DataInv, Apart
  <2>2. CASE other = block
    <3>1. LineOf(b) \in lines
      BY <1>4, <2>2
    <3>2. InLines({LineOf(b)}) \subseteq block
      BY <1>5, <3>1 DEF InLines
    <3>. QED
      BY <1>6, <2>2, <3>1, <3>2
  <2>. QED
    BY <1>1, <2>1, <2>2
<1>8. flushed' \cap newer' = {}
  <2> SUFFICES ASSUME NEW b \in flushed', b \in newer' PROVE FALSE
    OBVIOUS
  <2>1. b \in newer /\ b \notin InLines(cached \cap lines) /\ LineOf(b) \in lines
    BY <1>1, <1>4, <1>6
  <2>2. b \in Byte /\ LineOf(b) \in cached
    BY <2>1 DEF DataInv, InLines
  <2>. QED
    BY <2>1, <2>2 DEF InLines
<1>9. \A other \in blocks' : other \subseteq Byte
  BY <1>1 DEF DataInv
<1>. QED
  BY <1>6, <1>7, <1>8, <1>9 DEF DataInv, Byte

LEMMA DataStep ==
  ASSUME DataInv, [DataNext]_dataVars
  PROVE  DataInv'
<1>1. CASE UNCHANGED dataVars
  BY <1>1 DEF dataVars, DataInv, Apart, InLines, Unique, OwnIndex, Byte, LineOf, Line
<1>2. ASSUME NEW b \in Byte, Load(b) \/ Store(b) \/ UncachedStore(b) PROVE DataInv'
  <2>1. {} \in SUBSET {b} /\ {b} \in SUBSET {b}
    OBVIOUS
  <2>. QED
    BY <1>2, <2>1, AccessKeeps, UncachedStoreKeeps DEF Load, Store
<1>3. ASSUME NEW b \in Byte, NEW len \in 0 .. MemLines * LineSize - b,
             \/ DcacheFlush(b, len) \/ DcacheFlushNoWriteback(b, len)
             \/ UncachedMalloc(b, len)
      PROVE  DataInv'
  <2>1. b \in Nat /\ len \in Nat
    BY DEF Byte
  <2>2. CASE DcacheFlush(b, len)
    <3>1. /\ Turnover(cached \cap LinesVisited(b, len), {}, {}) /\ UNCHANGED blocks
          /\ flushed' = b .. b + len - 1
      BY <2>2 DEF DcacheFlush
    <3>2. \A c \in flushed' \cap Byte : LineOf(c) \in LinesVisited(b, len)
      BY <2>1, <3>1, NoLineMissed
    <3>. QED
      BY <3>1, <3>2, FlushKeeps
  <2>. QED
    BY <1>3, <2>1, <2>2, NoWritebackKeeps, MallocKeeps
<1>4. CASE DcacheFlushAll
  <2>1. Turnover(cached, {}, {}) /\ UNCHANGED blocks /\ flushed' = Byte
    BY <1>4 DEF DcacheFlushAll
  <2>2. cached \cap Line = cached
    BY DEF DataInv
  <2>3. \A b \in flushed' \cap Byte : LineOf(b) \in Line
    <3>1. Byte \subseteq Int
      BY DEF Byte
    <3>. QED
      BY <2>1, <3>1, ByteInLine
  <2>. QED
    BY <2>1, <2>2, <2>3, FlushKeeps
<1>5. CASE UncachedFree
  <2>1. blocks' \subseteq blocks /\ UNCHANGED <<cached, dirty, newer, older, lost, flushed>>
    BY <1>5 DEF UncachedFree
  <2>. QED
    BY <2>1 DEF DataInv, Apart, InLines, Unique, OwnIndex, Byte, LineOf, Line
<1>. QED
  BY <1>1, <1>2, <1>3, <1>4, <1>5 DEF DataNext

LEMMA CodeStep ==
  ASSUME CodeInv, [CodeNext]_codeVars
  PROVE  CodeInv'
<1>1. CASE UNCHANGED codeVars
  BY <1>1 DEF codeVars, CodeInv, Unique, OwnIndex, Line
<1>2. ASSUME NEW l \in Line, FetchCode(l) PROVE CodeInv'
  BY <1>2 DEF FetchCode, SameIndex, CodeInv, Unique, OwnIndex, Line
<1>3. ASSUME NEW l \in Line, ChangeCode(l) PROVE CodeInv'
  BY <1>3 DEF ChangeCode, CodeInv, Unique, OwnIndex, Line
<1>4. ASSUME NEW b \in Byte, NEW len \in 0 .. MemLines * LineSize - b, IcacheFlush(b, len)
      PROVE  CodeInv'
  <2> DEFINE size == CacheLines * LineSize
             capped == Min({len, size})
             left_out == SameIndex(LinesVisited(b, capped))
  <2>1. /\ icached' = icached \ left_out /\ outdated' = outdated \ left_out
        /\ renewed' = {LineOf(c) : c \in b .. b + len - 1}
    BY <1>4 DEF IcacheFlush
  <2>2. b \in Nat /\ len \in Nat /\ size \in Nat
    BY DEF Byte
  <2>3. capped = IF len <= size THEN len ELSE size
    BY <2>2 DEF Min
  <2>4. \A c \in b .. b + len - 1 : LineOf(c) \in Line => LineOf(c) \in left_out
    <3> SUFFICES ASSUME NEW c \in b .. b + len - 1, LineOf(c) \in Line
                 PROVE  LineOf(c) \in left_out
      OBVIOUS
    <3>1. \E v \in LinesVisited(b, capped) : v % CacheLines = LineOf(c) % CacheLines
      <4>1. CASE len <= size
        BY <2>2, <2>3, <4>1, NoLineMissed
      <4>2. CASE ~(len <= size)
        <5>1. LineOf(c) \in Int
          BY DEF Line
        <5>. QED
          BY <2>2, <2>3, <4>2, <5>1, EveryIndex
      <4>. QED
        BY <4>1, <4>2
    <3>. QED
      BY <3>1 DEF SameIndex
  <2> HIDE DEF left_out
  <2>5. renewed' \cap outdated' = {}
    BY <2>1, <2>4 DEF CodeInv
  <2>. QED
    BY <2>1, <2>5 DEF CodeInv, Unique, OwnIndex, Line
<1>5. CASE IcacheFlushAll
  BY <1>5 DEF IcacheFlushAll, CodeInv, Unique, OwnIndex
<1>. QED
  BY <1>1, <1>2, <1>3, <1>4, <1>5 DEF CodeNext

\* No byte's last value is lost although the same bytes are accessed now through the
\* cache and now around it; what was flushed is in memory; and the processor does not
\* run the old code of what was flushed from the instruction cache.
THEOREM CachesInvariance == Spec => []CachesInv
<1>1. Init => DataInv /\ CodeInv
  BY CachesStart DEF Init
<1>2. DataInv /\ CodeInv /\ [Next]_libraryVars => DataInv' /\ CodeInv'
  BY PartSteps, DataStep, CodeStep
<1>. QED
  BY <1>1, <1>2, DataAndCode, PTL DEF Spec

-----------------------------------------------------------------------------
(* SystemMap *)

\* The table of the router, row by row: each window begins at a multiple of its
\* size, and no two have an address in common.
LEMMA RouterIs ==
  /\ DOMAIN router = {"memory", "debug", "seven_segment", "timer", "key", "sw", "adc",
                      "sysid", "jtag_uart", "servo", "telemeter"}
  /\ \A s \in DOMAIN router :
       /\ router[s].from \in Nat /\ router[s].size \in Nat \ {0}
       /\ router[s].from % router[s].size = 0
       /\ router[s].from + router[s].size <= 2 ^ 20
  /\ 2 ^ 20 \in Nat \ {0}
  BY SMTT(60) DEF router, Window

LEMMA WindowsApart ==
  \A s, t \in DOMAIN router : \A x \in Int :
    /\ router[s].from <= x /\ x < router[s].from + router[s].size
    /\ router[t].from <= x /\ x < router[t].from + router[t].size
    => s = t
<1>1. \A s \in DOMAIN router, x \in Int :
        /\ router[s].from <= x /\ x < router[s].from + router[s].size =>
          /\ s = "memory" <=> x < 524288
          /\ s = "debug" <=> 524288 <= x /\ x < 528384
          /\ s = "seven_segment" <=> 528384 <= x /\ x < 528448
          /\ s = "timer" <=> 528448 <= x /\ x < 528480
          /\ s = "key" <=> 528480 <= x /\ x < 528496
          /\ s = "sw" <=> 528496 <= x /\ x < 528512
          /\ s = "adc" <=> 528512 <= x /\ x < 528520
          /\ s = "sysid" <=> 528520 <= x /\ x < 528528
          /\ s = "jtag_uart" <=> 528528 <= x /\ x < 528536
          /\ s = "servo" <=> 528536 <= x /\ x < 528540
  BY SMTT(100) DEF router, Window
<1>. QED
  BY <1>1, RouterIs, SMTT(60)

\* The comparison of the upper bits says whether an address is in a window.
LEMMA TakesInWindow ==
  ASSUME NEW s \in DOMAIN router, NEW x \in Nat, NEW kind
  PROVE  Takes(s, x, kind) <=> /\ router[s].from <= x /\ x < router[s].from + router[s].size
                               /\ kind \in router[s].kinds
<1> DEFINE f == router[s].from
           n == router[s].size
           q == x \div n
           r == x % n
           m == f \div n
<1>1. f \in Nat /\ n \in Nat \ {0} /\ f % n = 0
  BY RouterIs, SMT
<1> HIDE DEF f, n
<1>2. m \in Nat /\ f = m * n
  <2>1. m \in Nat /\ f = m * n + (f % n)
    BY <1>1, Division, SMT
  <2> HIDE DEF m
  <2>. QED
    BY <1>1, <2>1, SMT
<1> HIDE DEF m
<1>3. q \in Nat /\ r \in 0 .. n - 1 /\ x = q * n + r
  <2>1. x \in Nat /\ n \in Nat \ {0}
    BY <1>1
  <2>. QED
    BY <2>1, Division, Zenon
<1> HIDE DEF q, r
<1>4. x - r = f <=> f <= x /\ x < f + n
  <2>1. ASSUME q < m PROVE x < f
    <3>1. (q + 1) * n <= m * n /\ (q + 1) * n = q * n + n
      BY <1>1, <1>2, <1>3, <2>1, ProductGrows, SMT
    <3>. QED
      BY <1>1, <1>2, <1>3, <3>1, SMT
  <2>2. ASSUME m < q PROVE f + n <= x
    <3>1. (m + 1) * n <= q * n /\ (m + 1) * n = m * n + n
      BY <1>1, <1>2, <1>3, <2>2, ProductGrows, SMT
    <3>. QED
      BY <1>1, <1>2, <1>3, <3>1, SMT
  <2>3. ASSUME m = q PROVE x - r = f /\ f <= x /\ x < f + n
    <3>1. f = q * n /\ q * n \in Nat
      BY <1>1, <1>2, <1>3, <2>3, SMT
    <3>. QED
      BY <1>1, <1>3, <3>1, SMT
  <2>4. x - r = f => m = q
    <3>1. ASSUME x - r = f PROVE ~(q < m) /\ ~(m < q)
      BY <1>1, <1>3, <2>1, <2>2, <3>1, SMT
    <3>. QED
      BY <1>2, <1>3, <3>1, SMT
  <2>. QED
    BY <1>1, <1>2, <1>3, <2>1, <2>2, <2>3, <2>4, SMT
<1>5. Takes(s, x, kind) <=> x - r = f /\ kind \in router[s].kinds
  BY Zenon DEF Takes, r, f, n
<1>. QED
  BY <1>4, <1>5 DEF f, n

\* So one slave at most takes an access.
LEMMA RoutedTo ==
  ASSUME NEW s \in DOMAIN router, NEW x \in Nat, NEW kind,
         router[s].from <= x, x < router[s].from + router[s].size,
         kind \in router[s].kinds
  PROVE  Routed(x, kind) = s
<1>1. x % 2 ^ 20 = x
  <2> DEFINE n == 2 ^ 20
  <2>1. n \in Nat \ {0} /\ x < n
    BY RouterIs, SMT
  <2> HIDE DEF n
  <2>2. x % n = x
    BY <2>1, SMT
  <2>. QED
    BY <2>2 DEF n
<1>2. Takes(s, x, kind)
  BY TakesInWindow
<1>3. \A t \in DOMAIN router : Takes(t, x, kind) => t = s
  <2> SUFFICES ASSUME NEW t \in DOMAIN router, Takes(t, x, kind) PROVE t = s
    OBVIOUS
  <2>1. router[t].from <= x /\ x < router[t].from + router[t].size
    BY TakesInWindow
  <2>2. x \in Int
    OBVIOUS
  <2>. QED
    BY <2>1, <2>2, WindowsApart
<1>. QED
  BY <1>1, <1>2, <1>3 DEF Routed

\* A register of a device whose address lines tell all its words apart.
LEMMA RegisterReached ==
  ASSUME NEW s \in DOMAIN router, NEW w \in Nat \ {0}, router[s].words = w,
         router[s].size = 4 * w, NEW i \in 0 .. w - 1,
         NEW kind \in router[s].kinds
  PROVE  Reached(router[s].from + 4 * i, kind) = [slave |-> s, register |-> i]
<1> DEFINE f == router[s].from
           m == f \div (4 * w)
           x == f + 4 * i
<1>1. f \in Nat /\ f % (4 * w) = 0 /\ 4 * w \in Nat \ {0} /\ 4 * i < 4 * w /\ 4 * i \in Nat
  BY RouterIs, SMT
<1>2. Routed(x, kind) = s
  <2>1. x \in Nat /\ f <= x /\ x < f + router[s].size
    BY <1>1, SMT
  <2>. QED
    BY <2>1, RoutedTo
<1>3. m \in Nat /\ f = m * (4 * w)
  <2> HIDE DEF f
  <2>1. m \in Nat /\ f = m * (4 * w) + (f % (4 * w))
    BY <1>1, Division
  <2> HIDE DEF m
  <2>. QED
    BY <1>1, <2>1
<1> HIDE DEF f, m
<1>4. (x \div 4) % w = i
  <2> DEFINE p == m * w
  <2>1. p \in Nat /\ f = p * 4 /\ x = (p + i) * 4 + 0
    <3>1. m * (4 * w) = (m * w) * 4 /\ m * w \in Nat
      BY <1>3
    <3> HIDE DEF p
    <3>2. p \in Nat /\ f = p * 4
      BY <1>3, <3>1, Zenon DEF p
    <3>. QED
      BY <3>2
  <2>2. ((p + i) * 4 + 0) \div 4 = p + i
    <3> HIDE DEF p
    <3>1. p + i \in Int /\ 4 \in Nat \ {0} /\ 0 \in 0 .. 4 - 1
      BY <2>1
    <3>. QED
      BY <3>1, DivisionUnique, Zenon
  <2>3. x \div 4 = p + i
    BY <2>1, <2>2, Zenon
  <2>4. (m * w + i) % w = i
    <3>1. m \in Int
      BY <1>3
    <3>. QED
      BY <3>1, DivisionUnique
  <2>. QED
    BY <2>3, <2>4, Zenon
<1>. QED
  BY <1>2, <1>4 DEF Reached, f

\* What no slave takes goes to the memory.
LEMMA StraysToMemory ==
  ASSUME NEW x \in Nat, NEW kind, x < 2 ^ 20,
         \A s \in DOMAIN router :
           router[s].from <= x /\ x < router[s].from + router[s].size
             => kind \notin router[s].kinds
  PROVE  Reached(x, kind).slave = "memory"
<1>1. x % 2 ^ 20 = x
  <2> DEFINE n == 2 ^ 20
  <2>1. n \in Nat \ {0} /\ x < n
    BY RouterIs, SMT
  <2> HIDE DEF n
  <2>2. x % n = x
    BY <2>1, SMT
  <2>. QED
    BY <2>2 DEF n
<1>2. \A s \in DOMAIN router : ~Takes(s, x, kind)
  BY TakesInWindow
<1>. QED
  BY <1>1, <1>2 DEF Reached, Routed

LEMMA StraysReachMemory ==
  /\ Reached(0, "write").slave = "memory"
  /\ Reached(AVALON_TELEMETRE_US_0.base, "write").slave = "memory"
  /\ Reached(AVALON_SERVOMOTEUR_0.base, "read").slave = "memory"
<1> DEFINE Here(s, x) == router[s].from <= x /\ x < router[s].from + router[s].size
<1>1. \A s \in DOMAIN router : ~Here(s, 0)
  BY SMTT(60) DEF router, Window
<1>2. "write" \notin router["telemeter"].kinds /\ "read" \notin router["servo"].kinds
  BY SMT DEF router, Window
<1>3. LET x == AVALON_TELEMETRE_US_0.base
      IN x \in Nat /\ x < 2 ^ 20 /\ Here("telemeter", x)
  BY SMT DEF router, Window, AVALON_TELEMETRE_US_0, BusDevice
<1>4. LET x == AVALON_SERVOMOTEUR_0.base
      IN x \in Nat /\ x < 2 ^ 20 /\ Here("servo", x)
  BY SMT DEF router, Window, AVALON_SERVOMOTEUR_0, BusDevice
<1>5. {"telemeter", "servo"} \subseteq DOMAIN router
  BY RouterIs, SMT
<1>6. ASSUME NEW x \in Nat, NEW s \in DOMAIN router, Here(s, x)
      PROVE  \A t \in DOMAIN router : Here(t, x) => t = s
  BY <1>6, WindowsApart, SMT
<1>7. 0 < 2 ^ 20
  BY SMT
<1> HIDE DEF Here
<1>8. Reached(0, "write").slave = "memory"
  BY <1>1, <1>7, StraysToMemory, SMT DEF Here
<1>9. Reached(AVALON_TELEMETRE_US_0.base, "write").slave = "memory"
  <2> DEFINE x == AVALON_TELEMETRE_US_0.base
  <2>1. x \in Nat /\ x < 2 ^ 20
    BY <1>3
  <2>2. \A t \in DOMAIN router : Here(t, x) => t = "telemeter"
    BY <1>3, <1>5, <1>6
  <2> HIDE DEF x
  <2>3. Reached(x, "write").slave = "memory"
    BY <1>2, <2>1, <2>2, StraysToMemory, SMT DEF Here
  <2>. QED
    BY <2>3 DEF x
<1>10. Reached(AVALON_SERVOMOTEUR_0.base, "read").slave = "memory"
  <2> DEFINE x == AVALON_SERVOMOTEUR_0.base
  <2>1. x \in Nat /\ x < 2 ^ 20
    BY <1>4
  <2>2. \A t \in DOMAIN router : Here(t, x) => t = "servo"
    BY <1>4, <1>5, <1>6
  <2> HIDE DEF x
  <2>3. Reached(x, "read").slave = "memory"
    BY <1>2, <2>1, <2>2, StraysToMemory, SMT DEF Here
  <2>. QED
    BY <2>3 DEF x
<1>. QED
  BY <1>8, <1>9, <1>10

\* The program and its drivers mean the registers of system.h: the bases of the two
\* sides are the same, and each device has the address lines for its registers.
LEMMA DevicesMatch ==
  \A d \in DOMAIN system_h :
    /\ d \in DOMAIN router
    /\ system_h[d].base = router[d].from
    /\ system_h[d].span <= router[d].size
    /\ system_h[d].span <= 4 * router[d].words
    /\ system_h[d].irq # -1 => sender_irq[d] = system_h[d].irq
  BY SMTT(100) DEF system_h, router, Window, BusDevice, sender_irq, KEY, ADC_LTC2308,
     AVALON_SERVOMOTEUR_0, AVALON_SEVEN_SEGMENT_0, AVALON_TELEMETRE_US_0, INTERVAL_TIMER,
     JTAG_UART, ONCHIP_MEMORY2, SW, SYSID_QSYS

LEMMA DeviceRegisters ==
  \A d \in {"seven_segment", "timer", "jtag_uart", "servo", "telemeter"} :
    /\ d \in DOMAIN router /\ d \in DOMAIN system_h
    /\ router[d].size = 4 * router[d].words
  BY SMTT(60) DEF router, Window, system_h

LEMMA AccessesReach ==
  ASSUME NEW a \in BusAccesses
  PROVE  /\ a.device \in DOMAIN system_h
         /\ Reached(a.address, a.kind) = [slave |-> a.device, register |-> a.register]
<1>1. ASSUME NEW d \in {"seven_segment", "timer", "jtag_uart", "servo", "telemeter"},
             NEW w \in Nat \ {0}, router[d].words = w, NEW i \in 0 .. w - 1,
             NEW kind \in router[d].kinds,
             a = BusRegister(d, i, kind)
      PROVE  /\ a.device \in DOMAIN system_h
             /\ Reached(a.address, a.kind) = [slave |-> a.device, register |-> a.register]
  <2>1. a.address = router[d].from + 4 * i /\ a.device = d /\ a.register = i /\ a.kind = kind
    BY <1>1, DevicesMatch, DeviceRegisters
       DEF BusRegister, BusAccess, IO_CALC_ADDRESS_NATIVE
  <2>2. Reached(router[d].from + 4 * i, kind) = [slave |-> d, register |-> i]
    BY <1>1, DeviceRegisters, RegisterReached
  <2>. QED
    BY <2>1, <2>2, DeviceRegisters
<1>2. /\ router["seven_segment"].words = 16 /\ "write" \in router["seven_segment"].kinds
      /\ router["timer"].words = 8 /\ Both = router["timer"].kinds
      /\ router["jtag_uart"].words = 2 /\ Both = router["jtag_uart"].kinds
      /\ router["servo"].words = 1 /\ "write" \in router["servo"].kinds
      /\ router["telemeter"].words = 1 /\ "read" \in router["telemeter"].kinds
  BY SMT DEF router, Window, Both
<1>3. CASE \E i \in 0 .. 5 : a = DigitWrite(i)
  <2>1. PICK i \in 0 .. 5 : a = DigitWrite(i)
    BY <1>3
  <2>2. system_h["seven_segment"] = AVALON_SEVEN_SEGMENT_0
    BY SMT DEF system_h
  <2>3. AVALON_SEVEN_SEGMENT_0.base \in Nat
    BY SMT DEF AVALON_SEVEN_SEGMENT_0, BusDevice
  <2>4. AVALON_SEVEN_SEGMENT_0.base + i * 4 + 4 * 0 = AVALON_SEVEN_SEGMENT_0.base + 4 * i
    BY <2>3
  <2>5. a = BusRegister("seven_segment", i, "write")
    BY <2>1, <2>2, <2>4 DEF DigitWrite, BusRegister, BusAccess, IO_CALC_ADDRESS_NATIVE
  <2>. QED
    BY <1>1, <1>2, <2>5
<1>4. CASE a \in TimerAccesses
  <2>1. PICK r \in 0 .. 7, k \in Both : a = BusRegister("timer", r, k)
    BY <1>4 DEF TimerAccesses, Both
  <2>2. 8 \in Nat \ {0} /\ r \in 0 .. 8 - 1
    OBVIOUS
  <2>. QED
    BY <1>1, <1>2, <2>1, <2>2, Zenon
<1>5. CASE a \in JtagAccesses
  <2>1. PICK r \in 0 .. 1, k \in Both : a = BusRegister("jtag_uart", r, k)
    BY <1>5 DEF JtagAccesses, Both
  <2>2. 2 \in Nat \ {0} /\ r \in 0 .. 2 - 1
    OBVIOUS
  <2>. QED
    BY <1>1, <1>2, <2>1, <2>2, Zenon
<1>6. CASE a = BusRegister("servo", 0, "write")
  BY <1>1, <1>2, <1>6
<1>7. CASE a = BusRegister("telemeter", 0, "read")
  BY <1>1, <1>2, <1>7
<1>. QED
  BY <1>3, <1>4, <1>5, <1>6, <1>7 DEF BusAccesses

\* The regions of the linker script and the heap end inside the memory.
LEMMA MemoryWord ==
  ASSUME NEW a \in Nat, \h40000 <= a, a < \h80000, (a \div 4) % 65536 < MemoryWords
  PROVE  Reached(a, "write").slave = "memory" /\ Reached(a, "write").register < MemoryWords
<1>1. /\ "memory" \in DOMAIN router /\ "write" \in router["memory"].kinds
      /\ router["memory"].words = 65536
      /\ router["memory"].from = \h40000
      /\ router["memory"].from + router["memory"].size = \h80000
  BY SMT DEF router, Window, Both
<1>2. Routed(a, "write") = "memory"
  <2>1. /\ router["memory"].from <= a
        /\ a < router["memory"].from + router["memory"].size
    BY <1>1, SMT
  <2>. QED
    BY <1>1, <2>1, RoutedTo, SMT
<1>. QED
  BY <1>1, <1>2, SMT DEF Reached

LEMMA MemoryHolds ==
  \A a \in {\h40000, \h40020, \h40020 + 159967, alt_heap_limit - 1} :
    /\ a \in RESET_REGION \union ONCHIP_MEMORY2_REGION
    /\ Reached(a, "write").slave = "memory"
    /\ Reached(a, "write").register < MemoryWords
<1> DEFINE Holds(a) == /\ a \in RESET_REGION \union ONCHIP_MEMORY2_REGION
                       /\ Reached(a, "write").slave = "memory"
                       /\ Reached(a, "write").register < MemoryWords
           InMemory(a) == /\ a \in Nat /\ \h40000 <= a /\ a < \h80000
                          /\ (a \div 4) % 65536 < MemoryWords
<1>1. /\ \h40000 \in RESET_REGION
      /\ \h40020 \in ONCHIP_MEMORY2_REGION
      /\ \h40020 + 159967 \in ONCHIP_MEMORY2_REGION
      /\ alt_heap_limit - 1 \in ONCHIP_MEMORY2_REGION
  BY SMT DEF RESET_REGION, ONCHIP_MEMORY2_REGION, alt_heap_limit
<1>2. /\ InMemory(\h40000) /\ InMemory(\h40020)
      /\ InMemory(\h40020 + 159967) /\ InMemory(alt_heap_limit - 1)
  BY SMT DEF alt_heap_limit, MemoryWords
<1>3. \A a : InMemory(a) => /\ Reached(a, "write").slave = "memory"
                           /\ Reached(a, "write").register < MemoryWords
  BY MemoryWord, SMT
<1> HIDE DEF InMemory
<1>4. /\ Holds(\h40000) /\ Holds(\h40020)
      /\ Holds(\h40020 + 159967) /\ Holds(alt_heap_limit - 1)
  BY <1>1, <1>2, <1>3, SMT
<1> HIDE DEF Holds
<1>5. \A a \in {\h40000, \h40020, \h40020 + 159967, alt_heap_limit - 1} : Holds(a)
  BY <1>4, SMT
<1>. QED
  BY <1>5, SMTT(30) DEF Holds

LEMMA RateMatches == ALTERA_AVALON_TIMER_FREQ(ClockRate, 1, "ms") * TimerPeriod = ClockRate
<1>1. ALTERA_AVALON_TIMER_FREQ(ClockRate, 1, "ms") = 1000
  <2> HIDE DEF ClockRate
  <2>. QED
    BY SMT DEF ALTERA_AVALON_TIMER_FREQ
<1>2. 1000 * TimerPeriod = ClockRate
  BY SMT DEF ClockRate, TimerPeriod
<1>. QED
  BY <1>1, <1>2, SMT

LEMMA MapStarts == MapInit => MapInv
  BY SMT DEF MapInit, MapInv

LEMMA MapStep == MapInv /\ [MapNext]_mapVars => MapInv'
<1> SUFFICES ASSUME MapInv, [MapNext]_mapVars PROVE MapInv'
  OBVIOUS
<1>1. CASE UNCHANGED mapVars
  BY <1>1, SMT DEF mapVars, MapInv
<1> DEFINE Right == IF access'.device = NoDevice THEN reached'.slave = "memory"
                    ELSE reached' = [slave |-> access'.device, register |-> access'.register]
<1>2. Right => MapInv'
  BY DevicesMatch, MemoryHolds, RateMatches, SMT DEF MapInv
<1>3. CASE Performs
  <2>1. PICK a \in BusAccesses : access' = a /\ reached' = Reached(a.address, a.kind)
    BY <1>3, SMT DEF Performs
  <2>2. a.device # NoDevice
    <3>1. a.device \in DOMAIN system_h
      BY <2>1, AccessesReach, Zenon
    <3>. QED
      BY <3>1, MapAssumption DEF MapAssumption
  <2>. QED
    BY <1>2, <2>1, <2>2, AccessesReach, SMT
<1>4. CASE Strays
  <2>1. access'.device = NoDevice /\ reached'.slave = "memory"
    BY <1>4, StraysReachMemory, SMT DEF Strays, BusAccess
  <2>. QED
    BY <1>2, <2>1, SMT
<1>. QED
  BY <1>1, <1>3, <1>4, SMT DEF MapNext

\* Memory and registers are as the program sees them: through the caches it finds
\* what was stored, and an address of system.h is the device that it names although
\* the hardware is of another build.
THEOREM MemoryInvariance == Spec => []MemoryInv
<1>1. Init => MapInv
  BY MapStarts, Zenon DEF Init
<1>2. MapInv /\ [Next]_libraryVars => MapInv'
  BY PartSteps, MapStep
<1>3. Spec => []MapInv
  BY <1>1, <1>2, PTL DEF Spec
<1>4. CachesInv /\ MapInv => MemoryInv
  BY DEF MemoryInv
<1>. QED
  BY <1>3, <1>4, CachesInvariance, PTL

-----------------------------------------------------------------------------
(* DeviceNames *)

USE NamesAssumption

\* A set of natural numbers has a least one.
LEMMA Smallest ==
  ASSUME NEW T \in SUBSET Nat, T # {}
  PROVE  Min(T) \in T /\ \A y \in T : Min(T) <= y
<1>1. \E x \in T : \A y \in T : ~(<<y, x>> \in OpToRel(<, Nat))
  BY NatLessThanWellFounded, WFMin, Zenon
<1>2. \A x, y \in Nat : y < x => <<y, x>> \in OpToRel(<, Nat)
  BY DEF OpToRel
<1>3. PICK x \in T : \A y \in T : ~(y < x)
  BY <1>1, <1>2
<1>4. \A y \in T : x \in Int /\ y \in Int
  OBVIOUS
<1>5. x \in T /\ \A y \in T : x <= y
  BY <1>3, <1>4
<1>. QED
  BY <1>5, Zenon DEF Min

\* No character of a name or of a path is the end of one.
LEMMA NoEnd ==
  ASSUME NEW s \in Names \union Paths
  PROVE  s \in Seq(Letters \union {"/"}) /\ \A i \in 1 .. Len(s) : s[i] # End
<1>1. s \in Seq(Letters \union {"/"})
  BY DEF NamesAssumption
<1>2. End \notin Letters \union {"/"}
  BY DEF NamesAssumption, End
<1>. QED
  BY <1>1, <1>2

\* A device has the name that is compared with all of the path's and the end.
LEMMA SameName ==
  ASSUME NEW name \in Names, NEW p \in Paths, NEW junk
  PROVE  SameBytes(name, p, Len(p) + 1, junk) <=> name = p
<1>1. name \in Seq(Letters \union {"/"}) /\ p \in Seq(Letters \union {"/"})
  BY NoEnd
<1>2. ASSUME SameBytes(name, p, Len(p) + 1, junk) PROVE name = p
  <2>0. /\ Len(name) \in Nat /\ Len(p) \in Nat
    BY <1>1
  <2>1. \A i \in 0 .. Len(p) : ByteAt(name, i, junk) = ByteAt(p, i, junk)
    BY <1>2, <2>0 DEF SameBytes
  <2>2. ~(Len(name) < Len(p))
    <3> SUFFICES ASSUME Len(name) < Len(p) PROVE FALSE
      OBVIOUS
    <3>1. ByteAt(name, Len(name), junk) = End /\ ByteAt(p, Len(name), junk) = p[Len(name) + 1]
      BY <2>0 DEF ByteAt
    <3>2. Len(name) \in 0 .. Len(p) /\ Len(name) + 1 \in 1 .. Len(p)
      BY <2>0
    <3>. QED
      BY <2>1, <3>1, <3>2, NoEnd
  <2>3. ~(Len(p) < Len(name))
    <3> SUFFICES ASSUME Len(p) < Len(name) PROVE FALSE
      OBVIOUS
    <3>1. ByteAt(p, Len(p), junk) = End /\ ByteAt(name, Len(p), junk) = name[Len(p) + 1]
      BY <2>0 DEF ByteAt
    <3>2. Len(p) \in 0 .. Len(p) /\ Len(p) + 1 \in 1 .. Len(name)
      BY <2>0
    <3>. QED
      BY <2>1, <3>1, <3>2, NoEnd
  <2>4. Len(name) = Len(p)
    BY <2>0, <2>2, <2>3
  <2>5. ASSUME NEW k \in 1 .. Len(p) PROVE name[k] = p[k]
    <3>1. k - 1 \in 0 .. Len(p) /\ k - 1 < Len(p) /\ (k - 1) + 1 = k
      BY <2>0
    <3>. QED
      BY <2>1, <2>4, <3>1 DEF ByteAt
  <2>. QED
    BY <1>1, <2>4, <2>5
<1>. QED
  BY <1>2 DEF SameBytes

\* A mount point is the part of the name that alt_find_file compares.
LEMMA MountIs ==
  ASSUME NEW name \in Names
  PROVE  /\ MountLength(name) \in 0 .. Len(name)
         /\ Mount(name) \in Seq(Letters \union {"/"})
         /\ Len(Mount(name)) = MountLength(name)
         /\ \A i \in 1 .. MountLength(name) : Mount(name)[i] = name[i]
<1>1. name \in Seq(Letters \union {"/"}) /\ name # <<>>
  BY DEF NamesAssumption
<1>2. Len(name) \in Nat /\ Len(name) # 0
  BY <1>1
<1>3. CASE Last(name) = "/"
  <2>1. /\ SubSeq(name, 1, Len(name) - 1) \in Seq(Letters \union {"/"})
        /\ Len(SubSeq(name, 1, Len(name) - 1)) = Len(name) - 1
        /\ \A i \in 1 .. Len(name) - 1 : SubSeq(name, 1, Len(name) - 1)[i] = name[i]
    <3> DEFINE S == Letters \union {"/"}
               l == Len(name) - 1
    <3>1. l \in Nat /\ 1 \in Int /\ \A i \in 1 .. l : name[i] \in S
      BY <1>1, <1>2
    <3> HIDE DEF S, l
    <3>2. /\ SubSeq(name, 1, l) \in Seq(S)
          /\ Len(SubSeq(name, 1, l)) = IF 1 <= l THEN l - 1 + 1 ELSE 0
          /\ \A i \in 1 .. l - 1 + 1 : SubSeq(name, 1, l)[i] = name[1 + i - 1]
      BY <3>1, SubSeqProperties
    <3>3. /\ SubSeq(name, 1, l) \in Seq(S) /\ Len(SubSeq(name, 1, l)) = l
          /\ \A i \in 1 .. l : SubSeq(name, 1, l)[i] = name[i]
      BY <3>1, <3>2
    <3>. QED
      BY <3>3 DEF S, l
  <2>2. MountLength(name) = Len(name) - 1 /\ Mount(name) = SubSeq(name, 1, Len(name) - 1)
    BY <1>3, Zenon DEF Mount, MountLength, Front
  <2>3. Len(name) - 1 \in 0 .. Len(name)
    BY <1>2
  <2>. QED
    BY <2>1, <2>2, <2>3, Zenon
<1>4. CASE Last(name) # "/"
  BY <1>1, <1>2, <1>4 DEF Mount, MountLength
<1>. QED
  BY <1>3, <1>4

\* What alt_find_file accepts is what lies below the mount point.
Accepts(name, p, junk) ==
  /\ ByteAt(p, MountLength(name), junk) \in {"/", End}
  /\ SameBytes(name, p, MountLength(name), junk)

LEMMA AcceptsBelow ==
  ASSUME NEW name \in Names, NEW p \in Paths, NEW junk
  PROVE  Accepts(name, p, junk) <=> Below(p, name)
<1> DEFINE n == MountLength(name)
           m == Mount(name)
           ms == Append(m, "/")
<1>1. /\ name \in Seq(Letters \union {"/"}) /\ p \in Seq(Letters \union {"/"})
      /\ Len(name) \in Nat /\ Len(p) \in Nat
  BY NoEnd
<1>2. /\ n \in 0 .. Len(name) /\ m \in Seq(Letters \union {"/"}) /\ Len(m) = n
      /\ \A i \in 1 .. n : m[i] = name[i]
  BY MountIs
<1>3. /\ ms \in Seq(Letters \union {"/"}) /\ Len(ms) = n + 1 /\ ms[n + 1] = "/"
      /\ \A i \in 1 .. n : ms[i] = name[i]
  BY <1>2
<1>4. Below(p, name) <=> p = m \/ (n + 1 <= Len(p) /\ \A i \in 1 .. n + 1 : p[i] = ms[i])
  <2>1. IsPrefix(ms, p) <=> (n + 1 <= Len(p) /\ \A i \in 1 .. n + 1 : p[i] = ms[i])
    BY <1>1, <1>2, <1>3 DEF IsPrefix
  <2>. QED
    BY <2>1 DEF Below
<1> HIDE DEF n, m, ms
<1>5. ASSUME Accepts(name, p, junk) PROVE Below(p, name)
  <2>1. /\ ByteAt(p, n, junk) \in {"/", End}
        /\ \A i \in 0 .. n - 1 : ByteAt(name, i, junk) = ByteAt(p, i, junk)
    BY <1>5 DEF Accepts, SameBytes, n
  <2>2. n <= Len(p)
    <3> SUFFICES ASSUME Len(p) < n PROVE FALSE
      BY <1>1, <1>2
    <3>1. ByteAt(p, Len(p), junk) = End /\ ByteAt(name, Len(p), junk) = name[Len(p) + 1]
      BY <1>1, <1>2 DEF ByteAt
    <3>2. Len(p) \in 0 .. n - 1 /\ Len(p) + 1 \in 1 .. Len(name)
      BY <1>1, <1>2
    <3>. QED
      BY <2>1, <3>1, <3>2, NoEnd
  <2>3. ASSUME NEW k \in 1 .. n PROVE p[k] = name[k]
    <3>1. k - 1 \in 0 .. n - 1 /\ k - 1 < Len(p) /\ k - 1 < Len(name) /\ (k - 1) + 1 = k
      BY <1>1, <1>2, <2>2
    <3>. QED
      BY <2>1, <3>1 DEF ByteAt
  <2>4. CASE n = Len(p)
    <3>1. p = m
      BY <1>1, <1>2, <2>3, <2>4
    <3>. QED
      BY <1>4, <3>1
  <2>5. CASE n < Len(p)
    <3>1. ByteAt(p, n, junk) = p[n + 1] /\ n + 1 \in 1 .. Len(p)
      BY <1>1, <1>2, <2>5 DEF ByteAt
    <3>2. p[n + 1] = "/"
      BY <2>1, <3>1, NoEnd
    <3>3. \A i \in 1 .. n + 1 : p[i] = ms[i]
      BY <1>2, <1>3, <2>3, <3>2
    <3>. QED
      BY <1>1, <1>2, <1>4, <2>5, <3>3
  <2>. QED
    BY <1>1, <1>2, <2>2, <2>4, <2>5
<1>6. ASSUME Below(p, name) PROVE Accepts(name, p, junk)
  <2>1. n <= Len(p) /\ \A k \in 1 .. n : p[k] = name[k]
    BY <1>1, <1>2, <1>3, <1>4, <1>6
  <2>2. ByteAt(p, n, junk) \in {"/", End}
    BY <1>1, <1>2, <1>3, <1>4, <1>6 DEF ByteAt
  <2>3. \A i \in 0 .. n - 1 : ByteAt(name, i, junk) = ByteAt(p, i, junk)
    BY <1>1, <1>2, <2>1 DEF ByteAt
  <2>. QED
    BY <2>2, <2>3 DEF Accepts, SameBytes, n
<1>. QED
  BY <1>5, <1>6

\* The first of the devices of the path's name has the path's name.
LEMMA DeviceFound ==
  ASSUME NamesInv, NEW p \in Paths, NEW junk
  PROVE  FindDev(p, junk) = IF p \in Range(dev_list) THEN p ELSE NULL
<1> DEFINE Matches(name) == SameBytes(name, p, Len(p) + 1, junk)
           owners == {i \in DOMAIN dev_list : Matches(dev_list[i])}
           Leads(i) == /\ Matches(dev_list[i]) /\ \A j \in 1 .. i - 1 : ~Matches(dev_list[j])
           c == CHOOSE i \in DOMAIN dev_list : Leads(i)
<1>1. /\ dev_list \in Seq(Names) /\ DOMAIN dev_list \subseteq Nat
      /\ \A i \in DOMAIN dev_list : dev_list[i] \in Names /\ 1 .. i - 1 \subseteq DOMAIN dev_list
  BY DEF NamesInv
<1>2. \A i \in DOMAIN dev_list : Matches(dev_list[i]) <=> dev_list[i] = p
  BY <1>1, SameName
<1>3. p \in Range(dev_list) <=> \E i \in DOMAIN dev_list : dev_list[i] = p
  BY DEF Range
<1>4. FindDev(p, junk) = IF \E i \in DOMAIN dev_list : Matches(dev_list[i])
                         THEN dev_list[c] ELSE NULL
  BY Zenon DEF FindDev, First
<1> HIDE DEF Matches
<1>5. ASSUME owners # {} PROVE c \in DOMAIN dev_list /\ Leads(c)
  <2>1. Min(owners) \in owners /\ \A y \in owners : Min(owners) <= y
    BY <1>1, <1>5, Smallest
  <2> DEFINE k == Min(owners)
  <2>2. /\ k \in DOMAIN dev_list /\ Matches(dev_list[k])
        /\ \A y \in DOMAIN dev_list : Matches(dev_list[y]) => k <= y
    BY <2>1
  <2> HIDE DEF k
  <2>3. Leads(k)
    BY <1>1, <2>2, SMTT(30)
  <2>. QED
    BY <2>2, <2>3, Zenon
<1> HIDE DEF c
<1>. QED
  BY <1>2, <1>3, <1>4, <1>5

LEMMA FileFound ==
  ASSUME NamesInv, NEW p \in Paths, NEW junk
  PROVE  LET owners == {i \in DOMAIN fs_list : Below(p, fs_list[i])}
         IN FindFile(p, junk) = IF owners # {} THEN fs_list[Min(owners)] ELSE NULL
<1> DEFINE Matches(name) == /\ ByteAt(p, MountLength(name), junk) \in {"/", End}
                            /\ SameBytes(name, p, MountLength(name), junk)
           owners == {i \in DOMAIN fs_list : Below(p, fs_list[i])}
           Leads(i) == /\ Matches(fs_list[i]) /\ \A j \in 1 .. i - 1 : ~Matches(fs_list[j])
           c == CHOOSE i \in DOMAIN fs_list : Leads(i)
<1>1. /\ fs_list \in Seq(Names) /\ DOMAIN fs_list \subseteq Nat
      /\ \A i \in DOMAIN fs_list : fs_list[i] \in Names /\ 1 .. i - 1 \subseteq DOMAIN fs_list
  BY DEF NamesInv
<1>2. \A i \in DOMAIN fs_list : Matches(fs_list[i]) <=> i \in owners
  BY <1>1, AcceptsBelow DEF Accepts
<1>3. FindFile(p, junk) = IF \E i \in DOMAIN fs_list : Matches(fs_list[i])
                          THEN fs_list[c] ELSE NULL
  BY Zenon DEF FindFile, First
<1>4. owners \subseteq DOMAIN fs_list
  OBVIOUS
<1> HIDE DEF Matches, owners
<1>5. ASSUME owners # {} PROVE c = Min(owners)
  <2>1. Min(owners) \in owners /\ \A y \in owners : Min(owners) <= y
    BY <1>1, <1>4, <1>5, Smallest
  <2>2. Min(owners) \in DOMAIN fs_list /\ Leads(Min(owners))
    BY <1>1, <1>2, <1>4, <2>1
  <2>3. c \in DOMAIN fs_list /\ Leads(c)
    BY <2>2, Zenon
  <2> HIDE DEF c
  <2> DEFINE k == Min(owners)
  <2>4. /\ c \in Nat /\ k \in Nat /\ k <= c /\ 1 <= k
        /\ k \in DOMAIN fs_list /\ Matches(fs_list[k])
    BY <1>1, <1>2, <1>4, <2>1, <2>3
  <2> HIDE DEF k
  <2>5. ~(k < c)
    <3> SUFFICES ASSUME k < c PROVE FALSE
      OBVIOUS
    <3>1. k \in 1 .. c - 1
      BY <2>4
    <3>. QED
      BY <2>3, <2>4, <3>1
  <2>6. c = k
    BY <2>4, <2>5
  <2>. QED
    BY <2>6 DEF k
<1> HIDE DEF c
<1>. QED
  BY <1>2, <1>3, <1>4, <1>5 DEF owners

LEMMA OwnersOpen == NamesInv => OpensItsOwner
<1> SUFFICES ASSUME NamesInv, NEW p \in Paths, NEW junk \in Stray
             PROVE  LET owners == {i \in DOMAIN fs_list : Below(p, fs_list[i])}
                    IN Open(p, junk) = IF p \in Range(dev_list) THEN p
                                       ELSE IF owners # {} THEN fs_list[Min(owners)] ELSE NULL
  BY Zenon DEF OpensItsOwner
<1>1. p \in Range(dev_list) => p # NULL
  <2>1. \A i \in DOMAIN dev_list : dev_list[i] \in Names
    BY DEF NamesInv
  <2>. QED
    BY <2>1 DEF Range, NULL, NamesAssumption
<1>. QED
  BY <1>1, DeviceFound, FileFound, Zenon DEF Open

LEMMA NamesStart == NamesInit => NamesInv
  BY DEF NamesInit, NamesInv

LEMMA NamesStep == NamesInv /\ [NamesNext]_namesVars => NamesInv'
<1> SUFFICES ASSUME NamesInv, [NamesNext]_namesVars PROVE NamesInv'
  OBVIOUS
<1>1. CASE UNCHANGED namesVars
  BY <1>1 DEF NamesInv, namesVars
<1>2. ASSUME NEW name \in Names, NEW list \in Seq(Names)
      PROVE  <<name>> \o list \in Seq(Names)
  OBVIOUS
<1>3. ASSUME NEW name \in Names, RegisterFs(name) PROVE NamesInv'
  BY <1>2, <1>3 DEF NamesInv, RegisterFs
<1>4. ASSUME NEW name \in Names, RegisterDev(name) PROVE NamesInv'
  BY <1>2, <1>4 DEF NamesInv, RegisterDev
<1>. QED
  BY <1>1, <1>3, <1>4 DEF NamesNext

\* A path is opened by the device of that name or by the first file system above
\* it, whatever the search reads after the end of the path.
THEOREM NamesInvariance == Spec => []OpensItsOwner
<1>1. Init => NamesInv
  BY NamesStart, Zenon DEF Init
<1>2. NamesInv /\ [Next]_libraryVars => NamesInv'
  BY PartSteps, NamesStep
<1>. QED
  BY <1>1, <1>2, OwnersOpen, PTL DEF Spec

HIDE NamesAssumption
HIDE CachesAssumption
HIDE ExceptionsAssumption
HIDE TimeAssumption
HIDE DelayAssumption
HIDE ProcessAssumption

-----------------------------------------------------------------------------
(* Polling *)

\* A writer's next character comes after all of its own.
InStep(s, unsent, p) ==
  \A w \in Writers :
    /\ {s[i].nr : i \in Of(s, w)} = (1 .. p[w]) \ {m.char.nr : m \in {m \in unsent : m.char.by = w}}
    /\ \A i, j \in Of(s, w) : i < j => s[i].nr < s[j].nr

LEMMA InStepIs == WritersInStep <=> InStep(arrived \o tx, overflown, put)
  BY DEF WritersInStep, InStep, Gone

Numbered(unsent, p) == \A m \in unsent : m.char.nr \in 1 .. p[m.char.by]

LEMMA InStepAppends ==
  ASSUME NEW s \in Seq(PolledChar), NEW unsent, NEW p \in [Writers -> Nat],
         InStep(s, unsent, p), Numbered(unsent, p),
         NEW w \in Writers, NEW c, c = [by |-> w, nr |-> p[w] + 1]
  PROVE  InStep(Append(s, c), unsent, [p EXCEPT ![w] = @ + 1])
<1> DEFINE t == Append(s, c)
           q == [p EXCEPT ![w] = @ + 1]
           Lost(v) == {m.char.nr : m \in {m \in unsent : m.char.by = v}}
<1>1. /\ Len(s) \in Nat /\ DOMAIN s = 1 .. Len(s) /\ DOMAIN t = 1 .. Len(s) + 1
      /\ t[Len(s) + 1] = c /\ \A i \in 1 .. Len(s) : t[i] = s[i] /\ s[i] \in PolledChar
  <2>1. c \in PolledChar
    BY DEF PolledChar
  <2>. QED
    BY <2>1
<1>2. q[w] = p[w] + 1 /\ \A v \in Writers : p[v] \in Nat /\ (v # w => q[v] = p[v])
  OBVIOUS
<1>3. c.by = w /\ c.nr = p[w] + 1
  OBVIOUS
<1> HIDE DEF t, q
<1>4. /\ Of(t, w) = Of(s, w) \union {Len(s) + 1}
      /\ \A v \in Writers : v # w => Of(t, v) = Of(s, v)
  BY <1>1, <1>3 DEF Of
<1>5. \A v \in Writers : {s[i].nr : i \in Of(s, v)} = (1 .. p[v]) \ Lost(v)
  BY DEF InStep
<1>6. \A v \in Writers : \A i \in Of(s, v) : i \in 1 .. Len(s) /\ t[i] = s[i] /\ s[i].nr \in 1 .. p[v]
  BY <1>1, <1>5 DEF Of
<1>7. \A v \in Writers : \A i, j \in Of(s, v) : i < j => s[i].nr < s[j].nr
  BY DEF InStep
<1>8. \A v \in Writers : Lost(v) \subseteq 1 .. p[v]
  BY DEF Numbered
<1> HIDE DEF Lost
<1> SUFFICES ASSUME NEW v \in Writers
             PROVE  /\ {t[i].nr : i \in Of(t, v)} = (1 .. q[v]) \ Lost(v)
                    /\ \A i, j \in Of(t, v) : i < j => t[i].nr < t[j].nr
  BY DEF InStep, Lost, t, q
<1>9. CASE v = w
  <2>1. {t[i].nr : i \in Of(t, v)} = {s[i].nr : i \in Of(s, v)} \union {p[w] + 1}
    BY <1>1, <1>3, <1>4, <1>6, <1>9
  <2>2. (1 .. q[w]) \ Lost(w) = ((1 .. p[w]) \ Lost(w)) \union {p[w] + 1}
    BY <1>2, <1>8
  <2>3. \A i, j \in Of(t, v) : i < j => t[i].nr < t[j].nr
    <3> SUFFICES ASSUME NEW i \in Of(t, v), NEW j \in Of(t, v), i < j
                 PROVE  t[i].nr < t[j].nr
      OBVIOUS
    <3>1. i \in Of(s, v)
      BY <1>1, <1>4, <1>6, <1>9, SMTT(30)
    <3>2. CASE j \in Of(s, v)
      BY <1>6, <1>7, <3>1, <3>2
    <3>3. CASE j = Len(s) + 1
      <4>1. t[i].nr \in 1 .. p[w] /\ t[j].nr = p[w] + 1 /\ p[w] \in Nat
        BY <1>1, <1>2, <1>3, <1>6, <1>9, <3>1, <3>3
      <4>. QED
        BY <4>1
    <3>. QED
      BY <1>4, <1>9, <3>2, <3>3
  <2>. QED
    BY <1>5, <1>9, <2>1, <2>2, <2>3
<1>10. CASE v # w
  <2>1. {t[i].nr : i \in Of(t, v)} = {s[i].nr : i \in Of(s, v)}
    BY <1>4, <1>6, <1>10
  <2>. QED
    BY <1>2, <1>4, <1>5, <1>6, <1>7, <1>10, <2>1
<1>. QED
  BY <1>9, <1>10

LEMMA InStepLoses ==
  ASSUME NEW s \in Seq(PolledChar), NEW unsent, NEW p \in [Writers -> Nat],
         InStep(s, unsent, p), Numbered(unsent, p),
         NEW w \in Writers, NEW c, c = [by |-> w, nr |-> p[w] + 1], NEW b
  PROVE  InStep(s, unsent \union {[char |-> c, behind |-> b]}, [p EXCEPT ![w] = @ + 1])
<1> DEFINE x == [char |-> c, behind |-> b]
           more == unsent \union {x}
           q == [p EXCEPT ![w] = @ + 1]
           Lost(v) == {m.char.nr : m \in {m \in unsent : m.char.by = v}}
           More(v) == {m.char.nr : m \in {m \in more : m.char.by = v}}
<1>1. c.by = w /\ c.nr = p[w] + 1
  OBVIOUS
<1>2. q[w] = p[w] + 1 /\ \A v \in Writers : p[v] \in Nat /\ (v # w => q[v] = p[v])
  OBVIOUS
<1>0. x.char.by = w /\ x.char.nr = p[w] + 1
  BY <1>1
<1> HIDE DEF x
<1>3. More(w) = Lost(w) \union {p[w] + 1}
  <2>1. {m \in more : m.char.by = w} = {m \in unsent : m.char.by = w} \union {x}
    BY <1>0
  <2>. QED
    BY <1>0, <2>1
<1>4. \A v \in Writers : v # w => More(v) = Lost(v)
  BY <1>0
<1>5. \A v \in Writers : {s[i].nr : i \in Of(s, v)} = (1 .. p[v]) \ Lost(v)
  BY DEF InStep
<1>6. \A v \in Writers : \A i, j \in Of(s, v) : i < j => s[i].nr < s[j].nr
  BY DEF InStep
<1> HIDE DEF More, Lost, q
<1>7. \A v \in Writers : (1 .. q[v]) \ More(v) = (1 .. p[v]) \ Lost(v)
  <2> SUFFICES ASSUME NEW v \in Writers PROVE (1 .. q[v]) \ More(v) = (1 .. p[v]) \ Lost(v)
    OBVIOUS
  <2>1. CASE v = w
    BY <1>2, <1>3, <2>1
  <2>2. CASE v # w
    BY <1>2, <1>4, <2>2
  <2>. QED
    BY <2>1, <2>2
<1>. QED
  BY <1>5, <1>6, <1>7, Zenon DEF InStep, More, q, x

-----------------------------------------------------------------------------
\* The data register's fields, of a character and the number that wait behind it.
LEMMA Bit15 ==
  ASSUME NEW h \in HostChar, NEW n \in Nat
  PROVE  LET data == h + 2 ^ 15 + 2 ^ 16 * n
         IN RVALID(data) /\ DATA(data) = h
<1>1. h \in Nat /\ h < 256 /\ h \in 0 .. 255
  BY SMTT(30) DEF HostChar
<1> DEFINE p == 2 ^ 15
           q == 2 ^ 16
           d == h + p + q * n
<1>2. 2 ^ 0 = 1 /\ 2 ^ 1 = 2 /\ 2 ^ 8 = 256
  OBVIOUS
<1>3. p = 32768 /\ q = 65536
  BY SMTT(30)
<1> HIDE DEF p, q
<1>4. d = (2 * n + 1) * p + h /\ 2 * n + 1 \in Int /\ h \in 0 .. p - 1 /\ p \in Nat \ {0}
  <2>1. d = (2 * n + 1) * 32768 + h
    BY <1>1, <1>3, SMT
  <2>. QED
    BY <1>1, <1>3, <2>1, SMT
<1>5. d = (256 * n + 128) * 256 + h /\ 256 * n + 128 \in Int /\ h \in 0 .. 256 - 1
  BY <1>1, <1>3, SMT
<1>6. d \in Int
  BY <1>5, SMT
<1> HIDE DEF d
<1>7. d \div p = 2 * n + 1
  BY <1>4, DivisionUnique, Zenon
<1>8. d % 256 = h
  BY <1>5, DivisionUnique, SMT
<1>9. d \div 1 = d /\ (2 * n + 1) % 2 = 1
  BY <1>6, SMT
<1>. QED
  BY <1>2, <1>7, <1>8, <1>9, SMT DEF RVALID, DATA, Slice, d, p, q

\* Characters that pass from one queue to the next leave what both hold together.
LEMMA Passes ==
  ASSUME NEW S, NEW s \in Seq(S), NEW t \in Seq(S), t # <<>>
  PROVE  /\ Head(t) \in S /\ Tail(t) \in Seq(S) /\ Len(Tail(t)) = Len(t) - 1 /\ Len(t) > 0
         /\ Append(s, Head(t)) \in Seq(S)
         /\ Append(s, Head(t)) \o Tail(t) = s \o t
OBVIOUS

LEMMA Joins ==
  ASSUME NEW S, NEW s \in Seq(S), NEW t \in Seq(S), NEW c \in S
  PROVE  s \o Append(t, c) = Append(s \o t, c) /\ s \o t \in Seq(S)
OBVIOUS

-----------------------------------------------------------------------------
(* Polling: what the writers and the reader of the JTAG UART keep *)

Writing == WritersTypeOK /\ RoomKept /\ WritersInStep /\ LossesExplained
Reading == ReaderTypeOK /\ SpaceKept /\ ReadsTheHost /\ AnswersTold

LEMMA StreamsLeft ==
  ASSUME WritersInStep, LossesExplained, UNCHANGED <<tx, put, overflown, arrived>>
  PROVE  WritersInStep' /\ LossesExplained'
<1>1. InStep(arrived \o tx, overflown, put)
  BY InStepIs
<1>2. InStep((arrived \o tx)', overflown', put')
  BY <1>1
<1>3. WritersInStep'
  BY <1>2 DEF WritersInStep, InStep, Gone
<1>4. LossesExplained'
  BY DEF LossesExplained
<1>. QED
  BY <1>3, <1>4

LEMMA WritersPutOut ==
  ASSUME Writing, NEW w \in Writers, NEW length \in Int, PutOut(w, length)
  PROVE  Writing'
<1> USE PolledAssumption
<1>1. /\ at \in [Writers -> {"idle", "test", "put"}] /\ left \in [Writers -> Int]
      /\ behind \in BOOLEAN
      /\ at' = [at EXCEPT ![w] = "test"] /\ left' = [left EXCEPT ![w] = length]
      /\ behind' = (behind \/ w = "handler")
      /\ UNCHANGED <<tx, put, overflown, arrived>>
  BY DEF PutOut, Writing, WritersTypeOK
<1>2. WritersTypeOK'
  BY <1>1 DEF Writing, WritersTypeOK
<1>3. RoomKept'
  BY <1>1 DEF Writing, RoomKept, Writers
<1>4. WritersInStep' /\ LossesExplained'
  BY <1>1, StreamsLeft DEF Writing
<1>. QED
  BY <1>2, <1>3, <1>4 DEF Writing

LEMMA WritersTest ==
  ASSUME Writing, NEW w \in Writers, TestsRoom(w)
  PROVE  Writing'
<1> USE PolledAssumption
<1>1. /\ at \in [Writers -> {"idle", "test", "put"}]
      /\ behind \in BOOLEAN /\ Runs(w) /\ at[w] = "test" /\ Len(tx) # FifoDepth
      /\ at' = [at EXCEPT ![w] = "put"] /\ behind' = (behind /\ w = "handler")
      /\ UNCHANGED <<tx, put, overflown, arrived, left>>
  BY DEF TestsRoom, Writing, WritersTypeOK, WSPACE
<1>2. WritersTypeOK'
  BY <1>1 DEF Writing, WritersTypeOK
<1>3. RoomKept'
  BY <1>1 DEF Writing, RoomKept, Writers, Runs, WritersTypeOK
<1>4. WritersInStep' /\ LossesExplained'
  BY <1>1, StreamsLeft DEF Writing
<1>. QED
  BY <1>2, <1>3, <1>4 DEF Writing

\* The character goes to the FIFO, or is lost: then a handler has printed meanwhile.
LEMMA WritersWrite ==
  ASSUME Writing, NEW w \in Writers, WritesData(w)
  PROVE  Writing'
<1> USE PolledAssumption
<1> DEFINE c == [by |-> w, nr |-> put[w] + 1]
           m == [char |-> c, behind |-> behind]
<1>1. /\ at \in [Writers -> {"idle", "test", "put"}] /\ left \in [Writers -> Int]
      /\ put \in [Writers -> Nat] /\ behind \in BOOLEAN
      /\ tx \in Seq(PolledChar) /\ arrived \in Seq(PolledChar)
      /\ Runs(w) /\ at[w] = "put"
      /\ put' = [put EXCEPT ![w] = @ + 1] /\ left' = [left EXCEPT ![w] = @ - 1]
      /\ at' \in [Writers -> {"idle", "test", "put"}]
      /\ at'[w] # "put" /\ \A v \in Writers \ {w} : at'[v] = at[v]
      /\ at'[w] # "idle" => at[w] # "idle"
      /\ UNCHANGED <<behind, arrived>>
  BY DEF WritesData, Writing, WritersTypeOK
<1>2. c \in PolledChar /\ m \in [char : PolledChar, behind : BOOLEAN]
  BY <1>1 DEF PolledChar
<1>3. Numbered(overflown, put) /\ InStep(arrived \o tx, overflown, put)
      /\ arrived \o tx \in Seq(PolledChar)
  <2>1. Numbered(overflown, put)
    BY DEF Writing, LossesExplained, Numbered
  <2>. QED
    BY <1>1, <2>1, Joins, InStepIs DEF Writing
<1>4. CASE Len(tx) < FifoDepth
  <2>1. tx' = Append(tx, c) /\ overflown' = overflown
    BY <1>1, <1>4 DEF WritesData, WSPACE
  <2>2. WritersTypeOK'
    BY <1>1, <1>2, <2>1 DEF Writing, WritersTypeOK
  <2>3. RoomKept'
    <3>1. Len(tx') = Len(tx) + 1 /\ Len(tx) \in Nat
      BY <1>1, <2>1
    <3>. QED
      BY <1>1, <1>4, <3>1 DEF Writing, RoomKept, Writers, Runs
  <2>4. WritersInStep'
    <3>1. (arrived \o tx)' = Append(arrived \o tx, c)
      BY <1>1, <1>2, <2>1, Joins, SMTT(30)
    <3>2. InStep(Append(arrived \o tx, c), overflown, put')
      BY <1>1, <1>3, InStepAppends
    <3>3. InStep((arrived \o tx)', overflown', put')
      BY <2>1, <3>1, <3>2, Zenon
    <3>. QED
      BY <3>3 DEF WritersInStep, InStep, Gone
  <2>5. LossesExplained'
    BY <1>1, <2>1 DEF Writing, LossesExplained, Writers
  <2>. QED
    BY <2>2, <2>3, <2>4, <2>5 DEF Writing
<1>5. CASE ~(Len(tx) < FifoDepth)
  <2>1. tx' = tx /\ overflown' = overflown \union {m}
    BY <1>1, <1>5 DEF WritesData, WSPACE
  <2>2. w = "thread" /\ behind
    BY <1>1, <1>5 DEF Writing, RoomKept, Writers
  <2>3. WritersTypeOK'
    BY <1>1, <1>2, <2>1 DEF Writing, WritersTypeOK
  <2>4. RoomKept'
    BY <1>1, <2>1, <2>2 DEF Writing, RoomKept, Writers, Runs
  <2>5. WritersInStep'
    <3>1. InStep(arrived \o tx, overflown \union {m}, put')
      BY <1>1, <1>3, InStepLoses
    <3>2. InStep((arrived \o tx)', overflown', put')
      BY <1>1, <2>1, <3>1
    <3>. QED
      BY <3>2 DEF WritersInStep, InStep, Gone
  <2>6. LossesExplained'
    BY <1>1, <2>1, <2>2 DEF Writing, LossesExplained, Writers
  <2>. QED
    BY <2>3, <2>4, <2>5, <2>6 DEF Writing
<1>. QED
  BY <1>4, <1>5

LEMMA WritersPass ==
  ASSUME Writing, HostReceives
  PROVE  Writing'
<1> USE PolledAssumption
<1>1. /\ tx # <<>> /\ tx \in Seq(PolledChar) /\ arrived \in Seq(PolledChar)
      /\ arrived' = Append(arrived, Head(tx)) /\ tx' = Tail(tx)
      /\ UNCHANGED <<at, left, put, behind, overflown>>
  BY DEF HostReceives, Writing, WritersTypeOK, writing
<1>2. /\ Tail(tx) \in Seq(PolledChar) /\ Len(Tail(tx)) = Len(tx) - 1
      /\ Append(arrived, Head(tx)) \in Seq(PolledChar)
      /\ Append(arrived, Head(tx)) \o Tail(tx) = arrived \o tx
  BY <1>1, Passes, SMTT(30)
<1>3. WritersTypeOK'
  BY <1>1, <1>2 DEF Writing, WritersTypeOK
<1>4. RoomKept'
  BY <1>1, <1>2 DEF Writing, RoomKept
<1>5. WritersInStep'
  <2>1. (arrived \o tx)' = arrived \o tx
    BY <1>1, <1>2
  <2>2. InStep(arrived \o tx, overflown, put)
    BY InStepIs DEF Writing
  <2>3. InStep((arrived \o tx)', overflown', put')
    BY <1>1, <2>1, <2>2
  <2>. QED
    BY <2>3 DEF WritersInStep, InStep, Gone
<1>6. LossesExplained'
  BY <1>1 DEF Writing, LossesExplained
<1>. QED
  BY <1>3, <1>4, <1>5, <1>6 DEF Writing

LEMMA WritersLeft ==
  ASSUME Writing, UNCHANGED <<tx, writing, arrived>>
  PROVE  Writing'
<1> USE PolledAssumption
<1>1. UNCHANGED <<tx, arrived, at, left, put, behind, overflown>>
  BY DEF writing
<1>2. WritersTypeOK' /\ RoomKept'
  BY <1>1 DEF Writing, WritersTypeOK, RoomKept
<1>3. WritersInStep' /\ LossesExplained'
  BY <1>1, StreamsLeft DEF Writing
<1>. QED
  BY <1>2, <1>3 DEF Writing

LEMMA ReadersLeft ==
  ASSUME Reading, UNCHANGED input
  PROVE  Reading'
<1>1. UNCHANGED <<rx, hosts, reading, mode, wanted, got, answer, seen>>
  BY DEF input, reader
<1>. QED
  BY <1>1 DEF Reading, ReaderTypeOK, SpaceKept, ReadsTheHost, AnswersTold

\* A call that only sets its answer, which is none or a refusal.
LEMMA ReadersAnswer ==
  ASSUME Reading, UNCHANGED <<rx, hosts, reading, mode, wanted, got, seen>>,
         answer' = answer \/ (answer'.value \in {0, -1} /\ answer'.call # "alt_getchar")
  PROVE  Reading'
<1>1. ReaderTypeOK' /\ SpaceKept' /\ ReadsTheHost'
  BY DEF Reading, ReaderTypeOK, SpaceKept, ReadsTheHost
<1>2. AnswersTold'
  BY DEF Reading, AnswersTold, EIO
<1>. QED
  BY <1>1, <1>2 DEF Reading

LEMMA ReadersPutOut ==
  ASSUME Reading, NEW w, NEW length, PutOut(w, length)
  PROVE  Reading'
<1>1. /\ UNCHANGED <<rx, hosts, reading, mode, wanted, got, seen>>
      /\ answer' = IF w = "thread" THEN NoAnswer ELSE answer
  BY DEF PutOut
<1>. QED
  BY <1>1, ReadersAnswer DEF NoAnswer

LEMMA ReadersRefuse ==
  ASSUME Reading, NEW error \in {"EBADFD", "ENOSYS"}, Refuses(error)
  PROVE  Reading'
<1>1. /\ UNCHANGED <<rx, hosts, reading, mode, wanted, got, seen>>
      /\ answer'.value = -1 /\ answer'.call = error
  BY DEF Refuses
<1>. QED
  BY <1>1, ReadersAnswer

LEMMA ReadersStart ==
  ASSUME Reading, NEW call \in {"read", "alt_getchar", "ALT_READ"},
         NEW space \in Nat, NEW flags \in {"block", "nonblock"},
         call = "alt_getchar" => space = 1, StartsRead(call, space, flags)
  PROVE  Reading'
<1>1. /\ reading' = call /\ mode' = flags /\ wanted' = space /\ got' = <<>>
      /\ reading = "none" /\ got = <<>> /\ answer' = NoAnswer
      /\ UNCHANGED <<rx, hosts, seen>>
  BY DEF StartsRead, Reading, SpaceKept
<1>2. ReaderTypeOK' /\ SpaceKept'
  BY <1>1 DEF Reading, ReaderTypeOK, SpaceKept
<1>3. ReadsTheHost'
  BY <1>1 DEF Reading, ReadsTheHost
<1>4. AnswersTold'
  BY <1>1 DEF AnswersTold, NoAnswer, EIO
<1>. QED
  BY <1>2, <1>3, <1>4 DEF Reading

LEMMA HostBytes ==
  ASSUME NEW n \in Nat
  PROVE  HostByte(n) \in HostChar
BY DEF HostByte, HostChar

LEMMA ReadersReceive ==
  ASSUME Reading, HostSends
  PROVE  Reading'
<1> DEFINE c == HostByte(hosts + 1)
           FromHost(n) == [k \in 1 .. n |-> HostByte(k)]
           before == seen \o got
<1>1. /\ hosts \in Nat /\ rx \in Seq(HostChar) /\ got \in Seq(HostChar) /\ seen \in Seq(HostChar)
      /\ hosts' = hosts + 1 /\ rx' = Append(rx, c)
      /\ UNCHANGED <<reading, mode, wanted, got, answer, seen>>
  BY DEF HostSends, Reading, ReaderTypeOK, reader
<1>2. c \in HostChar /\ before \in Seq(HostChar)
  BY <1>1, HostBytes
<1>3. before \o Append(rx, c) = Append(before \o rx, c)
  BY <1>1, <1>2, Joins, SMTT(30)
<1>4. before \o rx = FromHost(hosts)
  BY DEF Reading, ReadsTheHost
<1>5. Append(FromHost(hosts), c) = FromHost(hosts + 1)
  <2>1. \A n \in Nat : \A k \in 1 .. n : HostByte(k) \in HostChar
    BY HostBytes
  <2> HIDE DEF HostByte
  <2>. QED
    BY <1>1, <2>1
<1>6. ReadsTheHost'
  BY <1>1, <1>3, <1>4, <1>5 DEF ReadsTheHost
<1>7. ReaderTypeOK' /\ SpaceKept' /\ AnswersTold'
  BY <1>1, <1>2 DEF Reading, ReaderTypeOK, SpaceKept, AnswersTold
<1>. QED
  BY <1>6, <1>7 DEF Reading

\* Of the bytes only 255 reads as -1.
LEMMA CharOfNone ==
  ASSUME NEW byte \in HostChar
  PROVE  Char(byte) = -1 <=> byte = 255
BY SMT DEF Char, HostChar

\* A character leaves the FIFO only when there is space for it.
LEMMA ReadersRead ==
  ASSUME Reading, ReadsData
  PROVE  Reading'
<1> DEFINE full == Len(got) = wanted
           chars == IF ~full /\ RVALID(Data) THEN Append(got, DATA(Data)) ELSE got
           over == full \/ (~RVALID(Data) /\ (got # <<>> \/ mode = "nonblock"))
<1>1. /\ rx \in Seq(HostChar) /\ got \in Seq(HostChar) /\ seen \in Seq(HostChar)
      /\ mode \in {"block", "nonblock"} /\ wanted \in Nat /\ hosts \in Nat
      /\ Len(got) <= wanted
      /\ reading = "alt_getchar" => wanted = 1
      /\ reading \in {"read", "alt_getchar", "ALT_READ"}
      /\ seen \o got \o rx = [k \in 1 .. hosts |-> HostByte(k)]
      /\ UNCHANGED <<hosts, mode>>
  BY DEF ReadsData, Reading, ReaderTypeOK, SpaceKept, ReadsTheHost
<1>2. rx' = IF full \/ rx = <<>> THEN rx ELSE Tail(rx)
  BY DEF ReadsData
<1>3. IF over
      THEN /\ reading' = "none" /\ got' = <<>> /\ wanted' = 0
           /\ answer' = [call |-> reading, space |-> wanted,
                         value |-> Returned(got), chars |-> got]
           /\ seen' = seen \o got
      ELSE got' = chars /\ UNCHANGED <<reading, wanted, answer, seen>>
  BY DEF ReadsData
<1>4. rx = <<>> => ~RVALID(Data)
  <2>1. 0 \div 2 ^ 15 = 0 /\ 0 % 2 ^ 1 = 0
    OBVIOUS
  <2>. QED
    BY <2>1 DEF RVALID, Slice, Data
<1>5. rx # <<>> => RVALID(Data) /\ DATA(Data) = Head(rx)
  <2> SUFFICES ASSUME rx # <<>> PROVE RVALID(Data) /\ DATA(Data) = Head(rx)
    OBVIOUS
  <2>1. Head(rx) \in HostChar /\ Len(rx) - 1 \in Nat
    BY <1>1
  <2>2. Data = Head(rx) + 2 ^ 15 + 2 ^ 16 * (Len(rx) - 1)
    BY Zenon DEF Data
  <2>. QED
    BY <2>1, <2>2, Bit15, Zenon
<1> HIDE DEF full, chars, over
<1>6. CASE over
  <2>1. rx' = rx
    BY <1>2, <1>5, <1>6 DEF over
  <2>2. ReaderTypeOK' /\ SpaceKept'
    <3>1. /\ seen \o got \in Seq(HostChar) /\ <<>> \in Seq(HostChar) /\ Len(<<>>) = 0
      BY <1>1
    <3>2. /\ reading' = "none" /\ got' = <<>> /\ wanted' = 0 /\ seen' = seen \o got
      BY <1>3, <1>6
    <3>. QED
      BY <1>1, <2>1, <3>1, <3>2 DEF ReaderTypeOK, SpaceKept
  <2>3. ReadsTheHost'
    <3>1. (seen \o got) \o <<>> = seen \o got
      BY <1>1
    <3>. QED
      BY <1>1, <1>3, <1>6, <2>1, <3>1 DEF ReadsTheHost
  <2>4. /\ answer'.call = reading /\ answer'.space = wanted
        /\ answer'.value = Returned(got) /\ answer'.chars = got
    BY <1>3, <1>6
  <2>5. ASSUME answer'.value = -EIO, answer'.call # "alt_getchar" PROVE answer'.space = 0
    <3>1. Result(got) = -5
      BY <2>4, <2>5 DEF Returned, EIO
    <3>2. got = <<>> /\ mode = "block"
      <4>1. got # <<>> => Len(got) > 0
        BY <1>1
      <4>. QED
        BY <1>1, <3>1, <4>1 DEF Result, EWOULDBLOCK
    <3>. QED
      BY <1>1, <1>6, <2>4, <3>2 DEF over, full
  <2>6. ASSUME answer'.call = "alt_getchar"
        PROVE  answer'.value = -1 <=> answer'.chars \in {<<>>, <<255>>}
    <3>1. /\ wanted = 1 /\ Len(got) \in {0, 1}
          /\ answer'.value = IF Result(got) <= 0 THEN -1 ELSE Char(got[1])
      <4>1. reading = "alt_getchar"
        BY <2>4, <2>6
      <4>2. Returned(got) = IF Result(got) <= 0 THEN -1 ELSE Char(got[1])
        BY <4>1, Zenon DEF Returned
      <4>3. wanted = 1
        BY <1>1, <4>1
      <4>4. Len(got) \in Nat /\ Len(got) <= wanted
        BY <1>1
      <4>. QED
        <5>1. answer'.value = IF Result(got) <= 0 THEN -1 ELSE Char(got[1])
          BY <2>4, <4>2, Zenon
        <5>2. Len(got) \in {0, 1}
          <6> DEFINE n == Len(got)
          <6>1. n \in Nat /\ n <= 1
            BY <4>3, <4>4, Zenon
          <6> HIDE DEF n
          <6>2. n \in {0, 1}
            BY <6>1
          <6>. QED
            BY <6>2 DEF n
        <5>. QED
          BY <4>3, <5>1, <5>2, Zenon
    <3>2. CASE got = <<>>
      BY <2>4, <3>1, <3>2 DEF Result, EIO, EWOULDBLOCK
    <3>3. CASE got # <<>>
      <4>1. got[1] \in HostChar /\ got = <<got[1]>> /\ Len(got) = 1
        BY <1>1, <3>1, <3>3
      <4>2. answer'.value = Char(got[1])
        BY <3>1, <3>3, <4>1 DEF Result
      <4>3. Char(got[1]) = -1 <=> got[1] = 255
        BY <4>1, CharOfNone, SMT
      <4>4. got[1] = 255 <=> got = <<255>>
        BY <4>1
      <4>. QED
        BY <2>4, <3>3, <4>2, <4>3, <4>4
    <3>. QED
      BY <3>2, <3>3
  <2>. QED
    BY <2>2, <2>3, <2>5, <2>6 DEF Reading, AnswersTold
<1>7. CASE ~over /\ rx = <<>>
  <2>1. rx' = rx /\ UNCHANGED <<reading, wanted, answer, seen, got>>
    BY <1>2, <1>3, <1>4, <1>7 DEF chars
  <2>. QED
    BY <1>1, <2>1 DEF Reading, ReaderTypeOK, SpaceKept, ReadsTheHost, AnswersTold
<1>8. CASE ~over /\ rx # <<>>
  <2>1. /\ rx' = Tail(rx) /\ got' = Append(got, Head(rx)) /\ ~full
        /\ UNCHANGED <<reading, wanted, answer, seen>>
    BY <1>2, <1>3, <1>5, <1>8 DEF chars, over
  <2>2. /\ Head(rx) \in HostChar /\ Tail(rx) \in Seq(HostChar)
        /\ Append(got, Head(rx)) \in Seq(HostChar)
        /\ Append(got, Head(rx)) \o Tail(rx) = got \o rx
    <3>1. got \in Seq(HostChar) /\ rx \in Seq(HostChar) /\ rx # <<>>
      BY <1>1, <1>8
    <3>. QED
      BY <3>1, Passes, Zenon
  <2>3. ReaderTypeOK'
    BY <1>1, <2>1, <2>2 DEF Reading, ReaderTypeOK
  <2>4. SpaceKept'
    BY <1>1, <2>1 DEF SpaceKept, full
  <2>5. (seen \o Append(got, Head(rx))) \o Tail(rx) = (seen \o got) \o rx
    <3> DEFINE more == Append(got, Head(rx))
               rest == Tail(rx)
    <3>1. /\ seen \in Seq(HostChar) /\ got \in Seq(HostChar) /\ rx \in Seq(HostChar)
          /\ more \in Seq(HostChar) /\ rest \in Seq(HostChar) /\ more \o rest = got \o rx
      BY <1>1, <2>2
    <3> HIDE DEF more, rest
    <3> HIDE DEF HostChar
    <3>2. (seen \o more) \o rest = seen \o (more \o rest)
      <4>1. seen \in Seq(HostChar) /\ more \in Seq(HostChar) /\ rest \in Seq(HostChar)
        BY <3>1
      <4>. QED
        BY <4>1, SMT
    <3>3. (seen \o got) \o rx = seen \o (got \o rx)
      BY <3>1, SMTT(30)
    <3>. QED
      BY <3>1, <3>2, <3>3, Zenon DEF more, rest
  <2>6. ReadsTheHost' /\ AnswersTold'
    BY <1>1, <2>1, <2>5 DEF Reading, ReadsTheHost, AnswersTold
  <2>. QED
    BY <2>3, <2>4, <2>6 DEF Reading
<1>. QED
  BY <1>6, <1>7, <1>8

LEMMA PolledStart == PolledInit => Writing /\ Reading
<1> SUFFICES ASSUME PolledInit PROVE Writing /\ Reading
  OBVIOUS
<1>1. /\ tx = <<>> /\ rx = <<>> /\ arrived = <<>> /\ got = <<>> /\ seen = <<>>
      /\ <<>> \o <<>> = <<>> /\ DOMAIN <<>> = {} /\ hosts = 0 /\ overflown = {}
  BY DEF PolledInit
<1>2. WritersTypeOK /\ RoomKept
  <2>1. /\ at = [w \in Writers |-> "idle"] /\ left = [w \in Writers |-> 0]
        /\ put = [w \in Writers |-> 0] /\ behind = FALSE
    BY DEF PolledInit
  <2>2. WritersTypeOK
    <3>1. <<>> \in Seq(PolledChar) /\ {} \subseteq [char : PolledChar, behind : BOOLEAN]
      OBVIOUS
    <3>2. /\ at \in [Writers -> {"idle", "test", "put"}]
          /\ left \in [Writers -> Int] /\ put \in [Writers -> Nat]
      BY <2>1
    <3>. QED
      BY <1>1, <2>1, <3>1, <3>2 DEF WritersTypeOK
  <2>3. RoomKept
    BY <1>1, <2>1, PolledAssumption DEF RoomKept, Writers
  <2>. QED
    BY <2>2, <2>3
<1>3. WritersInStep
  <2>1. put = [w \in Writers |-> 0]
    BY DEF PolledInit
  <2>. QED
    BY <1>1, <2>1 DEF WritersInStep, Of, Gone
<1>4. LossesExplained
  BY <1>1 DEF LossesExplained
<1>5. ReaderTypeOK /\ SpaceKept /\ AnswersTold
  BY DEF PolledInit, ReaderTypeOK, SpaceKept, AnswersTold, NoAnswer, EIO
<1>6. ReadsTheHost
  <2>1. [k \in 1 .. 0 |-> HostByte(k)] = <<>>
    OBVIOUS
  <2>. QED
    BY <1>1, <2>1 DEF ReadsTheHost
<1>. QED
  BY <1>2, <1>3, <1>4, <1>5, <1>6 DEF Writing, Reading

LEMMA PolledStep == Writing /\ Reading /\ [PolledNext]_polledVars => Writing' /\ Reading'
<1> SUFFICES ASSUME Writing, Reading, [PolledNext]_polledVars PROVE Writing' /\ Reading'
  OBVIOUS
<1>1. CASE UNCHANGED polledVars
  <2>1. UNCHANGED <<tx, writing, arrived>> /\ UNCHANGED input
    BY <1>1 DEF polledVars, writing, input, reader
  <2>. QED
    BY <2>1, WritersLeft, ReadersLeft, Zenon
<1>2. ASSUME NEW w \in Writers, NEW length \in 1 .. 2, PutOut(w, length)
      PROVE  Writing' /\ Reading'
  <2>1. length \in Int
    OBVIOUS
  <2>. QED
    BY <1>2, <2>1, WritersPutOut, ReadersPutOut, Zenon
<1>3. ASSUME NEW w \in Writers, TestsRoom(w) \/ WritesData(w)
      PROVE  Writing' /\ Reading'
  <2>1. UNCHANGED input
    BY <1>3 DEF TestsRoom, WritesData
  <2>. QED
    BY <1>3, <2>1, WritersTest, WritersWrite, ReadersLeft, Zenon
<1>4. ASSUME NEW call \in {"read", "alt_getchar", "ALT_READ"},
             NEW space \in 0 .. 2, NEW flags \in {"block", "nonblock"},
             call = "alt_getchar" => space = 1, StartsRead(call, space, flags)
      PROVE  Writing' /\ Reading'
  <2>1. UNCHANGED <<tx, writing, arrived>> /\ space \in Nat
    BY <1>4 DEF StartsRead
  <2>. QED
    BY <1>4, <2>1, WritersLeft, ReadersStart, Zenon
<1>5. ASSUME NEW error \in {"EBADFD", "ENOSYS"}, Refuses(error)
      PROVE  Writing' /\ Reading'
  <2>1. UNCHANGED <<tx, writing, arrived>>
    BY <1>5 DEF Refuses
  <2>. QED
    BY <1>5, <2>1, WritersLeft, ReadersRefuse, Zenon
<1>6. CASE ReadsData
  <2>1. UNCHANGED <<tx, writing, arrived>>
    BY <1>6 DEF ReadsData
  <2>. QED
    BY <1>6, <2>1, WritersLeft, ReadersRead, Zenon
<1>7. CASE HostReceives
  <2>1. UNCHANGED input
    BY <1>7 DEF HostReceives
  <2>. QED
    BY <1>7, <2>1, WritersPass, ReadersLeft, Zenon
<1>8. CASE HostSends
  <2>1. UNCHANGED <<tx, writing, arrived>>
    BY <1>8 DEF HostSends
  <2>. QED
    BY <1>8, <2>1, WritersLeft, ReadersReceive, Zenon
<1>9. CASE PolledNext
  <2>1. \/ \E w \in Writers, length \in 1 .. 2 : PutOut(w, length)
        \/ \E w \in Writers : TestsRoom(w) \/ WritesData(w)
        \/ \E call \in {"read", "alt_getchar", "ALT_READ"}, space \in 0 .. 2,
              flags \in {"block", "nonblock"} :
             (call = "alt_getchar" => space = 1) /\ StartsRead(call, space, flags)
        \/ \E error \in {"EBADFD", "ENOSYS"} : Refuses(error)
        \/ ReadsData \/ HostReceives \/ HostSends
    BY <1>9 DEF PolledNext, alt_putstr, alt_putchar, alt_getchar, ALT_READ, ALT_WRITE,
                ALT_OPEN, ALT_CLOSE, ALT_LSEEK, ALT_DRIVER_READ, ALT_DRIVER_WRITE, Writers
  <2>. QED
    BY <1>2, <1>3, <1>4, <1>5, <1>6, <1>7, <1>8, <2>1, Zenon
<1>. QED
  BY <1>1, <1>9

LEMMA PollingHolds == Writing /\ Reading => PolledInv
  BY DEF Writing, Reading, PolledInv, ALT_ISATTY, ALT_FSTAT

\* What is written by polling arrives in order or was overtaken by a handler, and
\* what the host sends is read once and in order.
THEOREM PollingInvariance == Spec => []PolledInv
<1> DEFINE PolledHolds == Writing /\ Reading
<1>1. Init => PolledHolds
  BY PolledStart, Zenon DEF Init
<1>2. PolledHolds /\ [Next]_libraryVars => PolledHolds'
  BY PartSteps, PolledStep
<1>3. PolledHolds => PolledInv
  BY PollingHolds
<1> HIDE DEF PolledHolds
<1>. QED
  BY <1>1, <1>2, <1>3, PTL DEF Spec

-----------------------------------------------------------------------------
(* The ADC controller *)

LEMMA SmallerOfTwo ==
  ASSUME NEW a \in Int, NEW b \in Int
  PROVE  Min({a, b}) = IF a <= b THEN a ELSE b
<1> DEFINE m == IF a <= b THEN a ELSE b
<1>1. m \in {a, b} /\ \A y \in {a, b} : m <= y
  OBVIOUS
<1>2. \A x \in {a, b} : (\A y \in {a, b} : x <= y) => x = m
  OBVIOUS
<1> HIDE DEF m
<1>. QED
  BY <1>1, <1>2 DEF Min, m

\* The ticks of a measure, in their order.
LEMMA AdcTimes ==
  /\ tCONFIG_START \in Nat /\ tCLK_START \in Nat /\ tCONFIG_END \in Nat
  /\ tCLK_END \in Nat /\ tDONE \in Nat
  /\ DATA_BITS_NUM \in 1 .. 16 /\ CMD_BITS_NUM \in 1 .. DATA_BITS_NUM
  /\ 0 < tCONFIG_START /\ tCONFIG_START < tCLK_START /\ tCONFIG_START = tWHCONV
  /\ tCONFIG_END = tCLK_START + CMD_BITS_NUM - 1
  /\ tCLK_END = tCLK_START + DATA_BITS_NUM /\ tCLK_END < tDONE
<1>1. /\ tWHCONV \in Nat /\ tCONV \in Nat /\ tHCONVST \in Nat
      /\ CMD_BITS_NUM \in Nat /\ DATA_BITS_NUM \in Nat
      /\ 0 < tWHCONV /\ tWHCONV < tCONV /\ 0 < CMD_BITS_NUM
      /\ CMD_BITS_NUM <= DATA_BITS_NUM /\ DATA_BITS_NUM <= 16 /\ 0 < tHCONVST
  BY AdcAssumption
<1>2. /\ tCONFIG_START = tWHCONV /\ tCLK_START = tCONV
      /\ tCONFIG_END = tCLK_START + CMD_BITS_NUM - 1
      /\ tCLK_END = tCLK_START + DATA_BITS_NUM /\ tDONE = tCLK_END + tHCONVST
  BY DEF tCONFIG_START, tCLK_START, tCONFIG_END, tCLK_END, tDONE
<1>. QED
  BY <1>1, <1>2

LEMMA MachineStarts ==
  ASSUME AdcTypeOK, ShiftInv, Machine
  PROVE  /\ measure_start' \in BOOLEAN /\ wait_done' \in BOOLEAN
         /\ measure_start' => ~measure_start /\ wait_done'
<1>1. measure_start \in BOOLEAN /\ wait_done \in BOOLEAN /\ (measure_start => wait_done)
  BY DEF AdcTypeOK, ShiftInv
<1>. QED
  BY <1>1 DEF Machine, ResetMachine, BeginMeasure, EndMeasure, Idle

\* A measure begins anew.
LEMMA ShiftRestarts ==
  ASSUME AdcTypeOK, ShiftInv, Posedge, measure_start', ~measure_start
  PROVE  AdcTypeOK' /\ ShiftInv'
<1> USE AdcTimes
<1>1. /\ tick' = 0 /\ adc_clk' = TRUE /\ clk_enable' = FALSE
      /\ read_data' = Blank /\ write_pos' = DATA_BITS_NUM - 1
      /\ measure_done' = FALSE /\ config_ch' = fifo_ch
      /\ IF CONVST(tick) THEN UNCHANGED chip ELSE Convert
      /\ pre_start' = measure_start /\ ~adc_clk /\ Machine
      /\ UNCHANGED <<fifo_ch, fifo_num>>
  BY DEF Posedge, RestartSpi, registers
<1>2. Fallen' = -1 /\ BitsRead' = 0
  BY <1>1 DEF Fallen, BitsRead, Clamp
<1>3. chip_in' = <<>> /\ chip_bit' = DATA_BITS_NUM - 1
  <2>1. CASE CONVST(tick)
    <3>1. Fallen = tick /\ tick \in Nat /\ tick < tCLK_START
      BY <1>1, <2>1 DEF Fallen, CONVST, AdcTypeOK
    <3>2. Clamp(tick - tCLK_START, CMD_BITS_NUM) = 0 /\ BitsRead = 0
      BY <3>1 DEF Clamp, BitsRead
    <3>3. chip_in = <<>> /\ chip_bit = DATA_BITS_NUM - 1
      BY <3>2 DEF ShiftInv
    <3>. QED
      BY <1>1, <2>1, <3>3 DEF chip
  <2>2. CASE ~CONVST(tick)
    BY <1>1, <2>2 DEF Convert
  <2>. QED
    BY <2>1, <2>2
<1>4. AdcTypeOK'
  <2>1. tick' \in 0 .. tDONE
    BY <1>1
  <2>3. adc_clk' \in BOOLEAN /\ measure_done' \in BOOLEAN
    BY <1>1, Zenon
  <2>2. fifo_ch' \in Channels /\ config_ch' \in Channels \union {-1} /\ fifo_num' \in Nat
    BY <1>1 DEF AdcTypeOK
  <2>. QED
    BY <1>1, <2>1, <2>2, <2>3, MachineStarts DEF AdcTypeOK
<1>5. Clamp(tick' - tCLK_START, CMD_BITS_NUM) = 0
  BY <1>1 DEF Clamp
<1>6. read_data' = [i \in Bits(DATA_BITS_NUM) |->
                      IF i > chip_bit' THEN <<chip_ch', i>> ELSE NoBit]
  BY <1>1, <1>3 DEF Blank, Bits
<1>7. write_pos' = chip_bit' % 16
  BY <1>1, <1>3
<1>8. chip_in' = [k \in 1 .. Clamp(tick' - tCLK_START, CMD_BITS_NUM) |-> <<config_ch', k>>]
  BY <1>3, <1>5
<1>9. measure_start' => tick' = 0 /\ ~pre_start' /\ wait_done'
  BY <1>1, MachineStarts
<1>. QED
  BY <1>1, <1>2, <1>3, <1>4, <1>6, <1>7, <1>8, <1>9 DEF ShiftInv

\* SCK rises, or the measure is over.
LEMMA ShiftCounts ==
  ASSUME AdcTypeOK, ShiftInv, Posedge, ~(measure_start' /\ ~measure_start)
  PROVE  AdcTypeOK' /\ ShiftInv' /\ chip_ch' = chip_ch /\ config_ch' = config_ch
<1> USE AdcTimes
<1>1. /\ Count /\ Machine /\ ~adc_clk /\ adc_clk' = TRUE /\ UNCHANGED config
      /\ UNCHANGED <<fifo_ch, fifo_num>>
  BY DEF Posedge, registers
<1>2. /\ tick' = IF measure_start /\ ~pre_start THEN 0 ELSE Min({tick + 1, tDONE})
      /\ measure_done' =
           IF measure_start /\ ~pre_start THEN FALSE ELSE measure_done \/ tick = tDONE
      /\ UNCHANGED <<clk_enable, read_data, write_pos, config_ch, chip_ch, chip_bit, sdi, sdi_index>>
      /\ SckRises
  BY <1>1 DEF Count, config
<1>3. tick \in 0 .. tDONE /\ Fallen = tick /\ measure_done \in BOOLEAN
  BY <1>1 DEF AdcTypeOK, Fallen
<1>4. \/ tick = 0 /\ tick' = 0 /\ measure_done' = FALSE
      \/ tick' = tick + 1 /\ tick < tDONE /\ measure_done' = FALSE
      \/ tick = tDONE /\ tick' = tDONE /\ measure_done' = TRUE
  <2>1. Min({tick + 1, tDONE}) = IF tick < tDONE THEN tick + 1 ELSE tDONE
    BY <1>3, SmallerOfTwo
  <2>2. (measure_start => tick = 0 /\ ~pre_start) /\ (measure_done => tick = tDONE)
    BY DEF ShiftInv
  <2>3. CASE measure_start
    BY <1>2, <2>2, <2>3, Zenon
  <2>4. CASE ~measure_start /\ tick = tDONE
    <3>1. tick' = tDONE
      BY <1>2, <1>3, <2>1, <2>4
    <3>2. measure_done' = TRUE
      BY <1>2, <2>4, Zenon
    <3>. QED
      BY <2>4, <3>1, <3>2
  <2>5. CASE ~measure_start /\ tick # tDONE
    <3>1. tick < tDONE /\ measure_done = FALSE
      BY <1>3, <2>2, <2>5
    <3>2. tick' = tick + 1
      BY <1>2, <2>1, <2>5, <3>1
    <3>3. measure_done' = FALSE
      BY <1>2, <2>5, <3>1, Zenon
    <3>. QED
      BY <3>1, <3>2, <3>3
  <2>. QED
    BY <2>3, <2>4, <2>5
<1>5. Fallen' = tick' - 1
  BY <1>1 DEF Fallen
<1>6. ~measure_start'
  BY <1>1, MachineStarts
<1>7. AdcTypeOK'
  <2>1. tick' \in 0 .. tDONE
    BY <1>3, <1>4
  <2>3. adc_clk' \in BOOLEAN /\ measure_done' \in BOOLEAN
    BY <1>1, <1>4, Zenon
  <2>2. fifo_ch' \in Channels /\ config_ch' \in Channels \union {-1} /\ fifo_num' \in Nat
    BY <1>1, <1>2 DEF AdcTypeOK
  <2>. QED
    BY <1>1, <2>1, <2>2, <2>3, MachineStarts DEF AdcTypeOK
<1>8. clk_enable' <=> Fallen' >= tCLK_START /\ Fallen' < tCLK_END
  <2>1. clk_enable <=> Fallen >= tCLK_START /\ Fallen < tCLK_END
    BY DEF ShiftInv
  <2>. QED
    BY <1>2, <1>3, <1>4, <1>5, <2>1
<1>9. Fallen' \in tCONFIG_START .. tCONFIG_END => Fallen' = Fallen
  BY <1>3, <1>4, <1>5
<1>10. BitsRead' = BitsRead
  BY <1>3, <1>4, <1>5 DEF BitsRead, Clamp
<1>11. chip_in' = [k \in 1 .. Clamp(tick' - tCLK_START, CMD_BITS_NUM) |-> <<config_ch, k>>]
  <2> DEFINE n == Clamp(tick - tCLK_START, CMD_BITS_NUM)
             Upto(m) == [k \in 1 .. m |-> <<config_ch, k>>]
  <2>1. chip_in = Upto(n) /\ n \in 0 .. CMD_BITS_NUM
    <3>1. tick - tCLK_START \in Int
      BY <1>3
    <3>2. n \in 0 .. CMD_BITS_NUM
      BY <3>1 DEF Clamp
    <3>. QED
      BY <3>2 DEF ShiftInv
  <2>2. Len(chip_in) = n
    BY <2>1
  <2>3. CASE clk_enable /\ n < CMD_BITS_NUM
    <3>1. tick \in tCLK_START .. tCONFIG_END /\ n = tick - tCLK_START
      BY <1>3, <2>3 DEF ShiftInv, Clamp
    <3>2. sdi = <<config_ch, n + 1>>
      <4>1. Fallen \in tCONFIG_START .. tCONFIG_END
        BY <1>3, <3>1
      <4>2. n = Clamp(Fallen - tCLK_START, CMD_BITS_NUM)
        BY <1>3
      <4>. QED
        BY <2>1, <4>1, <4>2 DEF ShiftInv
    <3>3. chip_in' = Append(chip_in, sdi)
      BY <1>2, <2>2, <2>3 DEF SckRises
    <3>4. Clamp(tick' - tCLK_START, CMD_BITS_NUM) = n + 1
      BY <1>3, <1>4, <3>1 DEF Clamp
    <3>5. Append(Upto(n), <<config_ch, n + 1>>) = Upto(n + 1)
      <4> HIDE DEF n
      <4>. QED
        BY <2>1
    <3>. QED
      BY <2>1, <3>2, <3>3, <3>4, <3>5
  <2>4. CASE ~(clk_enable /\ n < CMD_BITS_NUM)
    <3>1. chip_in' = chip_in
      BY <1>2, <2>2, <2>4 DEF SckRises
    <3>2. Clamp(tick' - tCLK_START, CMD_BITS_NUM) = n
      <4>1. n < CMD_BITS_NUM => ~(tick >= tCLK_START /\ tick < tCLK_END)
        BY <1>3, <2>4 DEF ShiftInv
      <4>2. tick < tCLK_START \/ tick > tCONFIG_END
        BY <1>3, <4>1 DEF Clamp
      <4>. QED
        BY <1>3, <1>4, <4>2 DEF Clamp
    <3>. QED
      BY <2>1, <3>1, <3>2
  <2>. QED
    BY <2>3, <2>4
<1>12. measure_done' => tick' = tDONE
  BY <1>4
<1>13. Fallen' \in tCONFIG_START .. tCONFIG_END =>
         LET k == 1 + Clamp(Fallen' - tCLK_START, CMD_BITS_NUM)
         IN sdi' = <<config_ch', k>> /\ sdi_index' = k + 1
  BY <1>2, <1>9 DEF ShiftInv
<1>14. chip_bit' = DATA_BITS_NUM - 1 - BitsRead'
  BY <1>2, <1>10 DEF ShiftInv
<1>15. config_ch' # -1 =>
         /\ write_pos' = chip_bit' % 16
         /\ read_data' = [i \in Bits(DATA_BITS_NUM) |->
                            IF i > chip_bit' THEN <<chip_ch', i>> ELSE NoBit]
  BY <1>2 DEF ShiftInv
<1>16. ShiftInv'
  BY <1>2, <1>6, <1>8, <1>11, <1>12, <1>13, <1>14, <1>15 DEF ShiftInv
<1>. QED
  BY <1>2, <1>7, <1>16

LEMMA CommandGoesOut ==
  ASSUME SendCommand, tick \in Nat
  PROVE  /\ tick = tCONFIG_START => sdi' = <<config_ch, 1>> /\ sdi_index' = 2
         /\ tick > tCONFIG_START /\ tick <= tCLK_START => UNCHANGED <<sdi, sdi_index>>
         /\ tick > tCLK_START /\ tick <= tCONFIG_END =>
              sdi' = <<config_ch, sdi_index>> /\ sdi_index' = sdi_index + 1
<1> DEFINE first == tick = tCONFIG_START
           more == tick > tCLK_START /\ tick <= tCONFIG_END
           over == tick > tCONFIG_END
<1>1. /\ first => ~more /\ ~over
      /\ more => ~first /\ ~over
      /\ tick > tCONFIG_START /\ tick <= tCLK_START => ~first /\ ~more /\ ~over
  BY AdcTimes
<1>2. (CASE first -> sdi' = <<config_ch, 1>> /\ sdi_index' = 2
         [] more -> sdi' = <<config_ch, sdi_index>> /\ sdi_index' = sdi_index + 1
         [] over -> sdi' = NoBit /\ UNCHANGED sdi_index
         [] OTHER -> UNCHANGED config)
  BY Zenon DEF SendCommand
<1> HIDE DEF first, more, over
<1>3. /\ first => sdi' = <<config_ch, 1>> /\ sdi_index' = 2
      /\ more => sdi' = <<config_ch, sdi_index>> /\ sdi_index' = sdi_index + 1
      /\ ~first /\ ~more /\ ~over => UNCHANGED config
  BY <1>1, <1>2
<1>. QED
  BY <1>1, <1>3 DEF first, more, over, config

\* SCK falls, if it was high: a bit is read.
LEMMA ShiftFalls ==
  ASSUME AdcTypeOK, ShiftInv, Negedge
  PROVE  AdcTypeOK' /\ ShiftInv' /\ chip_ch' = chip_ch /\ config_ch' = config_ch
<1> USE AdcTimes
<1>1. /\ adc_clk /\ adc_clk' = FALSE
      /\ clk_enable' = (tick >= tCLK_START /\ tick < tCLK_END)
      /\ ReadBit /\ SendCommand
      /\ UNCHANGED <<fifo_ch, fifo_num, measure_start, wait_done, pre_start, tick,
                     measure_done, config_ch, chip_ch, chip_in>>
  BY DEF Negedge, registers, machine
<1>2. tick \in 0 .. tDONE /\ Fallen = tick - 1 /\ Fallen' = tick
  BY <1>1 DEF AdcTypeOK, Fallen
<1>3. AdcTypeOK'
  BY <1>1 DEF AdcTypeOK
<1>11. /\ tick = tCONFIG_START => sdi' = <<config_ch, 1>> /\ sdi_index' = 2
       /\ tick > tCONFIG_START /\ tick <= tCLK_START => UNCHANGED <<sdi, sdi_index>>
       /\ tick > tCLK_START /\ tick <= tCONFIG_END =>
            sdi' = <<config_ch, sdi_index>> /\ sdi_index' = sdi_index + 1
  <2>1. tick \in Nat
    BY <1>2
  <2>. QED
    BY <1>1, <2>1, CommandGoesOut, Zenon
<1>4. clk_enable' <=> Fallen' >= tCLK_START /\ Fallen' < tCLK_END
  BY <1>1, <1>2
<1>5. Fallen' \in tCONFIG_START .. tCONFIG_END =>
        LET k == 1 + Clamp(Fallen' - tCLK_START, CMD_BITS_NUM)
        IN sdi' = <<config_ch', k>> /\ sdi_index' = k + 1
  <2> SUFFICES ASSUME tick \in tCONFIG_START .. tCONFIG_END
               PROVE  LET k == 1 + Clamp(tick - tCLK_START, CMD_BITS_NUM)
                      IN sdi' = <<config_ch, k>> /\ sdi_index' = k + 1
    BY <1>1, <1>2
  <2>1. CASE tick = tCONFIG_START
    <3>1. sdi' = <<config_ch, 1>> /\ sdi_index' = 2
      BY <1>11, <2>1
    <3>2. Clamp(tick - tCLK_START, CMD_BITS_NUM) = 0
      BY <2>1 DEF Clamp
    <3>. QED
      BY <3>1, <3>2
  <2>2. CASE tick > tCONFIG_START
    <3>1. Fallen \in tCONFIG_START .. tCONFIG_END
      BY <1>2, <2>2
    <3> DEFINE j == Clamp(tick - 1 - tCLK_START, CMD_BITS_NUM)
               k == Clamp(tick - tCLK_START, CMD_BITS_NUM)
    <3>2. sdi = <<config_ch, 1 + j>> /\ sdi_index = j + 2
      BY <1>2, <3>1 DEF ShiftInv, Clamp
    <3>3. CASE tick <= tCLK_START
      <4>1. j = 0 /\ k = 0
        BY <1>2, <3>3 DEF Clamp
      <4>2. UNCHANGED <<sdi, sdi_index>>
        BY <1>2, <1>11, <2>2, <3>3
      <4>. QED
        BY <3>2, <4>1, <4>2
    <3>4. CASE tick > tCLK_START
      <4>1. k = j + 1 /\ j \in Nat
        BY <1>2, <3>4 DEF Clamp
      <4>2. sdi' = <<config_ch, sdi_index>> /\ sdi_index' = sdi_index + 1
        BY <1>2, <1>11, <2>2, <3>4
      <4> HIDE DEF j, k
      <4>3. sdi' = <<config_ch, 1 + k>> /\ sdi_index' = 1 + k + 1
        BY <3>2, <4>1, <4>2
      <4>. QED
        BY <4>1, <4>3 DEF k
    <3>. QED
      BY <1>2, <3>3, <3>4
  <2>. QED
    BY <1>2, <2>1, <2>2
<1>6. chip_in' = [k \in 1 .. Clamp(tick' - tCLK_START, CMD_BITS_NUM) |-> <<config_ch', k>>]
  BY <1>1 DEF ShiftInv
<1>7. chip_bit = DATA_BITS_NUM - 1 - BitsRead /\ BitsRead \in 0 .. DATA_BITS_NUM
  BY <1>2 DEF ShiftInv, BitsRead, Clamp
<1>8. /\ chip_bit' = DATA_BITS_NUM - 1 - BitsRead'
      /\ config_ch' # -1 =>
           /\ write_pos' = chip_bit' % 16
           /\ read_data' = [i \in Bits(DATA_BITS_NUM) |->
                              IF i > chip_bit' THEN <<chip_ch', i>> ELSE NoBit]
  <2>1. CASE clk_enable
    <3>1. Fallen >= tCLK_START /\ Fallen < tCLK_END
      BY <2>1 DEF ShiftInv
    <3>2. BitsRead' = BitsRead + 1 /\ BitsRead < DATA_BITS_NUM
      BY <1>2, <3>1 DEF BitsRead, Clamp
    <3>3. /\ read_data' = [i \in DOMAIN read_data |->
                             IF i = write_pos THEN <<chip_ch, chip_bit>> ELSE read_data[i]]
          /\ write_pos' = (write_pos - 1) % 16 /\ chip_bit' = chip_bit - 1
      BY <1>1, <2>1 DEF ReadBit
    <3>4. chip_bit \in 0 .. 15 /\ chip_bit % 16 = chip_bit
      BY <1>7, <3>2
    <3>5. ASSUME config_ch # -1
          PROVE  /\ write_pos = chip_bit
                 /\ read_data = [i \in Bits(DATA_BITS_NUM) |->
                                   IF i > chip_bit THEN <<chip_ch, i>> ELSE NoBit]
      BY <3>4, <3>5 DEF ShiftInv
    <3>6. ASSUME config_ch # -1
          PROVE  read_data' = [i \in Bits(DATA_BITS_NUM) |->
                                 IF i > chip_bit - 1 THEN <<chip_ch, i>> ELSE NoBit]
      <4>1. \A i \in Bits(DATA_BITS_NUM) :
              i \in Int /\ (i > chip_bit - 1 <=> i = chip_bit \/ i > chip_bit)
        BY <3>4 DEF Bits
      <4>. QED
        BY <3>3, <3>5, <3>6, <4>1
    <3>. QED
      BY <1>1, <1>7, <3>2, <3>3, <3>5, <3>6
  <2>2. CASE ~clk_enable
    <3>1. ~(Fallen >= tCLK_START /\ Fallen < tCLK_END)
      BY <2>2 DEF ShiftInv
    <3>2. BitsRead' = BitsRead
      BY <1>2, <3>1 DEF BitsRead, Clamp
    <3>3. UNCHANGED <<read_data, write_pos, chip_bit>>
      BY <1>1, <2>2 DEF ReadBit
    <3>. QED
      BY <1>1, <1>7, <3>2, <3>3 DEF ShiftInv
  <2>. QED
    BY <2>1, <2>2
<1>9. /\ measure_start' => tick' = 0 /\ ~pre_start' /\ wait_done'
      /\ measure_done' => tick' = tDONE
  BY <1>1 DEF ShiftInv
<1>10. ShiftInv'
  BY <1>4, <1>5, <1>6, <1>8, <1>9 DEF ShiftInv
<1>. QED
  BY <1>1, <1>3, <1>10

Asked == steady /\ ~missed

\* What the converter has read when a measure is over is the command for its channel.
LEMMA MeasureOver ==
  ASSUME AdcTypeOK, ShiftInv, measure_done, config_ch = fifo_ch
  PROVE  /\ Commanded = fifo_ch
         /\ chip_ch = fifo_ch => read_data = WholeSample
         /\ ~CONVST(tick) /\ ~measure_start
<1> USE AdcTimes
<1>1. tick = tDONE /\ ~measure_start /\ fifo_ch \in Channels /\ fifo_ch # -1
  BY AdcAssumption, SMTT(30) DEF AdcTypeOK, ShiftInv
<1>2. Clamp(tick - tCLK_START, CMD_BITS_NUM) = CMD_BITS_NUM /\ BitsRead = DATA_BITS_NUM
  BY <1>1 DEF Clamp, BitsRead, Fallen
<1>3. chip_in = [k \in 1 .. CMD_BITS_NUM |-> <<fifo_ch, k>>] /\ chip_bit = -1
  BY <1>2 DEF ShiftInv
<1>4. Commanded = fifo_ch
  <2>1. Head(chip_in) = <<fifo_ch, 1>>
    BY <1>3
  <2>. QED
    BY <1>1, <1>3, <2>1 DEF Commanded
<1>5. read_data = [i \in Bits(DATA_BITS_NUM) |-> IF i > -1 THEN <<chip_ch, i>> ELSE NoBit]
  BY <1>1, <1>3 DEF ShiftInv
<1>6. \A i \in Bits(DATA_BITS_NUM) : i > -1
  BY DEF Bits
<1>7. chip_ch = fifo_ch => read_data = WholeSample
  BY <1>5, <1>6 DEF WholeSample
<1>8. ~CONVST(tick)
  BY <1>1 DEF CONVST
<1>. QED
  BY <1>1, <1>4, <1>7, <1>8

\* The processor's accesses move nothing in the converter.
LEMMA ShiftLeft ==
  ASSUME AdcTypeOK, ShiftInv,
         UNCHANGED <<adc_clk, pre_start, spi, config, chip>>,
         UNCHANGED <<measure_start, wait_done>> \/ (measure_start' = FALSE /\ wait_done' = FALSE),
         fifo_ch' \in Channels, fifo_num' \in Nat
  PROVE  AdcTypeOK' /\ ShiftInv'
<1>1. UNCHANGED <<adc_clk, pre_start, tick, clk_enable, read_data, write_pos, measure_done,
                  config_ch, sdi, sdi_index, chip_ch, chip_in, chip_bit>>
  BY DEF spi, config, chip
<1>2. AdcTypeOK'
  BY <1>1 DEF AdcTypeOK
<1>3. Fallen' = Fallen /\ BitsRead' = BitsRead
  BY <1>1 DEF Fallen, BitsRead
<1>4. measure_start' => tick' = 0 /\ ~pre_start' /\ wait_done'
  <2>1. CASE measure_start' = FALSE
    BY <2>1
  <2>2. CASE UNCHANGED <<measure_start, wait_done>>
    <3>1. measure_start => tick = 0 /\ ~pre_start /\ wait_done
      BY Zenon DEF ShiftInv
    <3>. QED
      BY <1>1, <2>2, <3>1
  <2>. QED
    BY <2>1, <2>2
<1>5. ShiftInv'
  BY <1>1, <1>3, <1>4 DEF ShiftInv
<1>. QED
  BY <1>2, <1>5

LEMMA SampleWriteStart ==
  ASSUME SampleInv, NEW ch \in Channels, NEW start \in BOOLEAN, WriteStart(ch, start)
  PROVE  SampleInv'
<1>1. /\ fifo_ch' = ch /\ fifo_start' = start
      /\ IF start /\ ~pre_fifo_start THEN ResetMachine ELSE UNCHANGED <<machine, fifo>>
      /\ IF start /\ ~fifo_start
         THEN steady' = TRUE /\ missed' = pre_fifo_start /\ written' = 0
         ELSE /\ steady' = (steady /\ ch = fifo_ch /\ start = fifo_start)
              /\ UNCHANGED <<missed, written>>
      /\ UNCHANGED <<fifo_num, pre_fifo_start, adc_clk, pre_start, spi, config, chip>>
  BY DEF WriteStart
<1>2. AdcTypeOK' /\ ShiftInv'
  <2>1. UNCHANGED <<measure_start, wait_done>> \/ (measure_start' = FALSE /\ wait_done' = FALSE)
    BY <1>1 DEF ResetMachine, machine
  <2>2. fifo_ch' \in Channels /\ fifo_num' \in Nat
    BY <1>1 DEF SampleInv, AdcTypeOK
  <2>. QED
    BY <1>1, <2>1, <2>2, ShiftLeft DEF SampleInv
<1>3. ASSUME ResetMachine, written' = 0, fifo_start' = TRUE
      PROVE  CountInv'
  <2>1. /\ measure_start' = FALSE /\ config_first' = TRUE /\ measure_count' = 0
        /\ fifo_done' = FALSE /\ wait_done' = FALSE /\ pre_measure_done' = FALSE
        /\ fifo' = <<>>
    BY <1>3 DEF ResetMachine
  <2>2. fifo' \in Seq({WholeSample'}) /\ Len(fifo') <= written'
    BY <1>3, <2>1
  <2>. QED
    BY <1>3, <2>1, <2>2 DEF CountInv
<1> SUFFICES ASSUME Asked' PROVE CountInv'
  BY <1>2 DEF SampleInv, Asked
<1>4. CASE start /\ ~fifo_start
  <2>1. ~pre_fifo_start
    BY <1>1, <1>4 DEF Asked
  <2>. QED
    BY <1>1, <1>3, <1>4, <2>1
<1>5. CASE ~(start /\ ~fifo_start)
  <2>1. Asked /\ ch = fifo_ch /\ start = fifo_start /\ written' = written
    BY <1>1, <1>5 DEF Asked
  <2>2. CountInv /\ start = TRUE
    BY <2>1 DEF SampleInv, Asked, CountInv
  <2>3. CASE pre_fifo_start
    <3>1. UNCHANGED <<fifo_ch, fifo_start, fifo_num, pre_fifo_start, fifo, written,
                      fifo_done, measure_start, config_first, wait_done, measure_count,
                      pre_measure_done, measure_done, config_ch, chip_ch>>
      BY <1>1, <2>1, <2>2, <2>3 DEF machine, spi, chip
    <3>. QED
      BY <2>2, <3>1 DEF CountInv, WholeSample
  <2>4. CASE ~pre_fifo_start
    <3>1. written' = 0 /\ fifo_start' = TRUE
      BY <1>1, <2>1, <2>2, <2>4 DEF CountInv
    <3>. QED
      BY <1>1, <1>3, <2>2, <2>4, <3>1
  <2>. QED
    BY <2>3, <2>4
<1>. QED
  BY <1>4, <1>5

LEMMA SampleWriteNum ==
  ASSUME SampleInv, NEW n \in Nums, WriteNum(n)
  PROVE  SampleInv'
<1>1. /\ fifo_num' = n /\ n \in Nat /\ steady' = FALSE /\ UNCHANGED fifo_ch
      /\ UNCHANGED <<measure_start, wait_done>>
      /\ UNCHANGED <<adc_clk, pre_start, spi, config, chip>>
  BY AdcAssumption, SMTT(30) DEF WriteNum, machine
<1>2. AdcTypeOK' /\ ShiftInv'
  BY <1>1, ShiftLeft DEF SampleInv, AdcTypeOK
<1>. QED
  BY <1>1, <1>2 DEF SampleInv

LEMMA SampleReadValue ==
  ASSUME SampleInv, ReadValue
  PROVE  SampleInv'
<1>1. /\ fifo # <<>> /\ fifo' = Tail(fifo)
      /\ UNCHANGED <<registers, pre_fifo_start, machine, adc_clk, pre_start, spi,
                     config, chip, steady, missed, written>>
  BY DEF ReadValue
<1>2. UNCHANGED <<fifo_ch, fifo_start, fifo_num, fifo_done, measure_start, config_first,
                  wait_done, measure_count, pre_measure_done, measure_done, config_ch, chip_ch>>
  BY <1>1 DEF registers, machine, spi, chip
<1>3. AdcTypeOK' /\ ShiftInv'
  <2>1. fifo_ch' \in Channels /\ fifo_num' \in Nat
    BY <1>2 DEF SampleInv, AdcTypeOK
  <2>. QED
    BY <1>1, <1>2, <2>1, ShiftLeft DEF SampleInv
<1>4. ASSUME CountInv PROVE CountInv'
  <2>1. fifo \in Seq({WholeSample}) /\ Len(fifo) <= written /\ WholeSample' = WholeSample
    BY <1>2, <1>4 DEF CountInv, WholeSample
  <2>2. written \in Int
    BY <1>4 DEF CountInv
  <2>3. Tail(fifo) \in Seq({WholeSample}) /\ Len(Tail(fifo)) <= written
    BY <1>1, <2>1, <2>2
  <2>. QED
    BY <1>1, <1>2, <1>4, <2>1, <2>3 DEF CountInv
<1>. QED
  BY <1>1, <1>3, <1>4 DEF SampleInv

LEMMA SampleNegedge ==
  ASSUME SampleInv, Negedge
  PROVE  SampleInv'
<1>1. AdcTypeOK' /\ ShiftInv' /\ chip_ch' = chip_ch /\ config_ch' = config_ch
  BY ShiftFalls DEF SampleInv
<1>2. UNCHANGED <<fifo_ch, fifo_start, fifo_num, pre_fifo_start, fifo, written,
                  fifo_done, measure_start, config_first, wait_done, measure_count,
                  pre_measure_done, measure_done, steady, missed>>
  BY DEF Negedge, registers, machine
<1>3. CountInv => CountInv'
  BY <1>1, <1>2 DEF CountInv, WholeSample
<1>. QED
  BY <1>1, <1>2, <1>3 DEF SampleInv

LEMMA SamplePosedge ==
  ASSUME SampleInv, Posedge
  PROVE  SampleInv'
<1>1. AdcTypeOK /\ ShiftInv /\ Machine
  BY DEF SampleInv, Posedge
<1>2. AdcTypeOK' /\ ShiftInv'
  BY <1>1, ShiftRestarts, ShiftCounts
<1> SUFFICES ASSUME Asked PROVE CountInv'
  BY <1>2 DEF SampleInv, Asked, Posedge
<1>3. CountInv
  BY DEF SampleInv, Asked
<1>4. /\ UNCHANGED <<fifo_ch, fifo_start, fifo_num>> /\ fifo_start /\ fifo_num \in Nat
      /\ pre_fifo_start' = fifo_start /\ WholeSample' = WholeSample
      /\ measure_done \in BOOLEAN
  BY <1>1, <1>3 DEF Posedge, registers, CountInv, AdcTypeOK, WholeSample
<1>5. CASE StartPending
  <2>1. /\ ResetMachine /\ written' = written /\ written = 0
    BY <1>1, <1>3, <1>5 DEF Machine, StartPending, CountInv
  <2>2. /\ measure_start' = FALSE /\ config_first' = TRUE /\ measure_count' = 0
        /\ fifo_done' = FALSE /\ wait_done' = FALSE /\ fifo' = <<>>
    BY <2>1 DEF ResetMachine
  <2>3. fifo' \in Seq({WholeSample'}) /\ Len(fifo') <= written'
    BY <2>1, <2>2
  <2>. QED
    BY <1>4, <2>1, <2>2, <2>3 DEF CountInv
<1> SUFFICES ASSUME ~StartPending PROVE CountInv'
  BY <1>5
<1>6. /\ BeginMeasure \/ EndMeasure \/ Idle
      /\ pre_measure_done' = measure_done /\ StoreSample
      /\ pre_fifo_start' /\ fifo_start'
  BY <1>1, <1>4 DEF Machine
<1>7. CASE BeginMeasure
  <2>1. /\ ~fifo_done /\ ~measure_start /\ ~wait_done
        /\ measure_start' = TRUE /\ wait_done' = TRUE
        /\ UNCHANGED <<fifo_done, config_first, measure_count>>
    BY <1>7 DEF BeginMeasure
  <2>2. RestartSpi /\ measure_done' = FALSE /\ config_ch' = fifo_ch
    BY <2>1 DEF Posedge, RestartSpi
  <2>3. ~Wrreq
    BY <1>3, <2>1 DEF Wrreq, CountInv
  <2>4. UNCHANGED <<fifo, written>>
    BY <1>6, <2>3 DEF StoreSample
  <2>5. ASSUME ~config_first PROVE chip_ch' = fifo_ch
    <3>1. config_ch = fifo_ch /\ measure_done
      BY <1>3, <2>1, <2>5 DEF CountInv
    <3>2. Commanded = fifo_ch /\ ~CONVST(tick)
      BY <1>1, <3>1, MeasureOver
    <3>. QED
      BY <2>2, <3>2 DEF RestartSpi, Convert
  <2>. QED
    BY <1>3, <1>4, <1>6, <2>1, <2>2, <2>4, <2>5 DEF CountInv
<1>8. CASE ~BeginMeasure
  <2>1. ~(measure_start' /\ ~measure_start)
    BY <1>6, <1>8, <1>1 DEF EndMeasure, Idle
  <2>2. /\ chip_ch' = chip_ch /\ config_ch' = config_ch /\ Count
    BY <1>1, <2>1, ShiftCounts DEF Posedge
  <2>3. measure_done => measure_done' /\ ~measure_start
    <3>1. measure_done => tick = tDONE /\ tick # 0
      BY AdcTimes DEF SampleInv, ShiftInv
    <3>2. measure_start => tick = 0
      BY DEF SampleInv, ShiftInv
    <3>. QED
      BY <2>2, <3>1, <3>2 DEF Count
  <2>4. CASE Idle
    <3>1. ~wait_done /\ (fifo_done \/ measure_start)
          /\ (measure_start => wait_done)
      BY <1>1, <2>4 DEF Idle, ShiftInv
    <3>. QED
      BY <1>3, <3>1 DEF CountInv
  <2>5. CASE EndMeasure
    <3>1. wait_done /\ measure_start' = FALSE
      BY <2>5 DEF EndMeasure
    <3>2. CASE ~measure_done
      <4>1. UNCHANGED <<fifo_done, config_first, wait_done, measure_count>>
        BY <2>5, <3>2 DEF EndMeasure
      <4>2. UNCHANGED <<fifo, written>>
        BY <1>6, <3>2 DEF StoreSample, Wrreq
      <4>3. ~config_first => ~fifo_done /\ measure_count # 0 /\ chip_ch = fifo_ch
        BY <1>3, <3>2 DEF CountInv
      <4>. QED
        BY <1>3, <1>4, <1>6, <2>2, <3>1, <3>2, <4>1, <4>2, <4>3 DEF CountInv
    <3>3. CASE measure_done /\ config_first
      <4>1. config_first' = FALSE /\ UNCHANGED <<fifo_done, wait_done, measure_count>>
        BY <2>5, <3>3 DEF EndMeasure
      <4>2. UNCHANGED <<fifo, written>>
        BY <1>6, <3>3 DEF StoreSample, Wrreq
      <4>3. measure_done' /\ pre_measure_done'
        BY <1>6, <2>3, <3>3
      <4>. QED
        BY <1>3, <1>4, <1>6, <2>2, <3>1, <3>3, <4>1, <4>2, <4>3 DEF CountInv
    <3>4. CASE measure_done /\ ~config_first
      <4>1. /\ fifo \in Seq({WholeSample}) /\ Len(fifo) <= written
            /\ config_ch = fifo_ch /\ measure_count \in 0 .. fifo_num
            /\ fifo_done => measure_count = fifo_num
            /\ written = IF fifo_done \/ measure_count = 0 THEN measure_count
                         ELSE measure_count - 1
            /\ IF fifo_done \/ measure_count = 0 THEN pre_measure_done
               ELSE chip_ch = fifo_ch /\ ~pre_measure_done
        BY <1>3, <3>1, <3>4 DEF CountInv
      <4>2. /\ fifo' \in Seq({WholeSample}) /\ Len(fifo') <= written'
            /\ written' = measure_count
        <5>1. CASE fifo_done \/ measure_count = 0
          <6>1. UNCHANGED <<fifo, written>>
            BY <1>6, <4>1, <5>1 DEF StoreSample, Wrreq
          <6>. QED
            BY <4>1, <5>1, <6>1
        <5>2. CASE ~(fifo_done \/ measure_count = 0)
          <6>1. read_data = WholeSample
            BY <1>1, <3>4, <4>1, <5>2, MeasureOver
          <6>2. /\ fifo' = IF Len(fifo) < FifoWords THEN Append(fifo, read_data) ELSE fifo
                /\ written' = written + 1
            BY <1>6, <3>4, <4>1, <5>2 DEF StoreSample, Wrreq
          <6>3. Append(fifo, read_data) \in Seq({WholeSample})
                /\ Len(Append(fifo, read_data)) = Len(fifo) + 1 /\ Len(fifo) \in Nat
            BY <4>1, <6>1
          <6>. QED
            BY <1>4, <4>1, <5>2, <6>2, <6>3
        <5>. QED
          BY <5>1, <5>2
      <4>3. measure_done' /\ pre_measure_done'
        BY <1>6, <2>3, <3>4
      <4>4. CASE measure_count < fifo_num
        <5>1. /\ measure_count' = measure_count + 1 /\ wait_done' = FALSE
              /\ UNCHANGED <<fifo_done, config_first>>
          BY <2>5, <3>4, <4>4 DEF EndMeasure
        <5>2. ~fifo_done /\ measure_count' \in 1 .. fifo_num
          BY <1>4, <4>1, <4>4, <5>1
        <5>3. written' = measure_count' - 1
          BY <4>1, <4>2, <5>1
        <5>. QED
          BY <1>4, <1>6, <2>2, <3>1, <3>4, <4>1, <4>2, <4>3, <5>1, <5>2, <5>3 DEF CountInv
      <4>5. CASE ~(measure_count < fifo_num)
        <5>1. /\ fifo_done' = TRUE
              /\ UNCHANGED <<config_first, wait_done, measure_count>>
          BY <2>5, <3>4, <4>5 DEF EndMeasure
        <5>2. measure_count = fifo_num
          BY <1>4, <4>1, <4>5
        <5>. QED
          BY <1>4, <1>6, <2>2, <3>1, <3>4, <4>1, <4>2, <4>3, <5>1, <5>2 DEF CountInv
      <4>. QED
        BY <4>4, <4>5
    <3>. QED
      BY <3>2, <3>3, <3>4, <1>4
  <2>. QED
    BY <1>6, <1>8, <2>4, <2>5
<1>. QED
  BY <1>7, <1>8

LEMMA SampleStart == AdcInit => SampleInv
<1> SUFFICES ASSUME AdcInit PROVE SampleInv
  OBVIOUS
<1> USE AdcTimes
<1>1. /\ tick = 0 /\ clk_enable = FALSE /\ adc_clk = FALSE /\ chip_in = <<>>
      /\ chip_bit = DATA_BITS_NUM - 1 /\ config_ch = -1 /\ measure_start = FALSE
      /\ measure_done = FALSE /\ wait_done = FALSE /\ fifo_ch = 0 /\ fifo_num = 0
      /\ steady = FALSE
  BY DEF AdcInit
<1>2. AdcTypeOK
  <2>1. fifo_ch \in Channels
    BY <1>1, AdcAssumption
  <2>2. /\ adc_clk \in BOOLEAN /\ measure_start \in BOOLEAN /\ measure_done \in BOOLEAN
        /\ wait_done \in BOOLEAN
    BY <1>1, Zenon
  <2>3. tick \in 0 .. tDONE /\ fifo_num \in Nat /\ config_ch \in Channels \union {-1}
    BY <1>1
  <2>. QED
    BY <2>1, <2>2, <2>3 DEF AdcTypeOK
<1>3. Fallen = 0 /\ BitsRead = 0 /\ Clamp(tick - tCLK_START, CMD_BITS_NUM) = 0
  BY <1>1 DEF Fallen, BitsRead, Clamp
<1>4. ShiftInv
  BY <1>1, <1>3 DEF ShiftInv
<1>. QED
  BY <1>1, <1>2, <1>4 DEF SampleInv

LEMMA SampleStep == SampleInv /\ [AdcNext]_adcVars => SampleInv'
<1> SUFFICES ASSUME SampleInv, [AdcNext]_adcVars PROVE SampleInv'
  OBVIOUS
<1>1. CASE UNCHANGED adcVars
  <2>1. UNCHANGED <<adc_clk, pre_start, spi, config, chip>>
        /\ UNCHANGED <<measure_start, wait_done>>
        /\ UNCHANGED <<fifo_ch, fifo_start, fifo_num, pre_fifo_start, fifo, written,
                  fifo_done, measure_start, config_first, wait_done, measure_count,
                  pre_measure_done, measure_done, config_ch, chip_ch, steady, missed>>
    BY <1>1 DEF adcVars, registers, machine, spi, chip
  <2>2. AdcTypeOK' /\ ShiftInv'
    <3>1. fifo_ch' \in Channels /\ fifo_num' \in Nat
      BY <2>1 DEF SampleInv, AdcTypeOK
    <3>. QED
      BY <2>1, <3>1, ShiftLeft DEF SampleInv
  <2>3. CountInv => CountInv'
    BY <2>1 DEF CountInv, WholeSample
  <2>. QED
    BY <2>1, <2>2, <2>3 DEF SampleInv
<1>2. CASE AdcNext
  BY <1>2, SampleWriteStart, SampleWriteNum, SampleReadValue, SamplePosedge, SampleNegedge,
     Zenon DEF AdcNext
<1>. QED
  BY <1>1, <1>2

LEMMA SamplesAreWhole == SampleInv => AdcInv
<1> SUFFICES ASSUME CountInv, fifo_num \in Nat
             PROVE  /\ \A i \in DOMAIN fifo :
                         fifo[i] = [k \in Bits(DATA_BITS_NUM) |-> <<fifo_ch, k>>]
                    /\ written <= fifo_num /\ Len(fifo) <= written
                    /\ fifo_done => written = fifo_num
  BY DEF SampleInv, AdcInv, AdcTypeOK
<1>1. \A i \in DOMAIN fifo : fifo[i] = WholeSample
  BY DEF CountInv
<1>2. Len(fifo) <= written
  BY DEF CountInv
<1>3. written <= fifo_num /\ (fifo_done => written = fifo_num)
  BY DEF CountInv
<1>. QED
  BY <1>1, <1>2, <1>3 DEF WholeSample

\* The samples that a start which the controller noticed brings are whole, of the
\* channel that was asked for, and as many as were asked for.
THEOREM SamplingInvariance == Spec => []AdcInv
<1>1. Init => SampleInv
  BY SampleStart, Zenon DEF Init
<1>2. SampleInv /\ [Next]_libraryVars => SampleInv'
  BY PartSteps, SampleStep
<1>. QED
  BY <1>1, <1>2, SamplesAreWhole, PTL DEF Spec
=============================================================================
