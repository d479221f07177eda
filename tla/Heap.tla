-------------------------------- MODULE Heap --------------------------------
(***************************************************************************)
(* The end of the heap: alt_sbrk.c moves heap_end between the addresses    *)
(* the linker gives it.  It may be called by the thread, through newlib's  *)
(* malloc, and by an interrupt handler, through the profiling code, and    *)
(* keeps interrupts off from its first step to its last.                   *)
(***************************************************************************)
EXTENDS Integers

CONSTANTS
  HeapStart, HeapLimit,   \* __alt_heap_start, __alt_heap_limit
  WordSize,               \* heap_end is rounded up to a multiple of it
  Increments              \* the arguments sbrk is called with

ASSUME HeapAssumption ==
  /\ HeapStart \in Nat /\ HeapLimit \in Nat /\ HeapStart <= HeapLimit
  /\ WordSize \in Nat \ {0}
  /\ Increments \subseteq Int

VARIABLES
  heap_end,
  sbrk_pc, incr,          \* the thread's call: where it is, its argument
  prev_heap_end,
  heap_pie,               \* interrupts are enabled
  holders                 \* history: how many blocks each byte belongs to

heapVars == <<heap_end, sbrk_pc, incr, prev_heap_end, heap_pie, holders>>

Heap == HeapStart .. HeapLimit - 1

\* (heap_end + 3) & ~3
WordUp(a) == a + ((-a) % WordSize)

\* The bytes from a up to b get one holder more; those from b on, which a
\* negative increment gives back, lose all of theirs.
Held(a, b) ==
  [x \in Heap |-> IF x >= b THEN 0
                  ELSE IF x >= a THEN holders[x] + 1 ELSE holders[x]]

HeapInit ==
  /\ heap_end = HeapStart
  /\ sbrk_pc = "idle" /\ incr = 0 /\ prev_heap_end = HeapStart
  /\ heap_pie = TRUE
  /\ holders = [x \in Heap |-> 0]

\* malloc gives back no more than it holds.
Fits(k) == k >= 0 \/ heap_end + k >= HeapStart

\* Mutant: interrupts stay on.
SbrkCall_Open(k) ==
  /\ sbrk_pc = "idle"
  /\ Fits(k)
  /\ sbrk_pc' = "round" /\ incr' = k
  /\ UNCHANGED <<heap_end, prev_heap_end, heap_pie, holders>>

\* context = alt_irq_disable_all()
SbrkCall(k) ==
  /\ sbrk_pc = "idle"
  /\ Fits(k)
  /\ sbrk_pc' = "round" /\ incr' = k
  /\ heap_pie' = FALSE
  /\ UNCHANGED <<heap_end, prev_heap_end, holders>>

\* heap_end is rounded up even when the call goes on to fail.
SbrkRound ==
  /\ sbrk_pc = "round"
  /\ heap_end' = WordUp(heap_end)
  /\ sbrk_pc' = "check"
  /\ UNCHANGED <<incr, prev_heap_end, heap_pie, holders>>

SbrkFail ==
  /\ sbrk_pc = "check"
  /\ heap_end + incr > HeapLimit
  /\ sbrk_pc' = "idle" /\ heap_pie' = TRUE
  /\ UNCHANGED <<heap_end, incr, prev_heap_end, holders>>

SbrkTake ==
  /\ sbrk_pc = "check"
  /\ heap_end + incr <= HeapLimit
  /\ prev_heap_end' = heap_end
  /\ sbrk_pc' = "move"
  /\ UNCHANGED <<heap_end, incr, heap_pie, holders>>

\* The block that is returned begins at prev_heap_end.
SbrkMove ==
  /\ sbrk_pc = "move"
  /\ heap_end' = heap_end + incr
  /\ holders' = Held(prev_heap_end, heap_end')
  /\ sbrk_pc' = "idle" /\ heap_pie' = TRUE
  /\ UNCHANGED <<incr, prev_heap_end>>

\* The whole call of a handler, between two steps of the thread.
SbrkInIsr(k) ==
  /\ heap_pie
  /\ k >= 0
  /\ LET base == WordUp(heap_end) IN
       IF base + k > HeapLimit
         THEN heap_end' = base /\ UNCHANGED holders
         ELSE heap_end' = base + k /\ holders' = Held(base, base + k)
  /\ UNCHANGED <<sbrk_pc, incr, prev_heap_end, heap_pie>>

HeapNext ==
  \/ \E k \in Increments : SbrkCall(k) \/ SbrkInIsr(k)
  \/ SbrkRound \/ SbrkFail \/ SbrkTake \/ SbrkMove

HeapSpec == HeapInit /\ [][HeapNext]_heapVars

-----------------------------------------------------------------------------
(* Properties *)

HeapTypeOK ==
  /\ heap_end \in Int /\ prev_heap_end \in Int /\ incr \in Int
  /\ sbrk_pc \in {"idle", "round", "check", "move"}
  /\ heap_pie \in BOOLEAN
  /\ holders \in [Heap -> Nat]

\* No byte of the heap is handed out twice, by calls of the thread and of the
\* handlers that interrupt it, and no block begins below the heap or ends
\* beyond it, whatever was rounded up or given back in between.
BlocksDisjoint ==
  /\ \A x \in Heap : holders[x] <= 1
  /\ sbrk_pc = "move" => /\ prev_heap_end >= HeapStart
                         /\ prev_heap_end + incr <= HeapLimit

\* What lies at or above heap_end has no holder, and what the thread has read
\* of heap_end stays true while it is in the call.
HeapInv ==
  /\ HeapTypeOK
  /\ BlocksDisjoint
  /\ heap_end >= HeapStart
  /\ \A x \in Heap : x >= heap_end => holders[x] = 0
  /\ heap_pie <=> (sbrk_pc = "idle")
  /\ sbrk_pc # "idle" => heap_end + incr >= HeapStart
  /\ sbrk_pc = "move" => prev_heap_end = heap_end
=============================================================================
