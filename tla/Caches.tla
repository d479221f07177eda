------------------------------- MODULE Caches -------------------------------
(***************************************************************************)
(* The data cache (direct mapped, written back) and the routines that keep *)
(* memory current: alt_dcache_flush*.c and alt_uncached_malloc.c, whose    *)
(* blocks are accessed around the cache; and the instruction cache with    *)
(* alt_icache_flush*.c.                                                    *)
(*                                                                         *)
(* Instead of values the model keeps, for each byte, where its last value  *)
(* is: in memory, only in the cache (newer), only in memory though a line  *)
(* holds it (older), or nowhere (lost).                                    *)
(***************************************************************************)
EXTENDS Integers, FiniteSetsExt

CONSTANTS
  LineSize,     \* NIOS2_DCACHE_LINE_SIZE, NIOS2_ICACHE_LINE_SIZE
  CacheLines,   \* NIOS2_DCACHE_SIZE, NIOS2_ICACHE_SIZE, in lines
  MemLines      \* the memory, in lines

ASSUME CachesAssumption ==
  /\ LineSize \in Nat \ {0} /\ CacheLines \in Nat \ {0} /\ MemLines \in Nat

VARIABLES
  cached, dirty,      \* lines the data cache holds, lines it must write back
  newer, older, lost,
  blocks,             \* what alt_uncached_malloc has given, as sets of bytes
  flushed,            \* history: bytes flushed last and not stored to since
  icached, outdated,  \* lines the instruction cache holds, those of them whose
                      \* code has changed in memory
  renewed             \* history: lines flushed from it last and not changed

dataVars == <<cached, dirty, newer, older, lost, blocks, flushed>>
codeVars == <<icached, outdated, renewed>>
cacheVars == <<dataVars, codeVars>>

Byte == 0 .. MemLines * LineSize - 1
Line == 0 .. MemLines - 1
LineOf(b) == b \div LineSize
InLines(lines) == {b \in Byte : LineOf(b) \in lines}
SameIndex(lines) ==
  {k \in Line : \E l \in lines : k % CacheLines = l % CacheLines}
uncached == UNION blocks

CachesInit ==
  /\ cached = {} /\ dirty = {}
  /\ newer = {} /\ older = {} /\ lost = {}
  /\ blocks = {} /\ flushed = {}
  /\ icached = {} /\ outdated = {} /\ renewed = {}

-----------------------------------------------------------------------------
(* The data cache *)

\* Victims leave the cache, the dirty ones through memory, where they overwrite
\* what is newer there; lines come in, and bytes of them are stored to.
Turnover(victims, incoming, stored) ==
  /\ cached' = (cached \ victims) \union incoming
  /\ dirty' = (dirty \ victims) \union {LineOf(b) : b \in stored}
  /\ newer' = (newer \ InLines(victims)) \union stored
  /\ older' = (older \ InLines(victims)) \ stored
  /\ lost' = lost \union (older \cap InLines(victims \cap dirty))

\* The program's own accesses: through the cache to what is not in a block.
\* The line of b comes in and displaces the one at its index.
Access(b, stored) ==
  /\ b \notin uncached
  /\ LET here == {LineOf(b)} IN
       Turnover(cached \cap (SameIndex(here) \ here), here, stored)
  /\ flushed' = flushed \ stored
  /\ UNCHANGED blocks

Load(b) == Access(b, {})
Store(b) == Access(b, {b})

\* To a block, with ALT_CPU_DCACHE_BYPASS_MASK: the cache does not notice.
UncachedStore(b) ==
  /\ b \in uncached
  /\ newer' = newer \ {b}
  /\ older' = older \union ({b} \cap InLines(cached))
  /\ flushed' = flushed \ {b}
  /\ UNCHANGED <<cached, dirty, lost, blocks>>

\* The addresses the flush loops stop at, and the one they end on.
Stops(start, len) ==
  {i \in start .. start + len - 1 : (i - start) % LineSize = 0}
RoundUp(len) == LineSize * ((len + LineSize - 1) \div LineSize)

\* Mutant: no line is left for an unaligned request.
LinesVisited_NoTail(start, len) == {LineOf(i) : i \in Stops(start, len)}

\* An unaligned request has one more line.
LinesVisited(start, len) ==
  {LineOf(i) : i \in Stops(start, len)} \union
    (IF start % LineSize # 0 THEN {LineOf(start + RoundUp(len))} ELSE {})

\* alt_dcache_flush: a line that is cached is written back and invalidated.
DcacheFlush(start, len) ==
  /\ Turnover(cached \cap LinesVisited(start, len), {}, {})
  /\ flushed' = start .. start + len - 1
  /\ UNCHANGED blocks

DcacheFlushAll ==
  /\ Turnover(cached, {}, {})
  /\ flushed' = Byte
  /\ UNCHANGED blocks

\* alt_dcache_flush_no_writeback: what the request holds is dropped on purpose.
\* A line it shares with other data, or the line beyond an unaligned request,
\* would go with it, so the request is for whole lines.
DcacheFlushNoWriteback(start, len) ==
  /\ start % LineSize = 0 /\ len % LineSize = 0
  /\ LET dropped == InLines(cached \cap LinesVisited(start, len)) IN
     /\ cached' = cached \ LinesVisited(start, len)
     /\ dirty' = dirty \ LinesVisited(start, len)
     /\ newer' = newer \ dropped
     /\ older' = older \ dropped
     /\ lost' = lost \union ((newer \cap dropped) \ (start .. start + len - 1))
  /\ UNCHANGED <<blocks, flushed>>

Block(ptr, size) == ptr .. ptr + RoundUp(size) - 1

\* memalign gives a block that begins on a line and is nobody else's; what the
\* cache still has of it is flushed.
UncachedMalloc(ptr, size) ==
  /\ ptr % LineSize = 0
  /\ Block(ptr, size) \subseteq Byte \ uncached
  /\ blocks' = blocks \union {Block(ptr, size)}
  /\ Turnover(cached \cap LinesVisited(ptr, RoundUp(size)), {}, {})
  /\ flushed' = Block(ptr, size)

UncachedFree ==
  /\ \E block \in blocks : blocks' = blocks \ {block}
  /\ UNCHANGED <<cached, dirty, newer, older, lost, flushed>>

-----------------------------------------------------------------------------
(* The instruction cache *)

FetchCode(l) ==
  /\ icached' = (icached \ SameIndex({l})) \union {l}
  /\ outdated' = outdated \ (SameIndex({l}) \ (icached \cap {l}))
  /\ UNCHANGED renewed

\* Code is written to memory, by alt_load or a loader.
ChangeCode(l) ==
  /\ outdated' = outdated \union ({l} \cap icached)
  /\ renewed' = renewed \ {l}
  /\ UNCHANGED icached

\* alt_icache_flush: the length is capped to that of the cache, which is enough
\* because flushi invalidates whatever line is at the index.
IcacheFlush(start, len) ==
  /\ LET capped == Min({len, CacheLines * LineSize})
         gone == SameIndex(LinesVisited(start, capped))
     IN icached' = icached \ gone /\ outdated' = outdated \ gone
  /\ renewed' = {LineOf(b) : b \in start .. start + len - 1}

\* alt_icache_flush_all: IcacheFlush(0, NIOS2_ICACHE_SIZE)
IcacheFlushAll ==
  /\ icached' = {} /\ outdated' = {}
  /\ renewed' = Line

-----------------------------------------------------------------------------
DataNext ==
  \/ \E b \in Byte : Load(b) \/ Store(b) \/ UncachedStore(b)
  \/ \E b \in Byte : \E len \in 0 .. MemLines * LineSize - b :
       \/ DcacheFlush(b, len) \/ DcacheFlushNoWriteback(b, len)
       \/ UncachedMalloc(b, len)
  \/ DcacheFlushAll \/ UncachedFree

CodeNext ==
  \/ \E l \in Line : FetchCode(l) \/ ChangeCode(l)
  \/ \E b \in Byte : \E len \in 0 .. MemLines * LineSize - b :
       IcacheFlush(b, len)
  \/ IcacheFlushAll

CachesNext ==
  \/ DataNext /\ UNCHANGED codeVars
  \/ CodeNext /\ UNCHANGED dataVars

-----------------------------------------------------------------------------
(* Properties *)

CachesTypeOK ==
  /\ \A lines \in {cached, icached} :
       /\ lines \subseteq Line
       /\ \A k, l \in lines : k % CacheLines = l % CacheLines => k = l
  /\ dirty \subseteq cached /\ outdated \subseteq icached
  /\ newer \subseteq InLines(dirty) /\ older \subseteq InLines(cached)
  /\ lost \subseteq Byte
  /\ \A block \in blocks : block \subseteq Byte

\* Why: a block is whole lines and none of them is cached, from the flush that
\* alt_uncached_malloc ends with on, because what is cached lies around it.  So no
\* line in the cache is older than memory.
Apart ==
  /\ older = {}
  /\ \A block \in blocks : \A b \in block :
       /\ LineOf(b) \notin cached
       /\ InLines({LineOf(b)}) \subseteq block

\* What the flush routines are for.  No byte's last value is ever lost, although
\* the same bytes are accessed now through the cache and now around it, and
\* blocks lie next to cached data.  What was flushed is in memory until the
\* program stores to it again, and the processor does not run the old code of
\* what was flushed from the instruction cache: no line of the request is missed,
\* wherever in a line it begins and ends.
CachesCoherent ==
  /\ lost = {}
  /\ flushed \cap newer = {}
  /\ renewed \cap outdated = {}

CachesInv == CachesTypeOK /\ Apart /\ CachesCoherent
=============================================================================
