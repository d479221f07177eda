------------------------------ MODULE Profile ------------------------------
(***************************************************************************)
(* The profiler of a program compiled with -pg: mcount (alt_mcount.S) runs *)
(* at the start of every function and counts the call in lists of arcs;    *)
(* what it does not find there __mcount_record (alt_gmon.c) adds.  The     *)
(* first record that finds the clock running starts an alarm that samples  *)
(* the program counter at every tick.                                      *)
(*                                                                         *)
(* The thread takes its steps one by one; a handler that interrupts it     *)
(* makes its own calls from their first instruction to their last.         *)
(***************************************************************************)
EXTENDS Integers, Sequences, FiniteSetsExt

CONSTANTS
  Functions, Callers,  \* the values of self_pc and of from_pc
  HashOf,              \* the bucket of __mcount_fn_head a function is in
  TextStart, TextEnd,  \* stext, etext
  PcBucket,            \* PCSAMPLE_BYTES_PER_BUCKET
  MaxCalls             \* bound: calls that may begin

ASSUME ProfileAssumption ==
  /\ HashOf \in [Functions -> Nat]
  /\ TextStart \in Nat /\ TextEnd \in Nat /\ TextStart <= TextEnd
  /\ PcBucket \in Nat \ {0} /\ MaxCalls \in Nat

VARIABLES
  fns,          \* per bucket its entries and their arcs, the oldest first: a
                \* list is walked from its end
  need_init,    \* pcsample_need_init
  ticking,      \* alt_ticks_per_second() is not 0
  alarms,       \* how often the sampling alarm was started
  sample,       \* the bucket of s_pcsamples written to last, if any
  mcount_pie,   \* interrupts are enabled
  mcount_pc, self_pc, from_pc,  \* the thread's call: where it is, its arc,
  fn_entry, arc, count,         \* r10, r3 and r2 in mcount
  calls,        \* history: calls per arc that have returned,
  clobbered,    \* counts the thread stored over a handler's,
  overtaken     \* a handler started sampling while the thread was about to

profileVars ==
  <<fns, need_init, ticking, alarms, sample, mcount_pie, mcount_pc, self_pc,
    from_pc, fn_entry, arc, count, calls, clobbered, overtaken>>

Bucket(f) == fns[HashOf[f]]
Arcs == Functions \X Callers
MoreCalls == MapThenSumSet(LAMBDA a : calls[a], Arcs) < MaxCalls

ProfileInit ==
  /\ fns = [b \in {HashOf[f] : f \in Functions} |-> <<>>]
  /\ need_init = TRUE /\ ticking = FALSE /\ alarms = 0 /\ sample = {}
  /\ mcount_pie = TRUE
  /\ mcount_pc = "idle"
  /\ self_pc = (CHOOSE f \in Functions : TRUE)
  /\ from_pc = (CHOOSE c \in Callers : TRUE)
  /\ fn_entry = 0 /\ arc = 0 /\ count = 0
  /\ calls = [a \in Arcs |-> 0] /\ clobbered = 0 /\ overtaken = FALSE

-----------------------------------------------------------------------------
(* The thread's call of mcount *)

Goto(pc) == mcount_pc' = pc

Called(a) == calls' = [calls EXCEPT ![a] = @ + 1]

Lists == <<fns, need_init, alarms, mcount_pie, calls>>
Call == <<self_pc, from_pc, fn_entry, arc, count>>
History == <<clobbered, overtaken, ticking, sample>>

McountCall(f, c) ==
  /\ mcount_pc = "idle"
  /\ MoreCalls
  /\ self_pc' = f /\ from_pc' = c
  /\ fn_entry' = Len(Bucket(f))
  /\ Goto("fn")
  /\ UNCHANGED <<Lists, arc, count, History>>

McountFn ==
  /\ mcount_pc = "fn"
  /\ \/ /\ fn_entry = 0
        /\ Goto("record")
        /\ UNCHANGED <<fn_entry, arc>>
     \/ /\ fn_entry > 0 /\ Bucket(self_pc)[fn_entry].self = self_pc
        /\ arc' = Len(Bucket(self_pc)[fn_entry].arcs)
        /\ Goto("arc")
        /\ UNCHANGED fn_entry
     \/ /\ fn_entry > 0 /\ Bucket(self_pc)[fn_entry].self # self_pc
        /\ fn_entry' = fn_entry - 1
        /\ UNCHANGED <<arc, mcount_pc>>
  /\ UNCHANGED <<Lists, self_pc, from_pc, count, History>>

McountArc ==
  /\ mcount_pc = "arc"
  /\ LET here == Bucket(self_pc)[fn_entry].arcs[arc] IN
     \/ /\ here.from = from_pc
        /\ count' = here.count
        /\ Goto("found")
        /\ UNCHANGED arc
     \/ /\ here.from # from_pc /\ arc > 1
        /\ arc' = arc - 1
        /\ UNCHANGED <<count, mcount_pc>>
     \/ /\ here.from # from_pc /\ arc = 1
        /\ Goto("record")
        /\ UNCHANGED <<arc, count>>
  /\ UNCHANGED <<Lists, self_pc, from_pc, fn_entry, History>>

McountFound ==
  /\ mcount_pc = "found"
  /\ fns' = [fns EXCEPT ![HashOf[self_pc]][fn_entry].arcs[arc].count = count + 1]
  /\ Called(<<self_pc, from_pc>>)
  /\ Goto("idle")
  /\ UNCHANGED <<need_init, alarms, mcount_pie, Call, History>>

-----------------------------------------------------------------------------
(* The thread in __mcount_record *)

RecordCheck ==
  /\ mcount_pc = "record"
  /\ Goto(IF need_init THEN "claim" ELSE "disable")
  /\ UNCHANGED <<Lists, Call, History>>

RecordClaim ==
  /\ mcount_pc = "claim"
  /\ need_init' = FALSE
  /\ Goto("start")
  /\ UNCHANGED <<fns, alarms, mcount_pie, calls, Call, History>>

\* nios2_pcsample_init
RecordStart ==
  /\ mcount_pc = "start"
  /\ need_init' = ~ticking
  /\ alarms' = IF ticking THEN alarms + 1 ELSE alarms
  /\ Goto("disable")
  /\ UNCHANGED <<fns, mcount_pie, calls, Call, History>>

\* Mutant: the lists are updated with interrupts on.
RecordDisable_Open ==
  /\ mcount_pc = "disable"
  /\ Goto(IF fn_entry = 0 THEN "entry" ELSE "add")
  /\ UNCHANGED <<Lists, Call, History>>

RecordDisable ==
  /\ mcount_pc = "disable"
  /\ mcount_pie' = FALSE
  /\ Goto(IF fn_entry = 0 THEN "entry" ELSE "add")
  /\ UNCHANGED <<fns, need_init, alarms, calls, Call, History>>

RecordEntry ==
  /\ mcount_pc = "entry"
  /\ fns' = [fns EXCEPT ![HashOf[self_pc]] =
                Append(@, [self |-> self_pc, arcs |-> <<>>])]
  /\ fn_entry' = Len(Bucket(self_pc)) + 1
  /\ Goto("add")
  /\ UNCHANGED <<need_init, alarms, mcount_pie, calls, self_pc, from_pc, arc,
                 count, History>>

NewArc(c) == [from |-> c, count |-> 1]

\* alt_irq_enable_all and the return are part of the last step.
RecordArc ==
  /\ mcount_pc = "add"
  /\ fns' = [fns EXCEPT ![HashOf[self_pc]][fn_entry].arcs =
                Append(@, NewArc(from_pc))]
  /\ mcount_pie' = TRUE
  /\ Called(<<self_pc, from_pc>>)
  /\ Goto("idle")
  /\ UNCHANGED <<need_init, alarms, Call, History>>

-----------------------------------------------------------------------------
(* Handlers and the clock *)

\* A function's entries in the list of its bucket, and the arcs of an entry from
\* a caller.
EntriesOf(list, f) == {i \in DOMAIN list : list[i].self = f}
ArcsFrom(entry, c) == {j \in DOMAIN entry.arcs : entry.arcs[j].from = c}

\* Where mcount, uninterrupted, finds a function and an arc; 0 for nowhere.
FindFn(f) == Max({0} \union EntriesOf(Bucket(f), f))
FindArc(f, c) ==
  IF FindFn(f) = 0 THEN 0 ELSE Max({0} \union ArcsFrom(Bucket(f)[FindFn(f)], c))

\* A function called by a handler whose arc is known.
HandlerCounts(f, c) ==
  /\ mcount_pie
  /\ MoreCalls /\ FindArc(f, c) > 0
  /\ fns' = [fns EXCEPT ![HashOf[f]][FindFn(f)].arcs[FindArc(f, c)].count = @ + 1]
  /\ Called(<<f, c>>)
  /\ clobbered' =
       IF mcount_pc = "found" /\ self_pc = f /\ from_pc = c
          /\ fn_entry = FindFn(f) /\ arc = FindArc(f, c)
       THEN clobbered + 1 ELSE clobbered
  /\ UNCHANGED <<need_init, alarms, mcount_pie, mcount_pc, Call, overtaken,
                 ticking, sample>>

\* One whose arc must be recorded.
HandlerRecords(f, c) ==
  /\ mcount_pie
  /\ MoreCalls /\ FindArc(f, c) = 0
  /\ need_init' = (need_init /\ ~ticking)
  /\ alarms' = IF need_init /\ ticking THEN alarms + 1 ELSE alarms
  /\ overtaken' = (overtaken \/ (need_init /\ ticking /\ mcount_pc = "claim"))
  /\ fns' = [fns EXCEPT ![HashOf[f]] =
       IF FindFn(f) = 0
       THEN Append(Bucket(f), [self |-> f, arcs |-> <<NewArc(c)>>])
       ELSE [Bucket(f) EXCEPT ![FindFn(f)].arcs = Append(@, NewArc(c))]]
  /\ Called(<<f, c>>)
  /\ UNCHANGED <<mcount_pie, mcount_pc, Call, clobbered, ticking, sample>>

\* alt_sysclk_init, by the thread between two calls.
ClockStarts ==
  /\ mcount_pc = "idle" /\ ~ticking
  /\ ticking' = TRUE
  /\ UNCHANGED <<Lists, mcount_pc, Call, clobbered, overtaken, sample>>

Histogram == 0 .. (TextEnd - TextStart) \div PcBucket - 1

SampleAt(pc) ==
  IF TextStart <= pc /\ pc < TextEnd THEN {(pc - TextStart) \div PcBucket} ELSE {}

\* nios2_pcsample at a tick; interrupts are on, or the tick would wait.
PcSample(pc) ==
  /\ alarms > 0 /\ mcount_pie
  /\ SampleAt(pc) # {} /\ sample' = SampleAt(pc)
  /\ UNCHANGED <<Lists, mcount_pc, Call, clobbered, overtaken, ticking>>

ProfileNext ==
  \/ \E f \in Functions, c \in Callers :
       McountCall(f, c) \/ HandlerCounts(f, c) \/ HandlerRecords(f, c)
  \/ McountFn \/ McountArc \/ McountFound
  \/ RecordCheck \/ RecordClaim \/ RecordStart
  \/ RecordDisable \/ RecordEntry \/ RecordArc
  \/ ClockStarts
  \/ \E pc \in TextStart - 1 .. TextEnd : PcSample(pc)

-----------------------------------------------------------------------------
(* Properties *)

\* The places where an arc is counted, and the sum of its counts.
Places(list, f, c) ==
  UNION {{i} \X ArcsFrom(list[i], c) : i \in EntriesOf(list, f)}
CountsAt(list, f, c) ==
  [p \in Places(list, f, c) |-> list[p[1]].arcs[p[2]].count]
Copies(f, c) == Places(Bucket(f), f, c)
Counted(f, c) == SumFunction(CountsAt(Bucket(f), f, c))

\* Handlers make calls while the thread walks the lists or is about to add to
\* them.  Every call that returned is on a list and counted there, in one copy of
\* its arc or another, but for a count that the thread stored over; a function is
\* never listed without an arc where mcount can see it, since mcount takes it
\* that there is one; the alarm is started once, but for the race that StartedOnce
\* is about; a sample lands in the histogram or, in a text that is not a whole
\* number of buckets, just past it.
ProfileInv ==
  /\ \A f \in Functions, c \in Callers :
       /\ Counted(f, c) \in calls[f, c] - clobbered .. calls[f, c]
       /\ calls[f, c] > 0 => Copies(f, c) # {}
  /\ mcount_pie => \A f \in Functions : \A i \in DOMAIN Bucket(f) :
                     Bucket(f)[i].arcs # <<>>
  /\ alarms <= 1 \/ overtaken
  /\ \A k \in sample \ Histogram :
       (TextEnd - TextStart) % PcBucket # 0 /\ k = Max({-1} \union Histogram) + 1

\* Claimed of __mcount_record: it copes with reentrancy and calls
\* nios2_pcsample_init until that returns zero.  A handler that records between
\* the thread's test of pcsample_need_init and its assignment starts the alarm as
\* well: it is inserted twice.
StartedOnce == alarms <= 1

-----------------------------------------------------------------------------
(* Why the property holds *)

McountPcs ==
  {"idle", "fn", "arc", "found", "record", "claim", "start", "disable", "entry", "add"}
Recording == {"record", "claim", "start", "disable", "entry", "add"}

Arc == [from : Callers, count : Nat]
FnEntry == [self : Functions, arcs : Seq(Arc)]

ProfileTypeOK ==
  /\ fns \in [{HashOf[f] : f \in Functions} -> Seq(FnEntry)]
  /\ \A f \in Functions : \A i \in DOMAIN Bucket(f) :
       HashOf[Bucket(f)[i].self] = HashOf[f]
  /\ need_init \in BOOLEAN /\ ticking \in BOOLEAN /\ overtaken \in BOOLEAN
  /\ alarms \in Nat /\ mcount_pc \in McountPcs
  /\ mcount_pc # "idle" => self_pc \in Functions /\ from_pc \in Callers
  /\ fn_entry \in Nat /\ arc \in Nat /\ count \in Nat
  /\ calls \in [Arcs -> Nat] /\ clobbered \in Nat
  /\ mcount_pie \in BOOLEAN /\ (mcount_pie <=> mcount_pc \notin {"entry", "add"})

AtMostOne(S) == \A x, y \in S : x = y

NoCopies(entry) == \A c \in Callers : AtMostOne(ArcsFrom(entry, c))

\* A function has at most two entries, the older without copies and the newer
\* with at most two arcs from a caller.
FewCopies(list, f) ==
  /\ \A i, j, k \in EntriesOf(list, f) : ~(i < j /\ j < k)
  /\ \A i, j \in EntriesOf(list, f) : i < j => NoCopies(list[i])
  /\ \A i \in EntriesOf(list, f), c \in Callers :
       \A x, y, z \in ArcsFrom(list[i], c) : ~(x < y /\ y < z)

\* A walk from k down comes to the function's newest entry, or a handler has
\* recorded the function since the walk began; and so with an entry's arcs.
SeesFn(list, f, k) ==
  \/ \A i \in EntriesOf(list, f) : i <= k
  \/ /\ AtMostOne(EntriesOf(list, f))
     /\ \A i \in EntriesOf(list, f) : NoCopies(list[i])
SeesArc(entry, c, k) ==
  (\A j \in ArcsFrom(entry, c) : j <= k) \/ AtMostOne(ArcsFrom(entry, c))

AtNewest(list, f, e) ==
  e \in EntriesOf(list, f) /\ \A i \in EntriesOf(list, f) : i <= e

\* Where the thread's walk is.
WalkInv ==
  LET list == Bucket(self_pc) IN
  /\ (mcount_pc = "fn" =>
       /\ fn_entry <= Len(list)
       /\ SeesFn(list, self_pc, fn_entry))
  /\ (mcount_pc = "arc" =>
       /\ AtNewest(list, self_pc, fn_entry)
       /\ arc \in DOMAIN list[fn_entry].arcs
       /\ SeesArc(list[fn_entry], from_pc, arc))
  /\ (mcount_pc = "found" =>
       /\ AtNewest(list, self_pc, fn_entry)
       /\ arc \in ArcsFrom(list[fn_entry], from_pc)
       /\ \A j \in ArcsFrom(list[fn_entry], from_pc) : j <= arc)
  /\ (mcount_pc \in Recording /\ fn_entry = 0 => SeesFn(list, self_pc, 0))
  /\ (mcount_pc \in Recording /\ fn_entry # 0 =>
       /\ AtNewest(list, self_pc, fn_entry)
       /\ AtMostOne(ArcsFrom(list[fn_entry], from_pc)))
  /\ (mcount_pc = "entry" => fn_entry = 0) /\ (mcount_pc = "add" => fn_entry # 0)

\* Only the entry the thread is about to add an arc to has none.
ArcsInv ==
  \A f \in Functions : \A i \in EntriesOf(Bucket(f), f) :
    Bucket(f)[i].arcs = <<>> => mcount_pc = "add" /\ f = self_pc /\ i = fn_entry

CopiesInv ==
  \A f \in Functions, c \in Callers :
    /\ FewCopies(Bucket(f), f)
    /\ Counted(f, c) \in calls[f, c] - clobbered .. calls[f, c]
    /\ calls[f, c] > 0 => Copies(f, c) # {}

\* What the thread is about to store leaves no more uncounted than was clobbered.
StoreInv ==
  mcount_pc = "found" =>
    LET now == Bucket(self_pc)[fn_entry].arcs[arc].count
    IN /\ now >= count
       /\ Counted(self_pc, from_pc) - (now - count) >= calls[self_pc, from_pc] - clobbered

ListsInv == ProfileTypeOK /\ WalkInv /\ ArcsInv /\ CopiesInv /\ StoreInv

AlarmInv ==
  /\ ~ticking => alarms = 0 /\ (need_init \/ mcount_pc = "start")
  /\ need_init => alarms = 0
  /\ mcount_pc = "start" => ~need_init
  /\ mcount_pc \in {"claim", "start"} => alarms = 0 \/ (overtaken /\ alarms = 1)
  /\ alarms <= 1 \/ (overtaken /\ alarms = 2)

SamplesInv ==
  \A k \in sample : \E pc \in TextStart .. TextEnd - 1 : k = (pc - TextStart) \div PcBucket

GmonInv == ListsInv /\ AlarmInv /\ SamplesInv
=============================================================================
