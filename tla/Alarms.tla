------------------------------- MODULE Alarms -------------------------------
(***************************************************************************)
(* The system clock of the HAL: the tick counter, the linked list of       *)
(* alarms that alt_alarm_start and alt_alarm_stop maintain with interrupts *)
(* disabled, and alt_tick, which the timer's interrupt calls to walk it.   *)
(*                                                                         *)
(* A callback may start and stop alarms while the walk is under way.       *)
(***************************************************************************)
EXTENDS Integers

CONSTANTS
  Alarm, Head,   \* the alarms, and the head of their list
  Wrap,          \* 2^32: the tick counter and the times are unsigned
  Delays,        \* values of nticks given to alt_alarm_start
  Periods        \* values callbacks return

ASSUME ListAssumption == Head \notin Alarm

ASSUME TimeAssumption ==
  /\ Wrap \in Nat \ {0}
  /\ Delays \subseteq 0 .. Wrap - 1
  /\ Periods \subseteq 0 .. Wrap - 1

VARIABLES
  rate,              \* _alt_tick_rate has been set
  nticks,            \* _alt_nticks
  next, previous,    \* the links; a removed alarm points to itself
  time, rollover,    \* alt_alarm
  pc,                \* who runs: "thread", the "walk" or a "callback" of it
  cursor, upcoming,  \* alt_tick: alarm and next
  place,             \* history: where an alarm is in the list, from 1 on
  undercut           \* history: a callback stopped the alarm that next is

links == <<next, previous, place>>
walk == <<pc, cursor, upcoming>>
vars == <<rate, nticks, links, time, rollover, walk, undercut>>

Node == Alarm \union {Head}
Active(a) == next[a] # a

\* An alarm that was never started has no links yet.  It is given those of a
\* removed one, so that stopping it, which nobody does, would change nothing.
Init ==
  /\ rate = FALSE /\ nticks = 0
  /\ next = [x \in Node |-> x] /\ previous = [x \in Node |-> x]
  /\ place = [x \in Node |-> 0]
  /\ time = [a \in Alarm |-> 0] /\ rollover = [a \in Alarm |-> FALSE]
  /\ pc = "thread" /\ cursor = Head /\ upcoming = Head /\ undercut = FALSE

-----------------------------------------------------------------------------
(* alt_llist.h                                                             *)

\* The entry becomes the first of the list.
Insert(a) ==
  /\ previous' = [x \in Node |-> IF x = next[Head] THEN a
                                 ELSE IF x = a THEN Head ELSE previous[x]]
  /\ next' = [next EXCEPT ![a] = next[Head], ![Head] = a]
  /\ place' = [x \in Node |-> IF x = a THEN 1
                              ELSE IF x \in Alarm /\ Active(x) THEN place[x] + 1
                              ELSE 0]

\* Mutant: the entry keeps its own links.
Remove_KeepsLinks(a) ==
  /\ previous' = [previous EXCEPT ![next[a]] = previous[a]]
  /\ next' = [next EXCEPT ![previous[a]] = next[a]]
  /\ place' = [x \in Node |-> IF x = a THEN 0
                              ELSE IF place[x] > place[a] THEN place[x] - 1
                              ELSE place[x]]

\* The entry is unlinked and points to itself: removing it again is harmless.
Remove(a) ==
  /\ previous' = [previous EXCEPT ![next[a]] = previous[a], ![a] = a]
  /\ next' = [next EXCEPT ![previous[a]] = next[a], ![a] = a]
  /\ place' = [x \in Node |-> IF x = a THEN 0
                              ELSE IF Active(a) /\ place[x] > place[a]
                                THEN place[x] - 1
                              ELSE place[x]]

-----------------------------------------------------------------------------
(* The interface                                                           *)

\* alt_sysclk_init
SysclkInit ==
  /\ ~rate
  /\ rate' = TRUE
  /\ UNCHANGED <<nticks, links, time, rollover, walk, undercut>>

\* The sum of two unsigned numbers, and of a carry, keeps its low 32 bits.
Low(sum) == IF sum < Wrap THEN sum ELSE sum - Wrap

Expiry(n) == Low(nticks + n + 1)

\* Mutant: the flag is not set.
AlarmStart_NoRollover(a, n) ==
  /\ rate /\ ~Active(a)
  /\ pc = "thread" \/ (pc = "callback" /\ a # cursor)
  /\ time' = [time EXCEPT ![a] = Expiry(n)]
  /\ rollover' = [rollover EXCEPT ![a] = FALSE]
  /\ Insert(a)
  /\ undercut' = (undercut /\ a # upcoming)
  /\ UNCHANGED <<rate, nticks, walk>>

\* alt_alarm_start fails without a clock.  An alarm is started again only when
\* it is not in the list, and not by its own callback.  With the greatest delay
\* the time is that of now, and the flag is not set: see DelaysFit.
AlarmStart(a, n) ==
  /\ rate /\ ~Active(a)
  /\ pc = "thread" \/ (pc = "callback" /\ a # cursor)
  /\ time' = [time EXCEPT ![a] = Expiry(n)]
  /\ rollover' = [rollover EXCEPT ![a] = Expiry(n) < nticks]
  /\ Insert(a)
  /\ undercut' = (undercut /\ a # upcoming)
  /\ UNCHANGED <<rate, nticks, walk>>

\* alt_alarm_stop, of any alarm: by a callback also of its own, or of the one
\* that alt_tick has already put down as the next to look at.
AlarmStop(a) ==
  /\ pc \in {"thread", "callback"}
  /\ Remove(a)
  /\ undercut' = (undercut \/ a = upcoming)
  /\ UNCHANGED <<rate, nticks, time, rollover, walk>>

-----------------------------------------------------------------------------
(* alt_tick, with interrupts disabled from one end to the other            *)

Tick ==
  /\ rate /\ pc = "thread"
  /\ nticks' = Low(nticks + 1)
  /\ cursor' = next[Head]
  /\ pc' = "walk"
  /\ UNCHANGED <<rate, links, time, rollover, upcoming, undercut>>

\* Mutant: the flag is not cleared.
Visit_KeepsFlag ==
  /\ pc = "walk" /\ cursor # Head
  /\ UNCHANGED rollover
  /\ IF time[cursor] <= nticks /\ ~rollover[cursor]
       THEN pc' = "callback" /\ upcoming' = next[cursor] /\ UNCHANGED cursor
       ELSE cursor' = next[cursor] /\ UNCHANGED <<pc, upcoming>>
  /\ UNCHANGED <<rate, nticks, links, time, undercut>>

\* One turn of the loop, up to the call of the callback if there is one: the
\* flag of an alarm is cleared as the counter rolls over.
Visit ==
  /\ pc = "walk" /\ cursor # Head
  /\ rollover' = [rollover EXCEPT ![cursor] = @ /\ nticks # 0]
  /\ IF time[cursor] <= nticks /\ ~rollover'[cursor]
       THEN pc' = "callback" /\ upcoming' = next[cursor] /\ UNCHANGED cursor
       ELSE cursor' = next[cursor] /\ UNCHANGED <<pc, upcoming>>
  /\ UNCHANGED <<rate, nticks, links, time, undercut>>

\* The callback returns 0: the alarm is deactivated.
CallbackEnds ==
  /\ pc = "callback" /\ 0 \in Periods
  /\ Remove(cursor)
  /\ cursor' = upcoming /\ upcoming' = Head /\ pc' = "walk"
  /\ UNCHANGED <<rate, nticks, time, rollover, undercut>>

\* Mutant: the next alarm is looked up after the callback.
CallbackRepeats_LooksLate(r) ==
  /\ pc = "callback" /\ r # 0
  /\ time' = [time EXCEPT ![cursor] = Low(@ + r)]
  /\ rollover' = [rollover EXCEPT ![cursor] = @ \/ time'[cursor] < nticks]
  /\ cursor' = next[cursor] /\ upcoming' = Head /\ pc' = "walk"
  /\ UNCHANGED <<rate, nticks, links, undercut>>

\* The callback returns the period until the next one.
CallbackRepeats(r) ==
  /\ pc = "callback" /\ r # 0
  /\ time' = [time EXCEPT ![cursor] = Low(@ + r)]
  /\ rollover' = [rollover EXCEPT ![cursor] = @ \/ time'[cursor] < nticks]
  /\ cursor' = upcoming /\ upcoming' = Head /\ pc' = "walk"
  /\ UNCHANGED <<rate, nticks, links, undercut>>

TickEnd ==
  /\ pc = "walk" /\ cursor = Head
  /\ pc' = "thread"
  /\ UNCHANGED <<rate, nticks, links, time, rollover, cursor, upcoming, undercut>>

CallbackReturn == CallbackEnds \/ \E r \in Periods : CallbackRepeats(r)

AltTick == Visit \/ CallbackReturn \/ TickEnd

Next ==
  \/ SysclkInit
  \/ \E a \in Alarm : (\E n \in Delays : AlarmStart(a, n)) \/ AlarmStop(a)
  \/ Tick \/ AltTick

Spec == Init /\ [][Next]_vars

\* The timer goes on ticking, the walk goes on and callbacks return.
FairSpec ==
  /\ Spec
  /\ WF_vars(Tick) /\ WF_vars(Visit \/ TickEnd) /\ WF_vars(CallbackReturn)

-----------------------------------------------------------------------------
(* Properties *)

TypeOK ==
  /\ rate \in BOOLEAN
  /\ nticks \in 0 .. Wrap - 1
  /\ next \in [Node -> Node] /\ previous \in [Node -> Node]
  /\ place \in [Node -> Nat]
  /\ time \in [Alarm -> 0 .. Wrap - 1] /\ rollover \in [Alarm -> BOOLEAN]
  /\ pc \in {"thread", "walk", "callback"}
  /\ cursor \in Node /\ upcoming \in Node /\ undercut \in BOOLEAN

\* The list stays a ring through every insertion and removal, those made by
\* callbacks in the middle of a walk included: the two links of every node are
\* inverse, places count up by one from the head on, and the walk's own pointers
\* do not leave the ring before a callback stops the alarm that next is.
Linked == \A x \in Node : previous[next[x]] = x /\ next[previous[x]] = x

Placed ==
  /\ place[Head] = 0
  /\ \A a \in Alarm : IF Active(a) THEN place[a] > 0 ELSE place[a] = 0
  /\ \A a, b \in Alarm : Active(a) /\ place[a] = place[b] => a = b
  /\ \A x \in Node : x = Head \/ Active(x) =>
       IF next[x] = Head THEN \A b \in Alarm : place[b] <= place[x]
                         ELSE place[next[x]] = place[x] + 1

Pointed ==
  /\ pc = "walk" => cursor = Head \/ Active(cursor) \/ undercut
  /\ pc = "callback" =>
       /\ cursor # Head
       /\ (upcoming # cursor /\ (upcoming = Head \/ Active(upcoming))) \/ undercut

Ring == Linked /\ Placed /\ Pointed

\* Ticks until an alarm is due, by the clock's registers.
Left(a) == time[a] - nticks + (IF rollover[a] /\ nticks # 0 THEN Wrap ELSE 0)

\* The alarms that this tick has dealt with.
Before(a, x) == x = Head \/ place[a] < place[x]
Settled(a) ==
  \/ pc = "thread"
  \/ pc = "walk" /\ Before(a, cursor)
  \/ pc = "callback" /\ a # cursor /\ Before(a, upcoming)

\* An alarm that the walk has yet to come to may be due now; the others are
\* not, and their flags stand for the next wrap of the counter.
Punctual ==
  /\ \A a \in Alarm : Active(a) =>
       /\ Left(a) >= 0
       /\ Settled(a) => Left(a) > 0 /\ (nticks = 0 => ~rollover[a])
  /\ pc = "callback" /\ Active(cursor) =>
       Left(cursor) = 0 /\ ~rollover[cursor]

\* What alarms are asked for: the greatest delay is due at once.
DelaysFit == Wrap - 1 \notin Delays

IInv == TypeOK /\ Ring /\ Punctual

Remaining == [a \in Alarm |-> IF Active(a) THEN Left(a) ELSE -1]

Clock == INSTANCE Countdown WITH left <- Remaining

\* Every alarm goes off at the tick it was started for: not early across the
\* wrap of the counter, not skipped by a walk whose list the callbacks change,
\* and not late.
KeepsTime == Clock!Spec

\* alt_tick, which runs with interrupts disabled, ends whatever its callbacks
\* start and stop, unless one of them stops the alarm that next was read from
\* the list for and leaves it stopped: the link of that alarm leads to itself,
\* and the walk never gets away from it.
TickReturns == pc # "thread" ~> (pc = "thread" \/ []undercut)

\* An alarm that nobody stops goes off, unless the clock came to such an end.
GoesOff == \A a \in Alarm :
  Active(a) ~> ((pc = "callback" /\ cursor = a) \/ ~Active(a) \/ []undercut)
=============================================================================
