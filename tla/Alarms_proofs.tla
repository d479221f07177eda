---------------------------- MODULE Alarms_proofs ----------------------------
(***************************************************************************)
(* Proofs about the system clock, for any alarms, any width of the tick    *)
(* counter, and any callbacks.  Alarms are started with any delay but the  *)
(* greatest, for which alt_alarm_start does not set the flag.              *)
(***************************************************************************)
EXTENDS Alarms, TLAPS

-----------------------------------------------------------------------------
(* The list *)

\* An alarm that is not in the list becomes its first one.
LEMMA InsertRing ==
  ASSUME TypeOK, Linked, Placed, NEW a \in Alarm, ~Active(a), Insert(a)
  PROVE  /\ Linked' /\ Placed'
         /\ \A b \in Alarm : Active(b)' <=> Active(b) \/ b = a
<1> USE ListAssumption DEF TypeOK, Node
<1>. DEFINE f == next[Head]
<1>1. f \in Node /\ f # a /\ previous[f] = Head /\ next[a] = a /\ previous[a] = a
  BY DEF Linked, Active
<1>2. /\ next' \in [Node -> Node] /\ previous' \in [Node -> Node]
      /\ next'[a] = f /\ next'[Head] = a
      /\ \A x \in Node : x # a /\ x # Head => next'[x] = next[x]
      /\ previous'[f] = a /\ previous'[a] = Head
      /\ \A x \in Node : x # a /\ x # f => previous'[x] = previous[x]
  BY <1>1 DEF Insert
<1>3. Linked'
  BY <1>1, <1>2 DEF Linked
<1>4. \A b \in Alarm : Active(b)' <=> Active(b) \/ b = a
  BY <1>1, <1>2 DEF Active
<1>5. /\ place' \in [Node -> Nat] /\ place'[a] = 1 /\ place'[Head] = 0
      /\ \A b \in Alarm : b # a /\ Active(b) => place'[b] = place[b] + 1
      /\ \A b \in Alarm : b # a /\ ~Active(b) => place'[b] = 0
  BY DEF Insert
<1>6. Placed'
  BY <1>1, <1>2, <1>4, <1>5, SMTT(60) DEF Placed, Linked, Active
<1>. QED
  BY <1>3, <1>4, <1>6

\* Removing an alarm leaves a ring, whether or not it was in the list.
LEMMA RemoveRing ==
  ASSUME TypeOK, Linked, Placed, NEW a \in Alarm, Remove(a)
  PROVE  /\ Linked' /\ Placed'
         /\ \A b \in Alarm : Active(b)' <=> Active(b) /\ b # a
<1> USE ListAssumption DEF TypeOK, Node
<1>. DEFINE p == previous[a]  s == next[a]
<1>1. CASE ~Active(a)
  <2>1. UNCHANGED <<next, previous, place>>
    BY <1>1 DEF Remove, Active, Linked, Placed
  <2>. QED
    BY <2>1, <1>1 DEF Linked, Placed, Active
<1>2. CASE Active(a)
  <2>1. /\ p \in Node /\ s \in Node /\ p # a /\ s # a
        /\ next[p] = a /\ previous[s] = a
    BY <1>2 DEF Linked, Active
  <2>2. /\ next' \in [Node -> Node] /\ previous' \in [Node -> Node]
        /\ next'[a] = a /\ next'[p] = s
        /\ \A x \in Node : x # a /\ x # p => next'[x] = next[x]
        /\ previous'[a] = a /\ previous'[s] = p
        /\ \A x \in Node : x # a /\ x # s => previous'[x] = previous[x]
    BY <2>1 DEF Remove
  <2>3. Linked'
    BY <2>1, <2>2 DEF Linked
  <2>4. p = Head \/ (Active(p) /\ place[a] = place[p] + 1 /\ s # p)
    BY <1>2, <2>1 DEF Placed, Active, Linked
  <2>5. \A b \in Alarm : Active(b)' <=> Active(b) /\ b # a
    BY <2>1, <2>2, <2>4 DEF Active
  <2>6. /\ place' \in [Node -> Nat] /\ place'[a] = 0 /\ place'[Head] = 0
        /\ \A b \in Alarm : b # a => place'[b] = IF place[b] > place[a]
                                        THEN place[b] - 1 ELSE place[b]
    BY <1>2 DEF Remove, Placed
  <2>7. Placed'
    <3>1. place[a] > 0 /\ \A b \in Alarm : b # a => place[b] # place[a] \/ ~Active(b)
      BY <1>2 DEF Placed
    <3>2. \A b \in Alarm : IF Active(b)' THEN place'[b] > 0 ELSE place'[b] = 0
      BY <2>5, <2>6, <3>1 DEF Placed
    <3>3. ASSUME NEW b \in Alarm, NEW c \in Alarm, Active(b)', place'[b] = place'[c]
          PROVE  b = c
      <4>1. Active(b) /\ b # a /\ Active(c) /\ c # a
        BY <2>5, <3>2, <3>3
      <4>. QED
        BY <2>6, <3>1, <3>3, <4>1 DEF Placed
    <3>4. ASSUME NEW x \in Node, x = Head \/ Active(x)'
          PROVE  IF next'[x] = Head THEN \A b \in Alarm : place'[b] <= place'[x]
                                    ELSE place'[next'[x]] = place'[x] + 1
      <4>1. x # a /\ (x = Head \/ Active(x))
        BY <2>5, <3>4
      <4>2. IF next[x] = Head THEN \A b \in Alarm : place[b] <= place[x]
                              ELSE place[next[x]] = place[x] + 1
        BY <4>1 DEF Placed
      <4>3. IF s = Head THEN \A b \in Alarm : place[b] <= place[a]
                        ELSE place[s] = place[a] + 1
        BY <1>2 DEF Placed
      <4>4. place[Head] = 0
        BY DEF Placed
      <4>5. CASE x = p
        <5>1. /\ next'[x] = s /\ next[x] = a /\ a # Head
              /\ place[a] = place[x] + 1 /\ place'[x] = place[x]
          BY <2>1, <2>2, <2>6, <4>1, <4>2, <4>4, <4>5
        <5>2. CASE s = Head
          <6>1. \A b \in Alarm : b # a => place[b] # place[a] /\ place[b] <= place[a]
            BY <3>1, <4>3, <5>2 DEF Placed
          <6>. QED
            BY <2>6, <5>1, <5>2, <6>1
        <5>3. CASE s # Head
          <6>1. s \in Alarm /\ s # a /\ place[s] = place[a] + 1
            BY <2>1, <4>3, <5>3
          <6>2. place'[s] = place[a]
            BY <2>6, <6>1
          <6>. QED
            BY <5>1, <5>3, <6>2
        <5>. QED
          BY <5>2, <5>3
      <4>6. CASE x # p
        <5>1. next'[x] = next[x] /\ next[x] # a /\ next[x] \in Node
          BY <2>2, <4>1, <4>6 DEF Linked
        <5>2. place[x] # place[a]
          BY <1>2, <3>1, <4>1, <4>4
        <5>3. CASE next[x] = Head
          BY <2>6, <3>1, <4>1, <4>2, <4>4, <5>1, <5>2, <5>3
        <5>4. CASE next[x] # Head
          <6>1. next[x] \in Alarm /\ Active(next[x])
            BY <4>1, <5>1, <5>4 DEF Linked, Active
          <6>2. place[next[x]] # place[a]
            BY <3>1, <5>1, <6>1
          <6>. QED
            BY <2>6, <3>1, <4>1, <4>2, <4>4, <5>1, <5>2, <5>4, <6>1, <6>2
        <5>. QED
          BY <5>3, <5>4
      <4>. QED
        BY <4>5, <4>6
    <3>. QED
      BY <2>6, <3>2, <3>3, <3>4 DEF Placed
  <2>. QED
    BY <2>3, <2>5, <2>7
<1>. QED
  BY <1>1, <1>2

-----------------------------------------------------------------------------
(* The arithmetic of the clock *)

\* The registers of an alarm that is started stand for its delay.
LEMMA ExpiryLeft ==
  ASSUME NEW t \in 0 .. Wrap - 1, NEW n \in 1 .. Wrap - 1
  PROVE  LET e == Low(t + n) IN
         /\ e \in 0 .. Wrap - 1
         /\ e < t => t # 0 /\ e - t + Wrap = n
         /\ ~(e < t) => e - t = n
  BY TimeAssumption DEF Low

-----------------------------------------------------------------------------
(* The inductive invariant *)

\* The inductive invariant holds at the start.
LEMMA InitInv == Init => IInv
<1> SUFFICES ASSUME Init
             PROVE  IInv
  OBVIOUS
<1> USE ListAssumption, TimeAssumption
<1>1. \A x \in Node : next[x] = x /\ previous[x] = x /\ place[x] = 0
  BY DEF Init
<1>2. \A a \in Alarm : ~Active(a)
  BY <1>1 DEF Active, Node
<1>3. TypeOK
  <2>1. 0 \in 0 .. Wrap - 1
    OBVIOUS
  <2>2. next \in [Node -> Node] /\ previous \in [Node -> Node]
    BY DEF Init
  <2>3. place \in [Node -> Nat]
    BY DEF Init
  <2>4. time \in [Alarm -> 0 .. Wrap - 1] /\ rollover \in [Alarm -> BOOLEAN]
    BY <2>1 DEF Init
  <2>. QED
    BY <2>1, <2>2, <2>3, <2>4 DEF Init, TypeOK, Node
<1>4. Linked
  BY <1>1 DEF Linked
<1>6. Placed
  BY <1>1, <1>2 DEF Placed, Node
<1>5. Pointed /\ Punctual
  <2>1. pc = "thread"
    BY DEF Init
  <2>. QED
    BY <1>2, <2>1 DEF Pointed, Punctual
<1>. QED
  BY <1>3, <1>4, <1>5, <1>6 DEF IInv, Ring

\* A step that leaves the links alone leaves the ring alone.
LEMMA SameLinks ==
  ASSUME Linked, Placed, UNCHANGED links
  PROVE  Linked' /\ Placed' /\ \A a \in Alarm : Active(a)' <=> Active(a)
  BY DEF links, Linked, Placed, Active

\* The invariant is preserved by the start of an alarm.
LEMMA StartInv ==
  ASSUME IInv, DelaysFit, NEW a \in Alarm, NEW n \in Delays, AlarmStart(a, n)
  PROVE  /\ IInv'
         /\ \A b \in Alarm : Active(b)' <=> Active(b) \/ b = a
         /\ Left(a)' = n + 1
         /\ \A b \in Alarm : b # a => Left(b)' = Left(b)
<1> USE ListAssumption, TimeAssumption
<1>1. TypeOK /\ Linked /\ Placed /\ Pointed /\ ~Active(a) /\ Insert(a)
  BY DEF IInv, Ring, AlarmStart
<1>2. /\ Linked' /\ Placed'
      /\ \A b \in Alarm : Active(b)' <=> Active(b) \/ b = a
  BY <1>1, InsertRing
<1>3. n + 1 \in 1 .. Wrap - 1 /\ Expiry(n) = Low(nticks + (n + 1))
  BY DEF DelaysFit, Expiry, IInv, TypeOK
<1>4. Expiry(n) \in 0 .. Wrap - 1
  BY <1>3, ExpiryLeft DEF IInv, TypeOK
<1>5. TypeOK'
  <2>1. next' \in [Node -> Node] /\ previous' \in [Node -> Node]
        /\ place' \in [Node -> Nat]
    BY <1>1 DEF Insert, TypeOK, Node
  <2>. QED
    BY <1>4, <2>1 DEF IInv, TypeOK, AlarmStart, walk
<1>6. Pointed'
  BY <1>1, <1>2 DEF Pointed, AlarmStart, walk, Node, TypeOK
<1>7. Left(a)' = n + 1 /\ (nticks = 0 => ~rollover'[a])
  <2>1. /\ time'[a] = Expiry(n) /\ rollover'[a] = (Expiry(n) < nticks)
        /\ nticks' = nticks /\ nticks \in 0 .. Wrap - 1
    BY DEF IInv, TypeOK, AlarmStart
  <2>2. /\ Expiry(n) < nticks => nticks # 0 /\ Expiry(n) - nticks + Wrap = n + 1
        /\ ~(Expiry(n) < nticks) => Expiry(n) - nticks = n + 1
    BY <1>3, <2>1, ExpiryLeft
  <2>3. CASE Expiry(n) < nticks
    <3>1. Left(a)' = Expiry(n) - nticks + Wrap
      BY <1>4, <2>1, <2>2, <2>3 DEF Left
    <3>. QED
      BY <2>1, <2>2, <2>3, <3>1
  <2>4. CASE ~(Expiry(n) < nticks)
    <3>0. ~rollover'[a]
      BY <2>1, <2>4
    <3>1. Left(a)' = Expiry(n) - nticks
      BY <1>4, <2>1, <3>0 DEF Left
    <3>. QED
      BY <2>1, <2>2, <2>4, <3>1
  <2>. QED
    BY <2>3, <2>4
<1>8. \A b \in Alarm : b # a =>
        Left(b)' = Left(b) /\ rollover'[b] = rollover[b]
  BY DEF IInv, TypeOK, AlarmStart, walk, Left
<1>9. \A b \in Alarm : b # a /\ Active(b) /\ Settled(b)' => Settled(b)
  <2>1. /\ \A b \in Alarm : Active(b) => place'[b] = place[b] + 1
        /\ \A b \in Alarm : ~Active(b) /\ b # a => place'[b] = 0
        /\ place'[a] = 1 /\ place'[Head] = 0
    BY <1>1 DEF Insert, TypeOK, Node
  <2>. QED
    BY <1>1, <2>1 DEF Settled, Before, AlarmStart, walk, Placed, TypeOK, Node
<1>10. Punctual'
  <2>1. ASSUME NEW b \in Alarm, Active(b)'
        PROVE  /\ Left(b)' >= 0
               /\ Settled(b)' => Left(b)' > 0 /\ (nticks' = 0 => ~rollover'[b])
    <3>1. CASE b = a
      <4>1. Left(b)' = n + 1 /\ (nticks' = 0 => ~rollover'[b])
        BY <1>7, <3>1 DEF AlarmStart
      <4>. QED
        BY <1>3, <4>1
    <3>2. CASE b # a
      BY <1>2, <1>8, <1>9, <2>1, <3>2 DEF IInv, Punctual, AlarmStart
    <3>. QED
      BY <3>1, <3>2
  <2>2. ASSUME pc' = "callback", Active(cursor)'
        PROVE  Left(cursor)' = 0 /\ ~rollover'[cursor']
    <3>1. cursor' = cursor /\ cursor \in Alarm /\ cursor # a /\ pc = "callback"
      BY <1>1, <2>2 DEF AlarmStart, walk, Pointed, TypeOK, Node
    <3>. QED
      BY <1>2, <1>8, <2>2, <3>1 DEF IInv, Punctual, Left
  <2>. QED
    BY <2>1, <2>2 DEF Punctual
<1>. QED
  BY <1>2, <1>5, <1>6, <1>7, <1>8, <1>10 DEF IInv, Ring

\* The invariant is preserved by the stop of an alarm.
LEMMA StopInv ==
  ASSUME IInv, NEW a \in Alarm, AlarmStop(a)
  PROVE  /\ IInv'
         /\ \A b \in Alarm : Active(b)' <=> Active(b) /\ b # a
         /\ \A b \in Alarm : Left(b)' = Left(b)
<1> USE ListAssumption, TimeAssumption
<1>1. TypeOK /\ Linked /\ Placed /\ Pointed /\ Remove(a)
  BY DEF IInv, Ring, AlarmStop
<1>2. /\ Linked' /\ Placed'
      /\ \A b \in Alarm : Active(b)' <=> Active(b) /\ b # a
  BY <1>1, RemoveRing
<1>3. /\ next' \in [Node -> Node] /\ previous' \in [Node -> Node]
      /\ place' \in [Node -> Nat]
  BY <1>1 DEF Remove, TypeOK, Node, Placed
<1>4. TypeOK'
  BY <1>3 DEF IInv, TypeOK, AlarmStop, walk
<1>5. Pointed'
  BY <1>1, <1>2 DEF Pointed, AlarmStop, walk, Node, TypeOK
<1>6. \A b \in Alarm : Left(b)' = Left(b)
  BY DEF AlarmStop, Left
<1>7. \A b \in Alarm : b # a /\ Active(b) /\ Settled(b)' => Settled(b)
  BY <1>1 DEF Settled, Before, AlarmStop, walk, TypeOK, Node, Remove, Placed
<1>8. Punctual'
  <2>1. ASSUME NEW b \in Alarm, Active(b)'
        PROVE  /\ Left(b)' >= 0
               /\ Settled(b)' => Left(b)' > 0 /\ (nticks' = 0 => ~rollover'[b])
    BY <1>2, <1>6, <1>7, <2>1 DEF IInv, Punctual, AlarmStop
  <2>2. ASSUME pc' = "callback", Active(cursor)'
        PROVE  Left(cursor)' = 0 /\ ~rollover'[cursor']
    <3>1. cursor' = cursor /\ cursor \in Alarm /\ pc = "callback"
      BY <1>1, <2>2 DEF AlarmStop, walk, Pointed, TypeOK, Node
    <3>. QED
      BY <1>2, <1>6, <2>2, <3>1 DEF IInv, Punctual, AlarmStop, Left
  <2>. QED
    BY <2>1, <2>2 DEF Punctual
<1>. QED
  BY <1>2, <1>4, <1>5, <1>6, <1>8 DEF IInv, Ring

\* The walk goes on along the ring.
LEMMA NextNode ==
  ASSUME TypeOK, Linked, NEW x \in Node, x = Head \/ Active(x)
  PROVE  next[x] = Head \/ (next[x] \in Alarm /\ Active(next[x]) /\ next[x] # x)
  BY ListAssumption DEF TypeOK, Linked, Active, Node

\* Going on to the next alarm leaves nobody behind but the one just looked at.
LEMMA NextPlace ==
  ASSUME TypeOK, Linked, Placed, NEW x \in Alarm, Active(x),
         NEW b \in Alarm, Active(b), b # x, Before(b, next[x])
  PROVE  Before(b, x)
<1>1. place[b] # place[x] /\ place[b] \in Nat /\ place[x] \in Nat
  BY DEF Placed, TypeOK, Node
<1>2. CASE next[x] = Head
  <2>1. place[b] <= place[x]
    BY <1>2 DEF Placed, Node
  <2>. QED
    BY <1>1, <2>1 DEF Before
<1>3. CASE next[x] # Head
  <2>1. place[next[x]] = place[x] + 1
    BY <1>3 DEF Placed, Node
  <2>. QED
    BY <1>1, <1>3, <2>1 DEF Before
<1>. QED
  BY <1>2, <1>3

\* The invariant is preserved by a tick, which finds every alarm settled.
LEMMA TickInv ==
  ASSUME IInv, Tick
  PROVE  /\ IInv'
         /\ \A a \in Alarm : Active(a)' <=> Active(a)
         /\ \A a \in Alarm : Active(a) => Left(a) > 0 /\ Left(a)' = Left(a) - 1
<1> USE ListAssumption, TimeAssumption
<1>1. TypeOK /\ Linked /\ Placed /\ pc = "thread" /\ pc' = "walk"
  BY DEF IInv, Ring, Tick
<1>2. Linked' /\ Placed' /\ \A a \in Alarm : Active(a)' <=> Active(a)
  BY <1>1, SameLinks DEF Tick
<1>3. nticks \in 0 .. Wrap - 1 /\ nticks' \in 0 .. Wrap - 1
      /\ nticks' = IF nticks + 1 < Wrap THEN nticks + 1 ELSE 0
  BY <1>1 DEF TypeOK, Tick, Low
<1>4. TypeOK'
  BY <1>1, <1>3 DEF TypeOK, Tick, links, Node
<1>5. Pointed'
  BY <1>1, <1>2, NextNode DEF Pointed, Tick, links, Node
<1>6. ASSUME NEW a \in Alarm, Active(a)
      PROVE  Left(a) > 0 /\ Left(a)' = Left(a) - 1
  <2>1. Left(a) > 0 /\ (nticks = 0 => ~rollover[a])
    BY <1>1, <1>6 DEF IInv, Punctual, Settled
  <2>2. time'[a] = time[a] /\ rollover'[a] = rollover[a] /\ time[a] \in 0 .. Wrap - 1
    BY <1>1 DEF Tick, TypeOK
  <2>3. CASE rollover[a]
    BY <1>3, <2>1, <2>2, <2>3 DEF Left
  <2>4. CASE ~rollover[a]
    BY <1>3, <2>1, <2>2, <2>4 DEF Left
  <2>. QED
    BY <2>1, <2>3, <2>4
<1>7. ASSUME NEW a \in Alarm, Active(a)', Settled(a)'
      PROVE  FALSE
  <2>1. Before(a, next[Head])
    BY <1>1, <1>7 DEF Settled, Before, Tick, links
  <2>2. place[a] > 0 /\ place[Head] = 0 /\ place[a] \in Nat
    BY <1>1, <1>2, <1>7 DEF Placed, TypeOK, Node
  <2>3. CASE next[Head] = Head
    BY <1>1, <2>2, <2>3 DEF Placed, Node
  <2>4. CASE next[Head] # Head
    BY <1>1, <2>1, <2>2, <2>4 DEF Placed, Node, Before
  <2>. QED
    BY <2>3, <2>4
<1>8. Punctual'
  <2>1. ASSUME NEW a \in Alarm, Active(a)'
        PROVE  Left(a)' >= 0
    <3>1. Left(a) \in Int
      BY <1>1 DEF Left, TypeOK
    <3>. QED
      BY <1>2, <1>6, <2>1, <3>1
  <2>. QED
    BY <1>1, <1>7, <2>1 DEF Punctual
<1>. QED
  BY <1>2, <1>4, <1>5, <1>6, <1>8 DEF IInv, Ring

\* The test of alt_tick finds exactly the alarms that are due now.
LEMMA DueNow ==
  ASSUME TypeOK, NEW a \in Alarm, Left(a) >= 0
  PROVE  /\ Left(a) \in Int
         /\ (time[a] <= nticks /\ ~(rollover[a] /\ nticks # 0)) <=> Left(a) = 0
<1>1. time[a] \in 0 .. Wrap - 1 /\ nticks \in 0 .. Wrap - 1
  BY DEF TypeOK
<1>2. CASE rollover[a] /\ nticks # 0
  BY <1>1, <1>2, TimeAssumption DEF Left
<1>3. CASE ~(rollover[a] /\ nticks # 0)
  BY <1>1, <1>3, TimeAssumption DEF Left
<1>. QED
  BY <1>2, <1>3

\* The invariant is preserved by a turn of the walk.
LEMMA VisitInv ==
  ASSUME IInv, Visit
  PROVE  IInv' /\ \A a \in Alarm : (Active(a)' <=> Active(a)) /\ Left(a)' = Left(a)
<1> USE ListAssumption, TimeAssumption
<1>1. /\ TypeOK /\ Linked /\ Placed /\ pc = "walk" /\ cursor \in Alarm
      /\ Active(cursor) \/ undercut
  BY DEF IInv, Ring, Visit, Pointed, TypeOK, Node
<1>2. Linked' /\ Placed' /\ \A a \in Alarm : Active(a)' <=> Active(a)
  BY <1>1, SameLinks DEF Visit
<1>3. /\ UNCHANGED <<rate, nticks, time, place, next, previous>>
      /\ rollover' \in [Alarm -> BOOLEAN]
      /\ rollover'[cursor] <=> (rollover[cursor] /\ nticks # 0)
      /\ \A a \in Alarm : a # cursor => rollover'[a] = rollover[a]
  BY <1>1 DEF Visit, TypeOK, links
<1>4. \A a \in Alarm : Left(a)' = Left(a)
  BY <1>3 DEF Left
<1>5. /\ next[cursor] \in Node
      /\ Active(cursor) => next[cursor] = Head
            \/ (next[cursor] \in Alarm /\ Active(next[cursor]) /\ next[cursor] # cursor)
      /\ ~Active(cursor) => next[cursor] = cursor /\ place[cursor] = 0
  BY <1>1, NextNode DEF Node, TypeOK, Active, Placed
<1>6. TypeOK'
  BY <1>1, <1>3, <1>5 DEF TypeOK, Visit, Node
<1>7. Pointed'
  BY <1>1, <1>2, <1>3, <1>5 DEF Pointed, Visit, Active
<1>8. ASSUME NEW a \in Alarm, Active(a), a # cursor, Settled(a)'
      PROVE  Settled(a)
  <2>1. Before(a, next[cursor]) \/ Before(a, cursor)
    BY <1>1, <1>3, <1>8 DEF Settled, Before, Visit
  <2>2. CASE Active(cursor)
    BY <1>1, <1>8, <2>1, <2>2, NextPlace DEF Settled
  <2>3. CASE ~Active(cursor)
    BY <1>1, <1>5, <1>8, <2>1, <2>3 DEF Settled
  <2>. QED
    BY <2>2, <2>3
<1>9. Active(cursor) =>
        /\ Left(cursor) >= 0 /\ Left(cursor) \in Int
        /\ (time[cursor] <= nticks /\ ~rollover'[cursor]) <=> Left(cursor) = 0
  BY <1>1, <1>3, DueNow DEF IInv, Punctual
<1>10. Punctual'
  <2>1. ASSUME NEW a \in Alarm, Active(a)'
        PROVE  /\ Left(a)' >= 0
               /\ Settled(a)' => Left(a)' > 0 /\ (nticks' = 0 => ~rollover'[a])
    <3>1. CASE a # cursor
      BY <1>2, <1>3, <1>4, <1>8, <2>1, <3>1 DEF IInv, Punctual
    <3>2. CASE a = cursor
      <4>1. Settled(a)' => ~(time[cursor] <= nticks /\ ~rollover'[cursor])
        BY <1>1, <3>2 DEF Settled, Visit
      <4>. QED
        BY <1>2, <1>3, <1>4, <1>9, <2>1, <3>2, <4>1
    <3>. QED
      BY <3>1, <3>2
  <2>2. ASSUME pc' = "callback", Active(cursor)'
        PROVE  /\ cursor' = cursor /\ Active(cursor)
               /\ Left(cursor) = 0 /\ ~rollover'[cursor]
    <3>1. cursor' = cursor
      BY <1>1, <2>2 DEF Visit
    <3>2. Active(cursor)
      BY <1>1, <1>2, <2>2, <3>1 DEF Active
    <3>. QED
      BY <1>1, <1>9, <2>2, <3>1, <3>2 DEF Visit
  <2>3. pc' = "callback" /\ Active(cursor)' => Left(cursor)' = 0 /\ ~rollover'[cursor']
    BY <1>1, <1>4, <2>2 DEF Left
  <2>. QED
    BY <2>1, <2>3 DEF Punctual
<1>. QED
  BY <1>2, <1>4, <1>6, <1>7, <1>10 DEF IInv, Ring

\* The invariant is preserved when a callback gives its alarm up.
LEMMA EndsInv ==
  ASSUME IInv, CallbackEnds
  PROVE  /\ IInv' /\ cursor \in Alarm
         /\ \A a \in Alarm : Active(a)' <=> Active(a) /\ a # cursor
         /\ \A a \in Alarm : Left(a)' = Left(a)
         /\ Active(cursor) => Left(cursor) = 0
<1> USE ListAssumption, TimeAssumption
<1>1. /\ TypeOK /\ Linked /\ Placed /\ pc = "callback" /\ cursor \in Alarm
      /\ (upcoming # cursor /\ (upcoming = Head \/ Active(upcoming))) \/ undercut
      /\ Remove(cursor)
  BY DEF IInv, Ring, CallbackEnds, Pointed, TypeOK, Node
<1>2. /\ Linked' /\ Placed'
      /\ \A b \in Alarm : Active(b)' <=> Active(b) /\ b # cursor
  BY <1>1, RemoveRing
<1>3. /\ next' \in [Node -> Node] /\ previous' \in [Node -> Node]
      /\ place' \in [Node -> Nat]
  BY <1>1 DEF Remove, TypeOK, Node, Placed
<1>4. TypeOK'
  BY <1>1, <1>3 DEF TypeOK, CallbackEnds, Node
<1>5. Pointed'
  BY <1>1, <1>2 DEF Pointed, CallbackEnds, Node, TypeOK
<1>6. \A b \in Alarm : Left(b)' = Left(b)
  BY DEF CallbackEnds, Left
<1>7. \A b \in Alarm : b # cursor /\ Active(b) /\ Settled(b)' => Settled(b)
  BY <1>1 DEF Settled, Before, CallbackEnds, TypeOK, Node, Remove, Placed
<1>8. Punctual'
  BY <1>1, <1>2, <1>6, <1>7 DEF IInv, Punctual, CallbackEnds
<1>. QED
  BY <1>1, <1>2, <1>4, <1>5, <1>6, <1>8 DEF IInv, Ring, Punctual

\* The invariant is preserved when a callback names its next period.
LEMMA RepeatsInv ==
  ASSUME IInv, NEW r \in Periods, CallbackRepeats(r)
  PROVE  /\ IInv' /\ cursor \in Alarm /\ r # 0
         /\ \A a \in Alarm : Active(a)' <=> Active(a)
         /\ \A a \in Alarm : a # cursor => Left(a)' = Left(a)
         /\ \A a \in Alarm : a = cursor /\ Active(a) => Left(a) = 0 /\ Left(a)' = r
<1> USE ListAssumption, TimeAssumption
<1>1. /\ TypeOK /\ Linked /\ Placed /\ pc = "callback" /\ cursor \in Alarm
      /\ (upcoming # cursor /\ (upcoming = Head \/ Active(upcoming))) \/ undercut
      /\ r \in 1 .. Wrap - 1
  BY DEF IInv, Ring, CallbackRepeats, Pointed, TypeOK, Node
<1>2. Linked' /\ Placed' /\ \A a \in Alarm : Active(a)' <=> Active(a)
  BY <1>1, SameLinks DEF CallbackRepeats
<1>. DEFINE e == Low(time[cursor] + r)
<1>3. /\ UNCHANGED <<rate, nticks, place, next, previous>>
      /\ time'[cursor] = e
      /\ rollover'[cursor] <=> (rollover[cursor] \/ e < nticks)
      /\ \A a \in Alarm : a # cursor => time'[a] = time[a] /\ rollover'[a] = rollover[a]
      /\ time[cursor] \in 0 .. Wrap - 1 /\ nticks \in 0 .. Wrap - 1
  BY <1>1 DEF CallbackRepeats, TypeOK, links
<1>4. e \in 0 .. Wrap - 1
  BY <1>1, <1>3, ExpiryLeft
<1>5. TypeOK'
  <2>1. time' \in [Alarm -> 0 .. Wrap - 1] /\ rollover' \in [Alarm -> BOOLEAN]
    BY <1>1, <1>4 DEF CallbackRepeats, TypeOK
  <2>. QED
    BY <1>1, <1>3, <2>1 DEF TypeOK, CallbackRepeats, Node
<1>6. Pointed'
  BY <1>1, <1>2 DEF Pointed, CallbackRepeats, Node, TypeOK
<1>7. \A a \in Alarm : a # cursor => Left(a)' = Left(a)
  BY <1>3 DEF Left
<1>8. ASSUME Active(cursor)
      PROVE  /\ Left(cursor) = 0 /\ time'[cursor] - nticks'
                    + (IF rollover'[cursor] /\ nticks' # 0 THEN Wrap ELSE 0) = r
             /\ nticks = 0 => ~rollover'[cursor]
  <2>1. Left(cursor) = 0 /\ ~rollover[cursor]
    BY <1>1, <1>8 DEF IInv, Punctual
  <2>2. time[cursor] = nticks
    BY <1>3, <2>1 DEF Left
  <2>3. /\ e < nticks => nticks # 0 /\ e - nticks + Wrap = r
        /\ ~(e < nticks) => e - nticks = r
    BY <1>1, <1>3, <2>2, ExpiryLeft
  <2>4. rollover'[cursor] <=> e < nticks
    BY <1>3, <2>1
  <2>5. CASE e < nticks
    BY <1>3, <1>4, <2>1, <2>3, <2>4, <2>5
  <2>6. CASE ~(e < nticks)
    BY <1>1, <1>3, <1>4, <2>1, <2>3, <2>4, <2>6
  <2>. QED
    BY <2>5, <2>6
<1>9. \A a \in Alarm : a # cursor /\ Settled(a)' => Settled(a)
  BY <1>1, <1>3 DEF Settled, Before, CallbackRepeats
<1>10. ASSUME NEW a \in Alarm, Active(a)
       PROVE  /\ Left(a)' >= 0
              /\ Settled(a)' => Left(a)' > 0 /\ (nticks' = 0 => ~rollover'[a])
  <2>1. CASE a # cursor
    BY <1>3, <1>7, <1>9, <1>10, <2>1 DEF IInv, Punctual
  <2>2. CASE a = cursor
    <3>1. Left(a)' = r
      BY <1>8, <1>10, <2>2 DEF Left
    <3>. QED
      BY <1>1, <1>3, <1>8, <1>10, <2>2, <3>1
  <2>. QED
    BY <2>1, <2>2
<1>11. Punctual'
  BY <1>1, <1>2, <1>10 DEF Punctual, CallbackRepeats
<1>12. \A a \in Alarm : a = cursor /\ Active(a) => Left(a) = 0 /\ Left(a)' = r
  BY <1>8 DEF Left
<1>. QED
  BY <1>1, <1>2, <1>5, <1>6, <1>7, <1>11, <1>12 DEF IInv, Ring

\* The invariant is preserved at the end of the walk.
LEMMA TickEndInv ==
  ASSUME IInv, TickEnd
  PROVE  IInv' /\ \A a \in Alarm : (Active(a)' <=> Active(a)) /\ Left(a)' = Left(a)
<1> USE ListAssumption, TimeAssumption
<1>1. TypeOK /\ Linked /\ Placed /\ pc = "walk" /\ cursor = Head
  BY DEF IInv, Ring, TickEnd
<1>2. Linked' /\ Placed' /\ \A a \in Alarm : Active(a)' <=> Active(a)
  BY <1>1, SameLinks DEF TickEnd
<1>3. TypeOK' /\ Pointed'
  BY <1>1 DEF TypeOK, Pointed, TickEnd, links, Node
<1>4. \A a \in Alarm : Left(a)' = Left(a) /\ Settled(a)
  BY <1>1 DEF TickEnd, Left, Settled, Before
<1>5. Punctual'
  BY <1>1, <1>2, <1>4 DEF IInv, Punctual, TickEnd
<1>. QED
  BY <1>2, <1>3, <1>4, <1>5 DEF IInv, Ring

\* Steps that change none of what the invariant speaks of.
LEMMA IdleInv ==
  ASSUME IInv, SysclkInit \/ UNCHANGED vars
  PROVE  IInv' /\ \A a \in Alarm : (Active(a)' <=> Active(a)) /\ Left(a)' = Left(a)
<1>1. /\ UNCHANGED <<nticks, next, previous, place, time, rollover, pc, cursor, upcoming,
                  undercut>>
      /\ rate' \in BOOLEAN
  BY DEF SysclkInit, vars, links, walk, IInv, TypeOK
<1>2. \A a \in Alarm : (Active(a)' <=> Active(a)) /\ Left(a)' = Left(a)
  BY <1>1 DEF Active, Left
<1>3. Linked' /\ Placed' /\ Pointed' /\ TypeOK'
  BY <1>1 DEF IInv, Ring, Linked, Placed, Pointed, TypeOK, Active
<1>4. \A a \in Alarm : Settled(a)' <=> Settled(a)
  BY <1>1 DEF Settled, Before
<1>5. Active(cursor)' <=> Active(cursor)
  BY <1>1 DEF Active
<1>6. Left(cursor)' = Left(cursor)
  BY <1>1 DEF Left
<1>7. Punctual'
  BY <1>1, <1>2, <1>4, <1>5, <1>6 DEF IInv, Punctual
<1>. QED
  BY <1>2, <1>3, <1>7 DEF IInv, Ring

\* Every step preserves the inductive invariant.
LEMMA NextInv ==
  ASSUME DelaysFit, IInv, [Next]_vars
  PROVE  IInv'
<1>1. ASSUME NEW a \in Alarm, NEW n \in Delays, AlarmStart(a, n)
      PROVE  IInv'
  BY <1>1, StartInv
<1>2. ASSUME NEW a \in Alarm, AlarmStop(a)
      PROVE  IInv'
  BY <1>2, StopInv
<1>3. ASSUME NEW r \in Periods, CallbackRepeats(r)
      PROVE  IInv'
  BY <1>3, RepeatsInv
<1>. QED
  BY <1>1, <1>2, <1>3, IdleInv, TickInv, VisitInv, EndsInv, TickEndInv
  DEF Next, AltTick, CallbackReturn

-----------------------------------------------------------------------------
(* Theorems *)

\* The list is a ring, the walk stays on it until a callback stops the alarm
\* that next is, and the registers of every alarm stand for the ticks it has
\* left, whatever the callbacks start and stop.
THEOREM Invariance ==
  ASSUME DelaysFit
  PROVE  Spec => []IInv
<1>1. IInv /\ [Next]_vars => IInv'
  BY NextInv
<1>. QED
  BY <1>1, InitInv, PTL DEF Spec

\* The ticks an alarm has left are a number.
LEMMA LeftIsInt ==
  ASSUME IInv, NEW a \in Alarm
  PROVE  Left(a) \in Int
  BY TimeAssumption DEF IInv, TypeOK, Left

\* Every step is one of the countdowns' or changes none of them.
LEMMA NextCounts ==
  ASSUME DelaysFit, IInv, [Next]_vars
  PROVE  [Clock!Next]_Remaining
<1> USE DEF Remaining, Clock!Off
<1>1. ASSUME NEW a \in Alarm, NEW n \in Delays, AlarmStart(a, n)
      PROVE  Clock!Start(a, n)
  BY <1>1, StartInv DEF Clock!Start, AlarmStart
<1>2. ASSUME NEW a \in Alarm, AlarmStop(a)
      PROVE  Clock!Stop(a)
  BY <1>2, StopInv DEF Clock!Stop
<1>3. ASSUME Tick
      PROVE  Clock!Tick
  <2>1. \A a \in Alarm : Active(a) => Left(a) \in Int
    BY LeftIsInt
  <2>. QED
    BY <1>3, <2>1, TickInv DEF Clock!Tick
<1>4. ASSUME CallbackEnds
      PROVE  Clock!GoOff(cursor, 0) \/ UNCHANGED Remaining
  <2>1. CASE Active(cursor)
    BY <1>4, <2>1, EndsInv DEF Clock!GoOff
  <2>2. CASE ~Active(cursor)
    BY <1>4, <2>2, EndsInv
  <2>. QED
    BY <2>1, <2>2
<1>5. ASSUME NEW r \in Periods, CallbackRepeats(r)
      PROVE  Clock!GoOff(cursor, r) \/ UNCHANGED Remaining
  <2>1. CASE Active(cursor)
    BY <1>5, <2>1, RepeatsInv DEF Clock!GoOff
  <2>2. CASE ~Active(cursor)
    BY <1>5, <2>2, RepeatsInv
  <2>. QED
    BY <2>1, <2>2
<1>6. ASSUME SysclkInit \/ Visit \/ TickEnd \/ UNCHANGED vars
      PROVE  UNCHANGED Remaining
  BY <1>6, IdleInv, VisitInv, TickEndInv
<1>7. CASE CallbackEnds
  <2>1. cursor \in Alarm /\ 0 \in Periods
    BY <1>7, EndsInv DEF CallbackEnds
  <2>. QED
    BY <1>4, <1>7, <2>1 DEF Clock!Next
<1>8. ASSUME NEW r \in Periods, CallbackRepeats(r)
      PROVE  [Clock!Next]_Remaining
  <2>1. cursor \in Alarm
    BY <1>8, RepeatsInv
  <2>. QED
    BY <1>5, <1>8, <2>1 DEF Clock!Next
<1>. QED
  BY <1>1, <1>2, <1>3, <1>6, <1>7, <1>8
  DEF Next, AltTick, CallbackReturn, Clock!Next

\* Every alarm goes off at the tick it was started for, and the clock never
\* passes an alarm that is due.
THEOREM Implementation ==
  ASSUME DelaysFit
  PROVE  Spec => KeepsTime
<1>1. Init => Clock!Init
  BY DEF Init, Remaining, Active, Node, Clock!Init, Clock!Off
<1>2. IInv /\ [Next]_vars => [Clock!Next]_Remaining
  BY NextCounts
<1>. QED
  BY <1>1, <1>2, Invariance, PTL DEF Spec, KeepsTime, Clock!Spec
=============================================================================
