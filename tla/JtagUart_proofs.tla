--------------------------- MODULE JtagUart_proofs ---------------------------
(***************************************************************************)
(* Proofs about the JTAG UART: no character is lost, doubled, reordered or *)
(* forgotten, for buffers and FIFOs of any size, any host and any order of *)
(* the program's calls.                                                    *)
(***************************************************************************)
EXTENDS JtagUart, TLAPS

-----------------------------------------------------------------------------
(* Indices: the remainder of a sum of two of them is a case distinction.   *)

LEMMA Remainder ==
  ASSUME NEW b \in Nat \ {0}, NEW x \in Int
  PROVE  /\ x \in 0 .. b - 1 => x % b = x
         /\ x \in b .. b + b - 1 => x % b = x - b
         /\ x \in 1 - b .. -1 => x % b = x + b
OBVIOUS

\* After and Span, and where a character of a buffer is, without remainders.
LEMMA Modulus ==
  /\ \A x \in 0 .. BufLen - 1 : (x % BufLen) = x
  /\ \A x \in BufLen .. BufLen + BufLen - 1 : (x % BufLen) = x - BufLen
  /\ \A x \in 1 - BufLen .. -1 : (x % BufLen) = x + BufLen
<1>1. BufLen \in Nat \ {0}
  BY SizeAssumption
<1>2. \A b \in Nat \ {0}, x \in Int :
        /\ x \in 0 .. b - 1 => (x % b) = x
        /\ x \in b .. b + b - 1 => (x % b) = x - b
        /\ x \in 1 - b .. -1 => (x % b) = x + b
  BY Remainder
<1>3. \A x \in 0 .. BufLen - 1 : (x % BufLen) = x
  BY <1>1, <1>2
<1>4. \A x \in BufLen .. BufLen + BufLen - 1 : (x % BufLen) = x - BufLen
  BY <1>1, <1>2
<1>5. \A x \in 1 - BufLen .. -1 : (x % BufLen) = x + BufLen
  <2> SUFFICES ASSUME NEW x \in 1 - BufLen .. -1
               PROVE  (x % BufLen) = x + BufLen
    OBVIOUS
  <2>1. x \in Int
    BY <1>1
  <2>. QED
    BY <1>1, <2>1, <1>2
<1>. QED
  BY <1>3, <1>4, <1>5

LEMMA Indices ==
  /\ BufLen \in Nat /\ BufLen > 1 /\ Slots = 0 .. BufLen - 1 /\ 0 \in Slots
  /\ \A i \in Slots : After(i) = IF i = BufLen - 1 THEN 0 ELSE i + 1
  /\ \A i \in Slots : After(i) \in Slots
  /\ \A i, j \in Slots : Span(i, j) \in 0 .. BufLen - 1
  /\ \A i, j \in Slots : ((i - j) % BufLen) = Span(i, j)
  /\ \A i, d \in Slots :
       ((i + d) % BufLen) = IF i + d < BufLen THEN i + d ELSE i + d - BufLen
  /\ \A i \in Slots : ((i + BufLen) % BufLen) = i
<1>1. BufLen \in Nat /\ BufLen > 1
  BY SizeAssumption
<1>2. Slots = 0 .. BufLen - 1 /\ 0 \in Slots
  BY <1>1 DEF Slots
<1>3. \A i, d \in Slots :
        ((i + d) % BufLen) = IF i + d < BufLen THEN i + d ELSE i + d - BufLen
  <2> SUFFICES ASSUME NEW i \in Slots, NEW d \in Slots
               PROVE  ((i + d) % BufLen) = IF i + d < BufLen THEN i + d ELSE i + d - BufLen
    OBVIOUS
  <2>1. CASE i + d < BufLen
    <3>1. i + d \in 0 .. BufLen - 1
      BY <1>1, <1>2, <2>1
    <3>. QED
      BY <3>1, <2>1, Modulus
  <2>2. CASE ~ (i + d < BufLen)
    <3> DEFINE x == i + d
    <3>1. x \in BufLen .. BufLen + BufLen - 1
      BY <1>1, <1>2, <2>2
    <3>2. (x % BufLen) = x - BufLen
      <4>. HIDE DEF x
      <4>. QED
        BY <3>1, Modulus
    <3>. QED
      BY <3>2, <2>2, <1>1, <1>2
  <2>. QED
    BY <2>1, <2>2
<1>4. \A i \in Slots : After(i) = IF i = BufLen - 1 THEN 0 ELSE i + 1
  <2> SUFFICES ASSUME NEW i \in Slots
               PROVE  After(i) = IF i = BufLen - 1 THEN 0 ELSE i + 1
    OBVIOUS
  <2>1. 1 \in Slots /\ i \in Int
    BY <1>1, <1>2
  <2>2. ((i + 1) % BufLen) = IF i + 1 < BufLen THEN i + 1 ELSE i + 1 - BufLen
    BY <2>1, <1>3
  <2>3. After(i) = ((i + 1) % BufLen)
    BY DEF After
  <2>. HIDE DEF After
  <2>. QED
    BY <1>1, <1>2, <2>2, <2>3
<1>5. \A i \in Slots : After(i) \in Slots
  BY <1>1, <1>2, <1>4
<1>6. \A i, j \in Slots : Span(i, j) \in 0 .. BufLen - 1
  BY <1>1, <1>2 DEF Span
<1>7. \A i, j \in Slots : ((i - j) % BufLen) = Span(i, j)
  <2> SUFFICES ASSUME NEW i \in Slots, NEW j \in Slots
               PROVE  ((i - j) % BufLen) = Span(i, j)
    OBVIOUS
  <2>1. CASE i >= j
    <3>1. i - j \in 0 .. BufLen - 1 /\ Span(i, j) = i - j
      BY <1>1, <1>2, <2>1 DEF Span
    <3>. QED
      BY <3>1, Modulus
  <2>2. CASE ~ (i >= j)
    <3>1. i - j \in 1 - BufLen .. -1 /\ Span(i, j) = i - j + BufLen
      BY <1>1, <1>2, <2>2 DEF Span
    <3>. QED
      BY <3>1, Modulus
  <2>. QED
    BY <2>1, <2>2
<1>8. \A i \in Slots : ((i + BufLen) % BufLen) = i
  <2> SUFFICES ASSUME NEW i \in Slots
               PROVE  ((i + BufLen) % BufLen) = i
    OBVIOUS
  <2> DEFINE x == i + BufLen
  <2>1. x \in BufLen .. BufLen + BufLen - 1 /\ x - BufLen = i
    BY <1>1, <1>2
  <2>2. (x % BufLen) = x - BufLen
    <3>. HIDE DEF x
    <3>. QED
      BY <2>1, Modulus
  <2>. QED
    BY <2>1, <2>2
<1>. QED
  BY <1>1, <1>2, <1>3, <1>4, <1>5, <1>6, <1>7, <1>8
-----------------------------------------------------------------------------
(* Sequences: the FIFOs of the core.                                       *)

LEMMA Lengths ==
  ASSUME NEW S, NEW q \in Seq(S)
  PROVE  Len(q) \in Nat /\ (q = <<>> <=> Len(q) = 0)
OBVIOUS

LEMMA Appending ==
  ASSUME NEW S, NEW q \in Seq(S), NEW e \in S
  PROVE  /\ Append(q, e) \in Seq(S) /\ Len(Append(q, e)) = Len(q) + 1
         /\ \A k \in 1 .. Len(q) : Append(q, e)[k] = q[k]
         /\ Append(q, e)[Len(q) + 1] = e
OBVIOUS

LEMMA Popping ==
  ASSUME NEW S, NEW q \in Seq(S), q # <<>>
  PROVE  /\ Len(q) > 0 /\ Head(q) = q[1] /\ Head(q) \in S
         /\ Tail(q) \in Seq(S) /\ Len(Tail(q)) = Len(q) - 1
         /\ \A k \in 1 .. Len(q) - 1 : Tail(q)[k] = q[k + 1]
OBVIOUS

-----------------------------------------------------------------------------
(* Who moves what                                                          *)

LEMMA TxFrame ==
  ASSUME [Next]_vars
  PROVE  \/ WriteCopy \/ WritePublish \/ IrqSend \/ HostTake
         \/ UNCHANGED <<tx_buf, tx_in, tx_out, wfifo, copied, delivered>>
<1> USE DEF device, txBuffer, core, history, others
<1>1. CASE Call
  BY <1>1 DEF Call, WriteCall, ReadCall, CloseCall, SetTimeout
<1>2. CASE Resume
  BY <1>2 DEF Resume, WriteLook, WriteKick, WriteSpin, WriteCheck, ReadLook,
              ReadCopy, ReadSpin, ReadCheck, ReadEnable, CloseWait
<1>3. CASE Irq
  BY <1>3 DEF Irq, IrqEnter, IrqControl, IrqRead, IrqSample, IrqRxEnd, IrqTxEnd
<1>4. CASE Timeout
  BY <1>4 DEF Timeout
<1>5. CASE Host
  BY <1>5 DEF Host, HostSend, HostPause, Plug
<1>6. CASE UNCHANGED vars
  BY <1>6 DEF vars
<1>. QED
  BY <1>1, <1>2, <1>3, <1>4, <1>5, <1>6 DEF Next

LEMMA RxFrame ==
  ASSUME [Next]_vars
  PROVE  \/ ReadCopy \/ IrqRead \/ IrqSample \/ HostSend
         \/ UNCHANGED <<rx_buf, rx_in, rx_out, rfifo, rvalid, byte, sent, taken>>
<1> USE DEF device, rxBuffer, core, history, others, handler
<1>1. CASE Call
  BY <1>1 DEF Call, WriteCall, ReadCall, CloseCall, SetTimeout
<1>2. CASE Resume
  BY <1>2 DEF Resume, WriteLook, WriteCopy, WritePublish, WriteKick, WriteSpin,
              WriteCheck, ReadLook, ReadSpin, ReadCheck, ReadEnable, CloseWait
<1>3. CASE Irq
  BY <1>3 DEF Irq, IrqEnter, IrqControl, IrqRxEnd, IrqSend, IrqTxEnd
<1>4. CASE Timeout
  BY <1>4 DEF Timeout
<1>5. CASE Host
  BY <1>5 DEF Host, HostTake, HostPause, Plug
<1>6. CASE UNCHANGED vars
  BY <1>6 DEF vars
<1>. QED
  BY <1>1, <1>2, <1>3, <1>4, <1>5, <1>6 DEF Next

\* While the interrupt routine runs the thread does not.
LEMMA CallFrame ==
  ASSUME [Next]_vars
  PROVE  \/ Call /\ irq = "out"
         \/ Resume /\ irq = "out"
         \/ UNCHANGED call
<1>1. CASE Call
  BY <1>1 DEF Call, WriteCall, ReadCall, CloseCall, SetTimeout, At
<1>2. CASE Resume
  BY <1>2 DEF Resume, WriteLook, WriteCopy, WritePublish, WriteKick, WriteSpin,
              WriteCheck, ReadLook, ReadCopy, ReadSpin, ReadCheck, ReadEnable,
              CloseWait, At
<1>3. CASE Irq
  BY <1>3 DEF Irq, IrqEnter, IrqControl, IrqRead, IrqSample, IrqRxEnd, IrqSend, IrqTxEnd
<1>4. CASE Timeout
  BY <1>4 DEF Timeout
<1>5. CASE Host
  BY <1>5 DEF Host, HostTake, HostSend, HostPause, Plug
<1>6. CASE UNCHANGED vars
  BY <1>6 DEF vars
<1>. QED
  BY <1>1, <1>2, <1>3, <1>4, <1>5, <1>6 DEF Next

-----------------------------------------------------------------------------
(* The start                                                               *)

LEMMA InitInv == Init => IInv /\ NoOverflow
<1> SUFFICES ASSUME Init PROVE IInv /\ NoOverflow
  OBVIOUS
<1> USE SizeAssumption DEF Init
<1>1. /\ copied \in 0 .. MaxTx /\ delivered = copied
      /\ sent \in 0 .. MaxRx /\ taken = sent
  <2>1. PICK s \in Starts : copied = s[1] /\ sent = s[2]
    OBVIOUS
  <2>2. s \in (0 .. MaxTx) \X (0 .. MaxRx)
    BY <2>1
  <2>. QED
    BY <2>1, <2>2
<1>2. 0 \in Slots /\ \A i \in Slots : Span(i, 0) = i /\ i \in Nat
  BY Indices DEF Span
<1>3. <<>> \in Seq(0 .. MaxTx) /\ <<>> \in Seq(0 .. MaxRx) /\ Len(<<>>) = 0
  OBVIOUS
<1>4. TypeOK
  BY <1>1, <1>2, <1>3 DEF TypeOK, DriverType, CoreType, CallType, HandlerType,
     WorldType, RE, WE
<1>5. TxRing
  BY <1>1, <1>2, <1>3 DEF TxRing
<1>6. RxRing
  BY <1>1, <1>2, <1>3 DEF RxRing, InHand
<1>7. WriterKnows /\ ReaderKnows /\ HandlerKnows /\ Awake
  BY DEF WriterKnows, ReaderKnows, HandlerKnows, Awake, Writing, Reading
<1>. QED
  BY <1>4, <1>5, <1>6, <1>7 DEF IInv, NoOverflow
-----------------------------------------------------------------------------
(* Types                                                                   *)

LEMMA SlotType ==
  BufLen \in Nat /\ BufLen > 1 /\ Slots = 0 .. BufLen - 1 /\ 0 \in Slots
BY Indices

LEMMA AfterType ==
  \A i \in Slots : After(i) \in Slots /\ After(i) = IF i = BufLen - 1 THEN 0 ELSE i + 1
BY Indices

LEMMA SpanType ==
  \A i, j \in Slots : Span(i, j) \in 0 .. BufLen - 1
BY Indices

\* What a write finds to be free from tx_in on is free whatever has become of
\* tx_out, and lies in one piece.
LEMMA RoomIsFree ==
  ASSUME DriverType, CallType
  PROVE  /\ Room \in 0 .. BufLen - 1
         /\ Room + Span(tx_in, snap) < BufLen
         /\ tx_in + Room <= BufLen
<1>1. tx_in \in 0 .. BufLen - 1 /\ snap \in 0 .. BufLen - 1 /\ BufLen \in Nat /\ BufLen > 1
  BY SlotType DEF DriverType, CallType
<1>. QED
  BY <1>1 DEF Room, Span

\* And what a read finds to be there.
LEMMA ReadyIsThere ==
  ASSUME DriverType, CallType
  PROVE  /\ Ready \in 0 .. BufLen
         /\ Ready <= Span(snap, rx_out)
         /\ rx_out + Ready <= BufLen
         /\ Span(snap, rx_out) \in 0 .. BufLen - 1
<1>1. rx_out \in 0 .. BufLen - 1 /\ snap \in 0 .. BufLen - 1 /\ BufLen \in Nat /\ BufLen > 1
  BY SlotType DEF DriverType, CallType
<1>. QED
  BY <1>1 DEF Ready, Span

LEMMA LeastOf ==
  ASSUME NEW a \in Nat, NEW b \in Nat
  PROVE  Least(a, b) \in Nat /\ Least(a, b) <= a /\ Least(a, b) <= b
BY DEF Least

\* An index that moves on by what lies in one piece.
LEMMA MovesOn ==
  ASSUME NEW i \in Slots, NEW d \in 0 .. BufLen - 1, i + d <= BufLen
  PROVE  /\ ((i + d) % BufLen) \in Slots
         /\ ((i + d) % BufLen) = IF i + d = BufLen THEN 0 ELSE i + d
<1>1. d \in Slots /\ BufLen \in Nat /\ BufLen > 1 /\ Slots = 0 .. BufLen - 1
  BY SlotType
<1> DEFINE r == (i + d) % BufLen
<1>2. r = IF i + d < BufLen THEN i + d ELSE i + d - BufLen
  BY <1>1, Indices
<1> HIDE DEF r
<1>3. r \in Slots /\ r = IF i + d = BufLen THEN 0 ELSE i + d
  BY <1>1, <1>2
<1>. QED
  BY <1>3 DEF r

\* What a write copies, and what a read does.
LEMMA CopyBounds ==
  ASSUME IInv, WriteCopy
  PROVE  /\ n' \in 0 .. BufLen - 1 /\ n' <= count /\ tx_in + n' <= BufLen
         /\ n' + Span(tx_in, snap) < BufLen
         /\ copied + count <= MaxTx /\ count \in Nat /\ copied \in Nat
<1>1. /\ count \in Nat /\ copied \in Nat /\ copied + count <= MaxTx
      /\ tx_in \in Nat /\ BufLen \in Nat /\ Span(tx_in, snap) \in Nat
  BY SlotType, Indices, SMTT(60)
     DEF WriteCopy, At, IInv, WriterKnows, TypeOK, DriverType, CallType, WorldType, Writing
<1>2. /\ Room \in Nat /\ Room <= BufLen - 1 /\ Room + Span(tx_in, snap) < BufLen
      /\ tx_in + Room <= BufLen
  BY <1>1, RoomIsFree DEF IInv, TypeOK
<1>3. n' = Least(Room, count)
  BY DEF WriteCopy
<1>4. n' \in Nat /\ n' <= Room /\ n' <= count
  BY <1>1, <1>2, <1>3, LeastOf
<1>5. n' \in 0 .. BufLen - 1 /\ tx_in + n' <= BufLen
  <2>1. \A m, r, b, x \in Nat : m <= r /\ r <= b - 1 /\ x + r <= b =>
           m \in 0 .. b - 1 /\ x + m <= b
    OBVIOUS
  <2>. QED
    BY <1>1, <1>2, <1>4, <2>1
<1>6. n' + Span(tx_in, snap) < BufLen
  BY <1>1, <1>2, <1>4
<1>. QED
  BY <1>1, <1>4, <1>5, <1>6

ToRead == Least(Ready, count)

LEMMA ReadBounds ==
  ASSUME IInv, ReadCopy
  PROVE  /\ ToRead \in 0 .. BufLen - 1 /\ ToRead <= count /\ rx_out + ToRead <= BufLen
         /\ ToRead <= Span(snap, rx_out) /\ Span(snap, rx_out) <= Span(rx_in, rx_out)
         /\ taken + count <= MaxRx /\ count \in Nat /\ taken \in Nat
         /\ rx_out' \in Slots
         /\ rx_out' = IF rx_out + ToRead = BufLen THEN 0 ELSE rx_out + ToRead
         /\ taken' = taken + ToRead
<1>1. /\ count \in Nat /\ taken \in Nat /\ taken + count <= MaxRx
      /\ rx_out \in Nat /\ rx_out \in Slots /\ BufLen \in Nat
      /\ Span(snap, rx_out) <= Span(rx_in, rx_out)
  BY SlotType
     DEF ReadCopy, At, IInv, ReaderKnows, TypeOK, DriverType, CallType, WorldType, Reading
<1>2. /\ Ready \in Nat /\ Ready <= Span(snap, rx_out) /\ rx_out + Ready <= BufLen
      /\ Span(snap, rx_out) \in 0 .. BufLen - 1
  BY <1>1, ReadyIsThere DEF IInv, TypeOK
<1>3. ToRead \in Nat /\ ToRead <= Ready /\ ToRead <= count
  BY <1>1, <1>2, LeastOf DEF ToRead
<1>4. ToRead \in 0 .. BufLen - 1 /\ rx_out + ToRead <= BufLen
  BY <1>1, <1>2, <1>3
<1>5. rx_out' = ((rx_out + ToRead) % BufLen) /\ taken' = taken + ToRead
  BY DEF ReadCopy, ToRead
<1>6. rx_out' \in Slots /\ rx_out' = IF rx_out + ToRead = BufLen THEN 0 ELSE rx_out + ToRead
  BY <1>1, <1>4, <1>5, MovesOn
<1>. QED
  BY <1>1, <1>2, <1>3, <1>4, <1>5, <1>6

LEMMA CallTypeStep ==
  ASSUME IInv, [Next]_vars
  PROVE  CallType'
<1> USE DEF CallType, Writing, Waiting, Reading
<1>0. CallType
  BY DEF IInv, TypeOK
<1>1. CASE Call
  <2>1. ASSUME NEW len \in 1 .. MaxTx, NEW nb \in BOOLEAN, WriteCall(len, nb)
        PROVE  CallType'
    BY <1>0, <2>1 DEF WriteCall, Begin
  <2>2. ASSUME NEW len \in 1 .. MaxRx, NEW nb \in BOOLEAN, ReadCall(len, nb)
        PROVE  CallType'
    BY <1>0, <2>2 DEF ReadCall, Begin
  <2>3. ASSUME NEW nb \in BOOLEAN, CloseCall(nb) PROVE CallType'
    BY <1>0, <2>3 DEF CloseCall, Begin
  <2>4. ASSUME NEW t \in Timeouts, SetTimeout(t) PROVE CallType'
    BY <1>0, <2>4 DEF SetTimeout, call, locals
  <2>. QED
    BY <1>1, <2>1, <2>2, <2>3, <2>4 DEF Call
<1>2. ASSUME NEW result \in {"ok", "EIO", "EWOULDBLOCK"}, Return(result)
      PROVE  CallType'
  BY <1>2, SlotType DEF Return
<1>3. WriteResult \in {"ok", "EIO", "EWOULDBLOCK"}
  BY DEF WriteResult
<1>4. CASE WriteLook \/ ReadLook
  BY <1>0, <1>4 DEF WriteLook, ReadLook, Goto, IInv, TypeOK, DriverType
<1>5. CASE WriteCopy
  BY <1>0, <1>5, CopyBounds DEF WriteCopy, Goto
<1>6. CASE WritePublish
  <2>1. n \in 1 .. count
    BY <1>6 DEF WritePublish, At, IInv, WriterKnows
  <2>. QED
    BY <1>0, <1>6, <2>1 DEF WritePublish, Goto
<1>7. CASE WriteKick \/ WriteCheck \/ ReadCheck \/ ReadEnable \/ CloseWait
  <2>1. CASE \E result \in {"ok", "EIO", "EWOULDBLOCK"} : Return(result)
    BY <1>2, <2>1
  <2>2. CASE ~ \E result \in {"ok", "EIO", "EWOULDBLOCK"} : Return(result)
    BY <1>0, <1>3, <1>7, <2>2 DEF WriteKick, WriteCheck, ReadCheck, ReadEnable, CloseWait,
       Goto, locals
  <2>. QED
    BY <2>1, <2>2
<1>8. CASE WriteSpin \/ ReadSpin
  BY <1>0, <1>8 DEF WriteSpin, ReadSpin, Goto, locals
<1>9. CASE ReadCopy
  <2>1. ToRead \in Nat /\ ToRead <= count /\ count \in Nat /\ moved \in Nat
    BY <1>0, <1>9, ReadBounds
  <2>2. \/ Return("EWOULDBLOCK")
        \/ /\ moved' = moved + ToRead /\ count' = count - ToRead
           /\ pc' \in Reading /\ UNCHANGED <<ret, nonblock, snap, n>>
    BY <1>9 DEF ReadCopy, Goto, ToRead
  <2>. QED
    BY <1>0, <1>2, <2>1, <2>2
<1>10. CASE UNCHANGED call
  BY <1>0, <1>10 DEF call, locals
<1>. QED
  BY <1>1, <1>4, <1>5, <1>6, <1>7, <1>8, <1>9, <1>10, CallFrame DEF Resume
\* What a write publishes is what it has copied.
LEMMA PublishBounds ==
  ASSUME IInv, WritePublish
  PROVE  /\ n \in 1 .. count /\ tx_in + n <= BufLen /\ Span(tx_in, tx_out) + n < BufLen
         /\ copied + count <= MaxTx /\ count \in Nat /\ copied \in Nat
         /\ \A i \in tx_in .. tx_in + n - 1 : tx_buf[i] = copied + 1 + i - tx_in
         /\ tx_in' \in Slots /\ tx_in' = IF tx_in + n = BufLen THEN 0 ELSE tx_in + n
<1>1. /\ n \in 1 .. count /\ tx_in + n <= BufLen /\ Span(tx_in, tx_out) + n < BufLen
      /\ copied + count <= MaxTx /\ count \in Nat /\ copied \in Nat
      /\ \A i \in tx_in .. tx_in + n - 1 : tx_buf[i] = copied + 1 + i - tx_in
      /\ n \in 0 .. BufLen - 1 /\ tx_in \in Slots
  BY DEF WritePublish, At, IInv, WriterKnows, TypeOK, DriverType, CallType, WorldType,
         Writing
<1>2. tx_in' = ((tx_in + n) % BufLen)
  BY DEF WritePublish
<1>. QED
  BY <1>1, <1>2, MovesOn

LEMMA DriverTypeStep ==
  ASSUME IInv, [Next]_vars
  PROVE  DriverType'
<1>0. DriverType
  BY DEF IInv, TypeOK
<1>1. tx_buf' \in [Slots -> 0 .. MaxTx] /\ tx_in' \in Slots /\ tx_out' \in Slots
  <2> USE <1>0 DEF DriverType
  <2>1. CASE WriteCopy
    <3>1. tx_buf' = [i \in Slots |-> IF i \in tx_in .. tx_in + n' - 1
                                       THEN copied + 1 + i - tx_in ELSE tx_buf[i]]
      BY <2>1 DEF WriteCopy
    <3>2. n' \in Nat /\ n' <= count /\ copied + count <= MaxTx /\ count \in Nat
          /\ copied \in Nat /\ MaxTx \in Nat /\ tx_in \in Nat /\ Slots \subseteq Nat
      BY <2>1, CopyBounds, SlotType, SizeAssumption
    <3>3. ASSUME NEW i \in Slots, i \in tx_in .. tx_in + n' - 1
          PROVE  copied + 1 + i - tx_in \in 0 .. MaxTx
      <4>1. \A c, k, m, x \in Nat : \A j \in x .. x + m - 1 :
              m <= k /\ c + k <= MaxTx => c + 1 + j - x \in 0 .. MaxTx
        BY SizeAssumption
      <4>. HIDE DEF DriverType
      <4>. QED
        BY <3>2, <3>3, <4>1
    <3>. QED
      BY <2>1, <3>1, <3>3 DEF WriteCopy
  <2>2. CASE WritePublish
    BY <2>2, PublishBounds DEF WritePublish
  <2>3. CASE IrqSend
    BY <2>3, AfterType DEF IrqSend
  <2>4. CASE HostTake
    BY <2>4 DEF HostTake, txBuffer
  <2>. QED
    BY <2>1, <2>2, <2>3, <2>4, TxFrame
<1>2. rx_buf' \in [Slots -> 0 .. MaxRx] /\ rx_in' \in Slots /\ rx_out' \in Slots
  <2> USE <1>0 DEF DriverType
  <2>1. CASE ReadCopy
    BY <2>1, ReadBounds DEF ReadCopy
  <2>2. CASE IrqRead
    BY <2>2 DEF IrqRead, rxBuffer
  <2>3. CASE IrqSample
    <3>1. After(rx_in) \in Slots
      BY AfterType
    <3>2. byte \in 0 .. MaxRx
      BY DEF IInv, TypeOK, HandlerType
    <3>. QED
      BY <2>3, <3>1, <3>2 DEF IrqSample
  <2>4. CASE HostSend
    BY <2>4 DEF HostSend, rxBuffer
  <2>. QED
    BY <2>1, <2>2, <2>3, <2>4, RxFrame
<1>3. irq_enable' \subseteq {RE, WE}
  <2>1. irq_enable' \subseteq irq_enable \union {RE, WE}
    <3> USE DEF device, others, handler, world
    <3>1. CASE Call
      BY <3>1 DEF Call, WriteCall, ReadCall, CloseCall, SetTimeout
    <3>2. CASE Resume
      BY <3>2 DEF Resume, WriteLook, WriteCopy, WritePublish, WriteKick, WriteSpin,
         WriteCheck, ReadLook, ReadCopy, ReadSpin, ReadCheck, ReadEnable, CloseWait
    <3>3. CASE Irq
      BY <3>3 DEF Irq, IrqEnter, IrqControl, IrqRead, IrqSample, IrqRxEnd, IrqSend, IrqTxEnd
    <3>4. CASE Timeout
      BY <3>4 DEF Timeout
    <3>5. CASE Host
      BY <3>5 DEF Host, HostTake, HostSend, HostPause, Plug
    <3>6. CASE UNCHANGED vars
      BY <3>6 DEF vars
    <3>. QED
      BY <3>1, <3>2, <3>3, <3>4, <3>5, <3>6 DEF Next
  <2>. QED
    BY <1>0, <2>1 DEF DriverType
<1>4. host_inactive' \in 0 .. IntMax - 2 /\ timeout' \in 1 .. IntMax
  <2> USE <1>0 DEF DriverType
  <2>1. ASSUME NEW t \in Timeouts, SetTimeout(t)
        PROVE  host_inactive' \in 0 .. IntMax - 2 /\ timeout' \in 1 .. IntMax
    BY <2>1, SizeAssumption DEF SetTimeout
  <2>2. CASE Timeout
    BY <2>2, SizeAssumption DEF Timeout
  <2>3. CASE UNCHANGED <<host_inactive, timeout>>
    BY <2>3
  <2>4. \/ \E t \in Timeouts : SetTimeout(t)
        \/ Timeout
        \/ UNCHANGED <<host_inactive, timeout>>
    <3> USE DEF device, others, handler, world
    <3>1. CASE Call
      BY <3>1 DEF Call, WriteCall, ReadCall, CloseCall
    <3>2. CASE Resume
      BY <3>2 DEF Resume, WriteLook, WriteCopy, WritePublish, WriteKick, WriteSpin,
         WriteCheck, ReadLook, ReadCopy, ReadSpin, ReadCheck, ReadEnable, CloseWait
    <3>3. CASE Irq
      BY <3>3 DEF Irq, IrqEnter, IrqControl, IrqRead, IrqSample, IrqRxEnd, IrqSend, IrqTxEnd
    <3>4. CASE Host
      BY <3>4 DEF Host, HostTake, HostSend, HostPause, Plug
    <3>5. CASE UNCHANGED vars
      BY <3>5 DEF vars
    <3>. QED
      BY <3>1, <3>2, <3>3, <3>4, <3>5 DEF Next
  <2>. QED
    BY <2>1, <2>2, <2>3, <2>4
<1>. QED
  BY <1>1, <1>2, <1>3, <1>4 DEF DriverType

\* Nothing is ever appended to a full FIFO.
LEMMA CoreTypeStep ==
  ASSUME IInv, [Next]_vars
  PROVE  CoreType' /\ (NoOverflow => NoOverflow')
<1>0. CoreType /\ DriverType /\ HandlerType /\ WorldType /\ HandlerKnows
  BY DEF IInv, TypeOK
<1>1. CASE IrqSend
  <2>1. /\ wfifo \in Seq(0 .. MaxTx) /\ Len(wfifo) \in Nat /\ Len(wfifo) < Depth
        /\ tx_buf[tx_out] \in 0 .. MaxTx /\ Depth \in Nat
    <3>1. space > 0 /\ space + Len(wfifo) <= Depth /\ space \in Int
      BY <1>0, <1>1 DEF IrqSend, HandlerKnows, HandlerType
    <3>2. wfifo \in Seq(0 .. MaxTx) /\ tx_buf[tx_out] \in 0 .. MaxTx
      BY <1>0 DEF CoreType, DriverType
    <3>3. Len(wfifo) \in Nat /\ Depth \in Nat
      BY <3>2, Lengths, SizeAssumption
    <3>. QED
      BY <3>1, <3>2, <3>3
  <2>2. woverflow' = FALSE /\ wfifo' = Append(wfifo, tx_buf[tx_out])
    <3>1. Len(wfifo) # Depth
      BY <2>1
    <3>. QED
      BY <1>1, <3>1, Zenon DEF IrqSend
  <2>3. wfifo' \in Seq(0 .. MaxTx) /\ Len(wfifo') = Len(wfifo) + 1
    BY <2>1, <2>2, Appending
  <2>4. Len(wfifo') <= Depth
    BY <2>1, <2>3
  <2>. QED
    BY <1>0, <1>1, <2>2, <2>3, <2>4 DEF IrqSend, CoreType, NoOverflow
<1>2. CASE HostTake
  <2>1. wfifo \in Seq(0 .. MaxTx) /\ Len(wfifo) \in Nat /\ wfifo # <<>> /\ Depth \in Nat
        /\ Len(wfifo) <= Depth
    BY <1>0, <1>2, Lengths, SizeAssumption DEF CoreType, HostTake
  <2>2. wfifo' = Tail(wfifo)
    BY <1>2 DEF HostTake
  <2>3. wfifo' \in Seq(0 .. MaxTx) /\ Len(wfifo') = Len(wfifo) - 1
    BY <2>1, <2>2, Popping
  <2>4. Len(wfifo') <= Depth
    BY <2>1, <2>3
  <2>. QED
    BY <1>0, <1>2, <2>3, <2>4 DEF HostTake, CoreType, NoOverflow
<1>3. CASE HostSend
  <2>1. rfifo \in Seq(0 .. MaxRx) /\ Len(rfifo) \in Nat /\ Len(rfifo) < Depth
        /\ sent + 1 \in 0 .. MaxRx /\ Depth \in Nat
    BY <1>0, <1>3, Lengths, SizeAssumption DEF CoreType, WorldType, HostSend
  <2>2. rfifo' = Append(rfifo, sent + 1)
    BY <1>3 DEF HostSend
  <2>3. rfifo' \in Seq(0 .. MaxRx) /\ Len(rfifo') = Len(rfifo) + 1
    BY <2>1, <2>2, Appending
  <2>4. Len(rfifo') <= Depth
    BY <2>1, <2>3
  <2>. QED
    BY <1>0, <1>3, <2>3, <2>4 DEF HostSend, CoreType, NoOverflow
<1>4. CASE IrqRead
  <2>1. rfifo \in Seq(0 .. MaxRx) /\ Len(rfifo) \in Nat /\ Len(rfifo) <= Depth /\ Depth \in Nat
    BY <1>0, Lengths, SizeAssumption DEF CoreType
  <2>2. rfifo' = rfifo \/ (rfifo # <<>> /\ rfifo' = Tail(rfifo))
    BY <1>4 DEF IrqRead
  <2>3. rfifo' \in Seq(0 .. MaxRx) /\ Len(rfifo') <= Depth
    <3>1. CASE rfifo' = rfifo
      BY <2>1, <3>1
    <3>2. CASE rfifo' # rfifo
      <4>1. rfifo # <<>> /\ rfifo' = Tail(rfifo)
        BY <2>2, <3>2
      <4>2. rfifo' \in Seq(0 .. MaxRx) /\ Len(rfifo') = Len(rfifo) - 1
        BY <2>1, <4>1, Popping
      <4>3. Len(rfifo') <= Depth
        BY <2>1, <4>2
      <4>. QED
        BY <4>2, <4>3
    <3>. QED
      BY <3>1, <3>2
  <2>. QED
    BY <1>0, <1>4, <2>3 DEF IrqRead, CoreType, NoOverflow
<1>5. CASE Timeout
  BY <1>0, <1>5 DEF Timeout, CoreType, NoOverflow
<1>6. CASE HostPause
  BY <1>0, <1>6 DEF HostPause, CoreType, NoOverflow
<1>7. CASE UNCHANGED core
  BY <1>0, <1>7 DEF core, CoreType, NoOverflow
<1>8. \/ IrqSend \/ HostTake \/ HostSend \/ IrqRead \/ Timeout \/ HostPause
      \/ UNCHANGED core
  <2> USE DEF device, others, handler, world
  <2>1. CASE Call
    BY <2>1 DEF Call, WriteCall, ReadCall, CloseCall, SetTimeout
  <2>2. CASE Resume
    BY <2>2 DEF Resume, WriteLook, WriteCopy, WritePublish, WriteKick, WriteSpin,
       WriteCheck, ReadLook, ReadCopy, ReadSpin, ReadCheck, ReadEnable, CloseWait
  <2>3. CASE Irq
    BY <2>3 DEF Irq, IrqEnter, IrqControl, IrqSample, IrqRxEnd, IrqTxEnd
  <2>4. CASE Host
    BY <2>4 DEF Host, Plug
  <2>5. CASE UNCHANGED vars
    BY <2>5 DEF vars
  <2>. QED
    BY <1>5, <2>1, <2>2, <2>3, <2>4, <2>5 DEF Next
<1>. QED
  BY <1>1, <1>2, <1>3, <1>4, <1>5, <1>6, <1>7, <1>8
LEMMA HandlerTypeStep ==
  ASSUME IInv, [Next]_vars
  PROVE  HandlerType'
<1>0. HandlerType /\ CoreType
  BY DEF IInv, TypeOK
<1> USE DEF HandlerType
<1>1. CASE IrqEnter \/ IrqRxEnd \/ IrqTxEnd
  BY <1>0, <1>1 DEF IrqEnter, IrqRxEnd, IrqTxEnd
<1>2. CASE IrqControl
  <2>1. Len(wfifo) \in Nat /\ Len(wfifo) <= Depth /\ Depth \in Nat
    BY <1>0, Lengths, SizeAssumption DEF CoreType
  <2>2. space' = 0 \/ space' = Depth - Len(wfifo)
    BY <1>2 DEF IrqControl
  <2>3. space' \in 0 .. Depth
    BY <2>1, <2>2
  <2>. QED
    BY <1>0, <1>2, <2>3 DEF IrqControl
<1>3. CASE IrqRead
  <2>1. byte' \in 0 .. MaxRx
    <3>1. rfifo # <<>> => Head(rfifo) \in 0 .. MaxRx
      BY <1>0, Popping DEF CoreType
    <3>. QED
      BY <1>0, <1>3, <3>1 DEF IrqRead
  <2>2. rvalid' \in BOOLEAN
    BY <1>0, <1>3, Zenon DEF IrqRead
  <2>. QED
    BY <1>0, <1>3, <2>1, <2>2 DEF IrqRead
<1>4. CASE IrqSample
  <2>1. avail' \in BOOLEAN
    BY <1>4, Zenon DEF IrqSample
  <2>2. 0 \in 0 .. MaxRx
    BY SizeAssumption
  <2>. QED
    BY <1>0, <1>4, <2>1, <2>2 DEF IrqSample
<1>5. CASE IrqSend
  BY <1>0, <1>5, SizeAssumption DEF IrqSend
<1>6. CASE UNCHANGED handler
  BY <1>0, <1>6 DEF handler
<1>7. Irq \/ UNCHANGED handler
  <2> USE DEF others
  <2>1. CASE Call
    BY <2>1 DEF Call, WriteCall, ReadCall, CloseCall, SetTimeout
  <2>2. CASE Resume
    BY <2>2 DEF Resume, WriteLook, WriteCopy, WritePublish, WriteKick, WriteSpin,
       WriteCheck, ReadLook, ReadCopy, ReadSpin, ReadCheck, ReadEnable, CloseWait
  <2>3. CASE Timeout
    BY <2>3 DEF Timeout
  <2>4. CASE Host
    BY <2>4 DEF Host, HostTake, HostSend, HostPause, Plug
  <2>5. CASE UNCHANGED vars
    BY <2>5 DEF vars
  <2>. QED
    BY <2>1, <2>2, <2>3, <2>4, <2>5 DEF Next
<1>. QED
  BY <1>1, <1>2, <1>3, <1>4, <1>5, <1>6, <1>7 DEF Irq

\* The host receives no more than was written.
LEMMA HostTakes ==
  ASSUME IInv, HostTake
  PROVE  /\ wfifo \in Seq(0 .. MaxTx) /\ wfifo # <<>> /\ Len(wfifo) \in Nat
         /\ Len(wfifo) > 0 /\ wfifo' = Tail(wfifo) /\ Len(wfifo') = Len(wfifo) - 1
         /\ \A k \in 1 .. Len(wfifo) - 1 : wfifo'[k] = wfifo[k + 1]
         /\ delivered' = delivered + 1 /\ delivered + 1 <= copied
<1>1. wfifo \in Seq(0 .. MaxTx) /\ wfifo # <<>>
  BY DEF IInv, TypeOK, CoreType, HostTake
<1>2. /\ Len(wfifo) \in Nat /\ Len(wfifo) > 0 /\ Len(Tail(wfifo)) = Len(wfifo) - 1
      /\ \A k \in 1 .. Len(wfifo) - 1 : Tail(wfifo)[k] = wfifo[k + 1]
  BY <1>1, Popping, Lengths
<1>3. wfifo' = Tail(wfifo) /\ delivered' = delivered + 1
  BY DEF HostTake
<1>4. Span(tx_in, tx_out) \in Nat /\ delivered \in Nat /\ copied \in Nat
      /\ Len(wfifo) + Span(tx_in, tx_out) = copied - delivered
  BY SpanType, SlotType DEF IInv, TypeOK, DriverType, WorldType, TxRing
<1>5. delivered + 1 <= copied
  BY <1>2, <1>4
<1>. QED
  BY <1>1, <1>2, <1>3, <1>5

LEMMA WorldTypeStep ==
  ASSUME IInv, [Next]_vars
  PROVE  WorldType'
<1>0. WorldType /\ MaxPlugs \in Nat /\ MaxTx \in Nat /\ MaxRx \in Nat
  BY SizeAssumption DEF IInv, TypeOK
<1>1. copied' \in 0 .. MaxTx /\ delivered' \in 0 .. MaxTx
  <2>1. CASE WriteCopy
    BY <1>0, <2>1 DEF WriteCopy, history, WorldType
  <2>2. CASE WritePublish
    BY <1>0, <2>2, PublishBounds DEF WritePublish, WorldType
  <2>3. CASE IrqSend
    BY <1>0, <2>3 DEF IrqSend, history, WorldType
  <2>4. CASE HostTake
    BY <1>0, <2>4, HostTakes DEF HostTake, WorldType
  <2>. QED
    BY <1>0, <2>1, <2>2, <2>3, <2>4, TxFrame DEF WorldType
<1>2. sent' \in 0 .. MaxRx /\ taken' \in 0 .. MaxRx
  <2>1. CASE ReadCopy
    <3>1. taken' = taken + ToRead /\ ToRead \in Nat /\ ToRead <= count
          /\ taken + count <= MaxRx /\ count \in Nat /\ taken \in Nat
      BY <2>1, ReadBounds
    <3>2. taken' \in 0 .. MaxRx
      BY <1>0, <3>1
    <3>. QED
      BY <1>0, <2>1, <3>2 DEF ReadCopy, WorldType
  <2>2. CASE IrqRead \/ IrqSample
    BY <1>0, <2>2 DEF IrqRead, IrqSample, history, WorldType
  <2>3. CASE HostSend
    BY <1>0, <2>3 DEF HostSend, WorldType
  <2>. QED
    BY <1>0, <2>1, <2>2, <2>3, RxFrame DEF WorldType
<1>3. host' \in {"on", "off"} /\ plugs' \in 0 .. MaxPlugs
  <2>1. CASE Plug
    BY <1>0, <2>1 DEF Plug, WorldType
  <2>2. CASE UNCHANGED world
    BY <1>0, <2>2 DEF world, WorldType
  <2>3. Plug \/ UNCHANGED world
    <3> USE DEF others
    <3>1. CASE Call
      BY <3>1 DEF Call, WriteCall, ReadCall, CloseCall, SetTimeout
    <3>2. CASE Resume
      BY <3>2 DEF Resume, WriteLook, WriteCopy, WritePublish, WriteKick, WriteSpin,
         WriteCheck, ReadLook, ReadCopy, ReadSpin, ReadCheck, ReadEnable, CloseWait
    <3>3. CASE Irq
      BY <3>3 DEF Irq, IrqEnter, IrqControl, IrqRead, IrqSample, IrqRxEnd, IrqSend, IrqTxEnd
    <3>4. CASE Timeout
      BY <3>4 DEF Timeout
    <3>5. CASE Host
      BY <3>5 DEF Host, HostTake, HostSend, HostPause
    <3>6. CASE UNCHANGED vars
      BY <3>6 DEF vars
    <3>. QED
      BY <3>1, <3>2, <3>3, <3>4, <3>5, <3>6 DEF Next
  <2>. QED
    BY <2>1, <2>2, <2>3
<1>. QED
  BY <1>1, <1>2, <1>3 DEF WorldType

LEMMA TypeStep == ASSUME IInv, [Next]_vars PROVE TypeOK'
BY DriverTypeStep, CoreTypeStep, CallTypeStep, HandlerTypeStep, WorldTypeStep DEF TypeOK
-----------------------------------------------------------------------------
(* The buffers as rings                                                    *)

\* Slots beyond the last character hold none.
LEMMA Beyond ==
  ASSUME NEW in \in Slots, NEW out \in Slots, NEW m \in Nat, m + Span(in, out) < BufLen,
         NEW i \in Slots, i \in in .. in + m - 1
  PROVE  Span(i, out) = Span(in, out) + i - in
BY SlotType DEF Span

\* m characters more
LEMMA Filled ==
  ASSUME NEW in \in Slots, NEW out \in Slots, NEW m \in Nat, m + Span(in, out) < BufLen,
         in + m <= BufLen, NEW next, next = IF in + m = BufLen THEN 0 ELSE in + m
  PROVE  /\ Span(next, out) = Span(in, out) + m
         /\ \A i \in Slots : Span(i, out) < Span(in, out) + m =>
              Span(i, out) < Span(in, out) \/ i \in in .. in + m - 1
BY SlotType DEF Span

\* m characters less
LEMMA Emptied ==
  ASSUME NEW in \in Slots, NEW out \in Slots, NEW m \in Nat, m <= Span(in, out),
         out + m <= BufLen, NEW next, next = IF out + m = BufLen THEN 0 ELSE out + m
  PROVE  /\ Span(in, next) = Span(in, out) - m
         /\ \A i \in Slots : Span(i, next) < Span(in, next) =>
              Span(i, out) = Span(i, next) + m
BY SlotType DEF Span

LEMMA SpanZero ==
  ASSUME NEW in \in Slots, NEW out \in Slots
  PROVE  /\ Span(in, out) = 0 <=> in = out
         /\ Span(out, out) = 0
BY SlotType DEF Span

LEMMA TxRingStep ==
  ASSUME IInv, [Next]_vars
  PROVE  TxRing'
<1>0. /\ TxRing /\ tx_in \in Slots /\ tx_out \in Slots /\ tx_buf \in [Slots -> 0 .. MaxTx]
      /\ wfifo \in Seq(0 .. MaxTx) /\ Len(wfifo) \in Nat
      /\ delivered \in Nat /\ copied \in Nat /\ Slots \subseteq Nat /\ BufLen \in Nat
      /\ Span(tx_in, tx_out) \in Nat
      /\ Len(wfifo) + Span(tx_in, tx_out) = copied - delivered
  <2>1. /\ TxRing /\ tx_in \in Slots /\ tx_out \in Slots /\ tx_buf \in [Slots -> 0 .. MaxTx]
        /\ wfifo \in Seq(0 .. MaxTx) /\ delivered \in Nat /\ copied \in Nat
    BY DEF IInv, TypeOK, DriverType, CoreType, WorldType
  <2>2. Len(wfifo) \in Nat
    BY <2>1, Lengths
  <2>3. Slots \subseteq Nat /\ BufLen \in Nat
    BY SlotType
  <2>5. Span(tx_in, tx_out) \in Nat
    <3>1. Span(tx_in, tx_out) \in 0 .. BufLen - 1
      BY <2>1, SpanType
    <3>. QED
      BY <3>1, <2>3
  <2>4. Len(wfifo) + Span(tx_in, tx_out) = copied - delivered
    BY <2>1 DEF TxRing
  <2>. QED
    BY <2>1, <2>2, <2>3, <2>4, <2>5
<1>1. CASE WriteCopy
  <2>1. /\ tx_buf' = [i \in Slots |-> IF i \in tx_in .. tx_in + n' - 1
                                        THEN copied + 1 + i - tx_in ELSE tx_buf[i]]
        /\ UNCHANGED <<tx_in, tx_out, wfifo, delivered, copied>>
    BY <1>1 DEF WriteCopy, core, history
  <2>2. n' \in Nat /\ n' + Span(tx_in, tx_out) < BufLen
    <3>1. Span(tx_in, tx_out) <= Span(tx_in, snap) /\ Span(tx_in, snap) \in Nat
      BY <1>0, <1>1, SpanType, SlotType
         DEF WriteCopy, At, IInv, WriterKnows, TypeOK, CallType
    <3>. QED
      BY <1>0, <1>1, <3>1, CopyBounds, SMTT(60)
  <2>3. ASSUME NEW i \in Slots, Span(i, tx_out) < Span(tx_in, tx_out)
        PROVE  tx_buf'[i] = tx_buf[i]
    <3>1. ASSUME i \in tx_in .. tx_in + n' - 1 PROVE FALSE
      <4>1. Span(i, tx_out) = Span(tx_in, tx_out) + i - tx_in
        BY <1>0, <2>2, <3>1, Beyond, ZenonT(120)
      <4>. QED
        BY <1>0, <2>3, <3>1, <4>1
    <3>. QED
      BY <2>1, <3>1
  <2>4. Span(tx_in, tx_out)' = Span(tx_in, tx_out)
        /\ \A i \in Slots : Span(i, tx_out)' = Span(i, tx_out)
    BY <2>1 DEF Span
  <2>. QED
    BY <1>0, <2>1, <2>3, <2>4 DEF TxRing
<1>2. CASE WritePublish
  <2>1. /\ UNCHANGED <<tx_buf, tx_out, wfifo, delivered>>
        /\ copied' = copied + n
    BY <1>2 DEF WritePublish, core
  <2>2. /\ n \in Nat /\ n + Span(tx_in, tx_out) < BufLen /\ tx_in + n <= BufLen
        /\ tx_in' = IF tx_in + n = BufLen THEN 0 ELSE tx_in + n
        /\ \A i \in tx_in .. tx_in + n - 1 : tx_buf[i] = copied + 1 + i - tx_in
    BY <1>0, <1>2, PublishBounds, SMTT(60)
  <2>3. Span(tx_in', tx_out) = Span(tx_in, tx_out) + n
    BY <1>0, <2>2, Filled
  <2>4. ASSUME NEW i \in Slots, Span(i, tx_out) < Span(tx_in, tx_out) + n
        PROVE  tx_buf[i] = delivered + Len(wfifo) + 1 + Span(i, tx_out)
    <3>1. Span(i, tx_out) < Span(tx_in, tx_out) \/ i \in tx_in .. tx_in + n - 1
      BY <1>0, <2>2, <2>4, Filled
    <3>2. CASE Span(i, tx_out) < Span(tx_in, tx_out)
      BY <1>0, <3>2 DEF TxRing
    <3>3. CASE i \in tx_in .. tx_in + n - 1
      <4>1. Span(i, tx_out) = Span(tx_in, tx_out) + i - tx_in
        BY <1>0, <2>2, <3>3, Beyond, SMTT(60)
      <4>2. tx_buf[i] = copied + 1 + i - tx_in
        BY <2>2, <3>3
      <4> DEFINE l == Len(wfifo)
                 p == Span(tx_in, tx_out)
      <4>3. /\ l \in Nat /\ p \in Nat /\ l + p = copied - delivered
            /\ copied \in Nat /\ delivered \in Nat /\ i \in Nat /\ tx_in \in Nat
        BY <1>0
      <4>4. Span(i, tx_out) = p + i - tx_in
        BY <4>1
      <4>. HIDE DEF l, p
      <4>5. delivered + l + 1 + Span(i, tx_out) = copied + 1 + i - tx_in
        BY <4>3, <4>4
      <4>. QED
        BY <4>2, <4>5 DEF l
    <3>. QED
      BY <3>1, <3>2, <3>3
  <2>5. Len(wfifo) + (Span(tx_in, tx_out) + n) = (copied + n) - delivered
    <3> DEFINE l == Len(wfifo)
               p == Span(tx_in, tx_out)
    <3>1. /\ l \in Nat /\ p \in Nat /\ l + p = copied - delivered
          /\ copied \in Nat /\ delivered \in Nat /\ n \in Nat
      BY <1>0, <2>2
    <3>. HIDE DEF l, p
    <3>2. l + (p + n) = (copied + n) - delivered
      BY <3>1
    <3>. QED
      BY <3>2 DEF l, p
  <2>6. Span(tx_in, tx_out)' = Span(tx_in, tx_out) + n
        /\ \A i \in Slots : Span(i, tx_out)' = Span(i, tx_out)
    BY <2>1, <2>3 DEF Span
  <2>. QED
    BY <1>0, <2>1, <2>4, <2>5, <2>6 DEF TxRing
<1>3. CASE IrqSend
  <2>1. UNCHANGED <<tx_buf, tx_in, delivered, copied>> /\ tx_out # tx_in
    BY <1>3 DEF IrqSend, history
  <2>2. tx_out' = IF tx_out + 1 = BufLen THEN 0 ELSE tx_out + 1
    <3>1. tx_out' = After(tx_out)
      BY <1>3 DEF IrqSend
    <3>2. tx_out = BufLen - 1 <=> tx_out + 1 = BufLen
      BY <1>0, SlotType
    <3>. QED
      BY <1>0, <3>1, <3>2, AfterType
  <2>3. 1 <= Span(tx_in, tx_out) /\ tx_out + 1 <= BufLen
    BY <1>0, <2>1, SpanZero, SlotType
  <2>4. /\ Span(tx_in, tx_out') = Span(tx_in, tx_out) - 1
        /\ \A i \in Slots : Span(i, tx_out') < Span(tx_in, tx_out') =>
             Span(i, tx_out) = Span(i, tx_out') + 1
    BY <1>0, <2>2, <2>3, Emptied
  <2>5. /\ wfifo' = Append(wfifo, tx_buf[tx_out])
        /\ tx_buf[tx_out] \in 0 .. MaxTx
        /\ tx_buf[tx_out] = delivered + Len(wfifo) + 1
    <3>1. woverflow' = (Len(wfifo) = Depth) /\ (woverflow' \/ wfifo' = Append(wfifo, tx_buf[tx_out]))
      BY <1>3 DEF IrqSend
    <3>2. Len(wfifo) # Depth
      BY <1>0, <1>3, SizeAssumption DEF IrqSend, IInv, HandlerKnows, TypeOK, HandlerType
    <3>3. wfifo' = Append(wfifo, tx_buf[tx_out])
      BY <3>1, <3>2, Zenon
    <3>4. Span(tx_out, tx_out) < Span(tx_in, tx_out)
      BY <1>0, <2>3, SpanZero
    <3>. QED
      BY <1>0, <3>3, <3>4, SpanZero DEF TxRing
  <2>6. /\ Len(wfifo') = Len(wfifo) + 1
        /\ \A k \in 1 .. Len(wfifo) : wfifo'[k] = wfifo[k]
        /\ wfifo'[Len(wfifo) + 1] = tx_buf[tx_out]
    BY <1>0, <2>5, Appending
  <2>7. \A k \in 1 .. Len(wfifo') : wfifo'[k] = delivered + k
    <3>1. \A k \in 1 .. Len(wfifo) : wfifo[k] = delivered + k
      BY <1>0 DEF TxRing
    <3>2. wfifo'[Len(wfifo) + 1] = delivered + (Len(wfifo) + 1)
      BY <1>0, <2>5, <2>6
    <3>3. \A k \in 1 .. Len(wfifo') : k \in 1 .. Len(wfifo) \/ k = Len(wfifo) + 1
      BY <1>0, <2>6
    <3>. QED
      BY <2>6, <3>1, <3>2, <3>3
  <2>8. ASSUME NEW i \in Slots, Span(i, tx_out') < Span(tx_in, tx_out')
        PROVE  tx_buf[i] = delivered + Len(wfifo') + 1 + Span(i, tx_out')
    <3>1. Span(i, tx_out) = Span(i, tx_out') + 1 /\ Span(i, tx_out') \in Nat
          /\ Span(i, tx_out) \in Nat
      <4>1. tx_out' \in Slots
        BY <1>0, <2>2, <2>3, SlotType
      <4>. QED
        BY <1>0, <2>4, <2>8, <4>1, SpanType, SlotType
    <3>2. Span(i, tx_out) < Span(tx_in, tx_out)
      BY <1>0, <2>4, <2>8, <3>1
    <3>3. tx_buf[i] = delivered + Len(wfifo) + 1 + Span(i, tx_out)
      BY <1>0, <3>2 DEF TxRing
    <3>. QED
      BY <1>0, <2>6, <3>1, <3>3
  <2>9. Len(wfifo') + Span(tx_in, tx_out') = copied - delivered
    BY <1>0, <2>4, <2>6 DEF TxRing
  <2>10. Span(tx_in, tx_out)' = Span(tx_in, tx_out')
         /\ \A i \in Slots : Span(i, tx_out)' = Span(i, tx_out')
    BY <2>1 DEF Span
  <2>. QED
    BY <2>1, <2>7, <2>8, <2>9, <2>10 DEF TxRing
<1>4. CASE HostTake
  <2>1. UNCHANGED <<tx_buf, tx_in, tx_out, copied>>
    BY <1>4 DEF HostTake, txBuffer
  <2>2. /\ Len(wfifo) > 0 /\ Len(wfifo') = Len(wfifo) - 1
        /\ \A k \in 1 .. Len(wfifo) - 1 : wfifo'[k] = wfifo[k + 1]
        /\ delivered' = delivered + 1
    BY <1>4, HostTakes
  <2>3. \A k \in 1 .. Len(wfifo') : wfifo'[k] = delivered' + k
    BY <1>0, <2>2 DEF TxRing
  <2>4. Span(tx_in, tx_out)' = Span(tx_in, tx_out)
        /\ \A i \in Slots : Span(i, tx_out)' = Span(i, tx_out)
    BY <2>1 DEF Span
  <2>5. Len(wfifo') + Span(tx_in, tx_out) = copied - delivered'
        /\ delivered' + Len(wfifo') = delivered + Len(wfifo)
    <3> DEFINE l == Len(wfifo)
               p == Span(tx_in, tx_out)
    <3>1. /\ l \in Nat /\ p \in Nat /\ l + p = copied - delivered
          /\ copied \in Nat /\ delivered \in Nat
      BY <1>0
    <3>. HIDE DEF l, p
    <3>2. (l - 1) + p = copied - (delivered + 1) /\ (delivered + 1) + (l - 1) = delivered + l
      BY <3>1
    <3>. QED
      BY <2>2, <3>2 DEF l, p
  <2>. QED
    BY <1>0, <2>1, <2>3, <2>4, <2>5 DEF TxRing
<1>5. CASE UNCHANGED <<tx_buf, tx_in, tx_out, wfifo, copied, delivered>>
  BY <1>0, <1>5 DEF TxRing, Span
<1>. QED
  BY <1>1, <1>2, <1>3, <1>4, <1>5, TxFrame
LEMMA RxRingStep ==
  ASSUME IInv, [Next]_vars
  PROVE  RxRing'
<1>0. /\ RxRing /\ rx_in \in Slots /\ rx_out \in Slots /\ rx_buf \in [Slots -> 0 .. MaxRx]
      /\ rfifo \in Seq(0 .. MaxRx) /\ Len(rfifo) \in Nat
      /\ sent \in Nat /\ taken \in Nat /\ Slots \subseteq Nat /\ BufLen \in Nat
      /\ Span(rx_in, rx_out) \in Nat /\ InHand \in Nat
      /\ rvalid \in BOOLEAN /\ byte \in 0 .. MaxRx
  <2>1. /\ RxRing /\ rx_in \in Slots /\ rx_out \in Slots /\ rx_buf \in [Slots -> 0 .. MaxRx]
        /\ rfifo \in Seq(0 .. MaxRx) /\ sent \in Nat /\ taken \in Nat
        /\ rvalid \in BOOLEAN /\ byte \in 0 .. MaxRx
    BY DEF IInv, TypeOK, DriverType, CoreType, WorldType, HandlerType
  <2>2. Len(rfifo) \in Nat
    BY <2>1, Lengths
  <2>3. Slots \subseteq Nat /\ BufLen \in Nat
    BY SlotType
  <2>4. Span(rx_in, rx_out) \in Nat
    <3>1. Span(rx_in, rx_out) \in 0 .. BufLen - 1
      BY <2>1, SpanType
    <3>. QED
      BY <3>1, <2>3
  <2>5. InHand \in Nat
    BY DEF InHand
  <2>. QED
    BY <2>1, <2>2, <2>3, <2>4, <2>5
<1> DEFINE l == Len(rfifo)
           p == Span(rx_in, rx_out)
           h == InHand
<1>1. /\ l \in Nat /\ p \in Nat /\ h \in Nat /\ taken \in Nat /\ sent \in Nat
      /\ p + h + l = sent - taken
      /\ \A i \in Slots : Span(i, rx_out) < p => rx_buf[i] = taken + 1 + Span(i, rx_out)
      /\ rvalid => byte = taken + p + 1
      /\ \A k \in 1 .. l : rfifo[k] = taken + p + h + k
  BY <1>0 DEF RxRing
<1>2. h = IF rvalid THEN 1 ELSE 0
  BY DEF InHand
<1>3. CASE ReadCopy
  <2>1. UNCHANGED <<rx_buf, rx_in, rfifo, rvalid, byte, sent>>
    BY <1>3 DEF ReadCopy, core, others, handler
  <2>2. /\ ToRead \in Nat /\ ToRead <= p /\ rx_out + ToRead <= BufLen
        /\ rx_out' = IF rx_out + ToRead = BufLen THEN 0 ELSE rx_out + ToRead
        /\ taken' = taken + ToRead /\ rx_out' \in Slots
    <3>1. /\ ToRead \in 0 .. BufLen - 1 /\ rx_out + ToRead <= BufLen
          /\ ToRead <= Span(snap, rx_out) /\ Span(snap, rx_out) <= Span(rx_in, rx_out)
          /\ rx_out' = IF rx_out + ToRead = BufLen THEN 0 ELSE rx_out + ToRead
          /\ taken' = taken + ToRead /\ rx_out' \in Slots
      BY <1>3, ReadBounds
    <3>2. Span(snap, rx_out) \in 0 .. BufLen - 1
      BY <1>0, SpanType DEF IInv, TypeOK, CallType
    <3>3. ToRead <= Span(rx_in, rx_out)
      BY <1>0, <3>1, <3>2
    <3>. QED
      BY <1>0, <3>1, <3>3
  <2>3. /\ Span(rx_in, rx_out') = p - ToRead
        /\ \A i \in Slots : Span(i, rx_out') < Span(rx_in, rx_out') =>
             Span(i, rx_out) = Span(i, rx_out') + ToRead
    BY <1>0, <2>2, Emptied
  <2>4. ASSUME NEW i \in Slots, Span(i, rx_out') < Span(rx_in, rx_out')
        PROVE  rx_buf[i] = taken' + 1 + Span(i, rx_out')
    <3>1. Span(i, rx_out') \in Nat /\ Span(i, rx_out) = Span(i, rx_out') + ToRead
      <4>1. Span(i, rx_out') \in 0 .. BufLen - 1
        BY <2>2, SpanType
      <4>. QED
        BY <1>0, <2>3, <2>4, <4>1
    <3>. HIDE DEF p
    <3>2. Span(i, rx_out) < p
      BY <1>1, <2>2, <2>3, <2>4, <3>1
    <3>3. rx_buf[i] = taken + 1 + Span(i, rx_out)
      BY <1>1, <3>2
    <3>. QED
      BY <1>1, <2>2, <3>1, <3>3
  <2>5. /\ (p - ToRead) + h + l = sent - taken'
        /\ rvalid => byte = taken' + (p - ToRead) + 1
        /\ \A k \in 1 .. l : rfifo[k] = taken' + (p - ToRead) + h + k
    <3>. HIDE DEF p, h, l
    <3>1. taken' + (p - ToRead) = taken + p
      BY <1>1, <2>2
    <3>. QED
      BY <1>1, <2>2, <3>1
  <2>6. /\ Span(rx_in, rx_out)' = p - ToRead /\ InHand' = h /\ Len(rfifo)' = l
        /\ \A i \in Slots : Span(i, rx_out)' = Span(i, rx_out')
    BY <2>1, <2>3 DEF Span, InHand
  <2>7. \A i \in Slots : Span(i, rx_out)' < Span(rx_in, rx_out)' =>
          rx_buf'[i] = taken' + 1 + Span(i, rx_out)'
    BY <2>1, <2>3, <2>4, <2>6
  <2>. HIDE DEF p, h, l
  <2>. QED
    BY <2>1, <2>5, <2>6, <2>7 DEF RxRing
<1>4. CASE IrqRead
  <2>1. UNCHANGED <<rx_buf, rx_in, rx_out, sent, taken>> /\ ~ rvalid
    BY <1>4 DEF IrqRead, rxBuffer, history, IInv, HandlerKnows
  <2>2. CASE UNCHANGED <<rfifo, rvalid, byte>>
    BY <1>0, <2>1, <2>2 DEF RxRing, InHand, Span
  <2>3. CASE rfifo # <<>> /\ rvalid' = TRUE /\ byte' = Head(rfifo) /\ rfifo' = Tail(rfifo)
    <3>1. /\ l > 0 /\ byte' = rfifo[1] /\ Len(rfifo') = l - 1
          /\ \A k \in 1 .. l - 1 : rfifo'[k] = rfifo[k + 1]
      BY <1>0, <2>3, Popping
    <3>2. h = 0 /\ InHand' = 1
      BY <2>1, <2>3, <1>2 DEF InHand
    <3>3. Span(rx_in, rx_out)' = p /\ \A i \in Slots : Span(i, rx_out)' = Span(i, rx_out)
      BY <2>1 DEF Span
    <3>. HIDE DEF p, h, l
    <3>4. /\ p + 1 + (l - 1) = sent - taken
          /\ byte' = taken + p + 1
      BY <1>1, <3>1, <3>2
    <3>5. \A k \in 1 .. l - 1 : rfifo'[k] = taken + p + 1 + k
      BY <1>1, <3>1, <3>2
    <3>. QED
      BY <1>1, <2>1, <2>3, <3>1, <3>2, <3>3, <3>4, <3>5 DEF RxRing
  <2>4. CASE rfifo' = rfifo /\ byte' = byte /\ rvalid' = FALSE
    BY <1>0, <2>1, <2>4 DEF RxRing, InHand, Span
  <2>5. \/ UNCHANGED <<rfifo, rvalid, byte>>
        \/ rfifo # <<>> /\ rvalid' = TRUE /\ byte' = Head(rfifo) /\ rfifo' = Tail(rfifo)
        \/ rfifo' = rfifo /\ byte' = byte /\ rvalid' = FALSE
    BY <1>4, Zenon DEF IrqRead
  <2>. QED
    BY <2>2, <2>3, <2>4, <2>5
<1>5. CASE IrqSample
  <2>1. UNCHANGED <<rx_out, rfifo, sent, taken>> /\ rvalid' = FALSE /\ InHand' = 0
    BY <1>5 DEF IrqSample, core, history, InHand
  <2>2. CASE ~ rvalid
    <3>1. UNCHANGED <<rx_buf, rx_in>> /\ h = 0
      BY <1>2, <1>5, <2>2 DEF IrqSample
    <3>. QED
      BY <1>0, <2>1, <2>2, <3>1 DEF RxRing, Span
  <2>3. CASE rvalid
    <3>1. /\ rx_buf' = [rx_buf EXCEPT ![rx_in] = byte] /\ rx_in' = After(rx_in)
          /\ h = 1 /\ byte = taken + p + 1
      BY <1>1, <1>2, <1>5, <2>3 DEF IrqSample
    <3>2. rx_in' # rx_out /\ rx_in' \in Slots
          /\ rx_in' = IF rx_in + 1 = BufLen THEN 0 ELSE rx_in + 1
      <4>1. After(rx_in) # rx_out
        BY <1>5 DEF IrqSample, IInv, HandlerKnows
      <4>2. rx_in = BufLen - 1 <=> rx_in + 1 = BufLen
        BY <1>0
      <4>. QED
        BY <1>0, <3>1, <4>1, <4>2, AfterType
    <3>3. 1 + p < BufLen /\ rx_in + 1 <= BufLen
      BY <1>0, <3>2, SlotType DEF Span
    <3>4. /\ Span(rx_in', rx_out) = p + 1
          /\ \A i \in Slots : Span(i, rx_out) < p + 1 => Span(i, rx_out) < p \/ i = rx_in
          /\ Span(rx_in, rx_out) = p
      <4>1. /\ Span(rx_in', rx_out) = p + 1
            /\ \A i \in Slots : Span(i, rx_out) < p + 1 =>
                 Span(i, rx_out) < p \/ i \in rx_in .. rx_in + 1 - 1
        BY <1>0, <3>2, <3>3, Filled
      <4>2. \A i \in rx_in .. rx_in + 1 - 1 : i = rx_in
        BY <1>0
      <4>. QED
        BY <4>1, <4>2
    <3>5. Span(rx_in, rx_out)' = p + 1 /\ \A i \in Slots : Span(i, rx_out)' = Span(i, rx_out)
      BY <2>1, <3>4 DEF Span
    <3>. HIDE DEF p, h, l
    <3>6. ASSUME NEW i \in Slots, Span(i, rx_out) < p + 1
          PROVE  rx_buf'[i] = taken + 1 + Span(i, rx_out)
      <4>1. CASE i = rx_in
        <5>1. rx_buf'[i] = byte
          BY <1>0, <3>1, <4>1
        <5>. QED
          BY <1>1, <3>1, <3>4, <4>1, <5>1
      <4>2. CASE i # rx_in
        <5>1. rx_buf'[i] = rx_buf[i] /\ Span(i, rx_out) < p
          BY <1>0, <3>1, <3>4, <3>6, <4>2
        <5>. QED
          BY <1>1, <5>1
      <4>. QED
        BY <4>1, <4>2
    <3>7. /\ (p + 1) + 0 + l = sent - taken
          /\ \A k \in 1 .. l : rfifo[k] = taken + (p + 1) + 0 + k
      BY <1>1, <3>1
    <3>8. Len(rfifo)' = l
      BY <2>1 DEF l
    <3>. QED
      BY <2>1, <3>5, <3>6, <3>7, <3>8 DEF RxRing
  <2>. QED
    BY <2>2, <2>3, <1>0
<1>6. CASE HostSend
  <2>1. /\ UNCHANGED <<rx_buf, rx_in, rx_out, rvalid, byte, taken>>
        /\ rfifo' = Append(rfifo, sent + 1) /\ sent' = sent + 1
        /\ sent + 1 \in 0 .. MaxRx
    BY <1>6, SizeAssumption DEF HostSend, rxBuffer, handler, IInv, TypeOK, WorldType
  <2>2. /\ Len(rfifo') = l + 1
        /\ \A k \in 1 .. l : rfifo'[k] = rfifo[k]
        /\ rfifo'[l + 1] = sent + 1
    BY <1>0, <2>1, Appending
  <2>3. /\ Span(rx_in, rx_out)' = p /\ InHand' = h
        /\ \A i \in Slots : Span(i, rx_out)' = Span(i, rx_out)
    BY <2>1 DEF Span, InHand
  <2>. HIDE DEF p, h, l
  <2>4. p + h + (l + 1) = (sent + 1) - taken
    BY <1>1
  <2>5. \A k \in 1 .. l + 1 : rfifo'[k] = taken + p + h + k
    <3>1. rfifo'[l + 1] = taken + p + h + (l + 1)
      BY <1>1, <2>2
    <3>2. \A k \in 1 .. l + 1 : k \in 1 .. l \/ k = l + 1
      BY <1>1
    <3>. QED
      BY <1>1, <2>2, <3>1, <3>2
  <2>. QED
    BY <1>1, <2>1, <2>2, <2>3, <2>4, <2>5 DEF RxRing
<1>7. CASE UNCHANGED <<rx_buf, rx_in, rx_out, rfifo, rvalid, byte, sent, taken>>
  BY <1>0, <1>7 DEF RxRing, Span, InHand
<1>. QED
  BY <1>3, <1>4, <1>5, <1>6, <1>7, RxFrame

-----------------------------------------------------------------------------
(* Stale copies and registers                                              *)

\* The clock's alarm and the cable touch none of what follows.
LEMMA Elsewhere ==
  ASSUME [Next]_vars
  PROVE  \/ Call \/ Resume \/ Irq \/ HostTake \/ HostSend \/ HostPause
         \/ UNCHANGED <<txBuffer, rxBuffer, irq_enable, call, handler, wfifo, rfifo,
                        pause_irq, history>>
<1>1. CASE Timeout
  BY <1>1 DEF Timeout
<1>2. CASE Plug
  BY <1>2 DEF Plug, core
<1>3. CASE UNCHANGED vars
  BY <1>3 DEF vars, core
<1>. QED
  BY <1>1, <1>2, <1>3 DEF Next, Host

LEMMA WriterKnowsStep ==
  ASSUME IInv, [Next]_vars
  PROVE  WriterKnows'
<1>0. /\ WriterKnows /\ tx_in \in Slots /\ tx_out \in Slots /\ snap \in Slots
      /\ copied \in Nat /\ count \in Nat /\ BufLen \in Nat
      /\ Span(tx_in, tx_out) \in Nat /\ Span(tx_in, snap) \in Nat
  <2>1. /\ WriterKnows /\ tx_in \in Slots /\ tx_out \in Slots /\ snap \in Slots
        /\ copied \in Nat /\ count \in Nat
    BY DEF IInv, TypeOK, DriverType, CallType, WorldType
  <2>2. Span(tx_in, tx_out) \in 0 .. BufLen - 1 /\ Span(tx_in, snap) \in 0 .. BufLen - 1
    BY <2>1, SpanType
  <2>. QED
    BY <2>1, <2>2, SlotType
<1>1. CASE Call
  <2>1. ASSUME NEW len \in 1 .. MaxTx, NEW nb \in BOOLEAN, WriteCall(len, nb)
        PROVE  WriterKnows'
    BY <2>1 DEF WriteCall, Begin, WriterKnows, Writing, history
  <2>2. ASSUME NEW len \in 1 .. MaxRx, NEW nb \in BOOLEAN, ReadCall(len, nb)
        PROVE  WriterKnows'
    BY <2>2 DEF ReadCall, Begin, WriterKnows, Writing
  <2>3. ASSUME NEW nb \in BOOLEAN, CloseCall(nb) PROVE WriterKnows'
    BY <2>3 DEF CloseCall, Begin, WriterKnows, Writing
  <2>4. ASSUME NEW t \in Timeouts, SetTimeout(t) PROVE WriterKnows'
    BY <2>4 DEF SetTimeout, At, call, WriterKnows, Writing
  <2>. QED
    BY <1>1, <2>1, <2>2, <2>3, <2>4 DEF Call
<1>2. CASE Resume
  <2>1. ASSUME pc' \notin Writing \union {"w_spin", "w_check"} PROVE WriterKnows'
    BY <2>1 DEF WriterKnows, Writing
  <2>2. CASE WriteLook
    BY <1>0, <2>2 DEF WriteLook, At, Goto, WriterKnows, Writing, device, txBuffer, history, Span
  <2>3. CASE WriteCopy
    <3>1. /\ n' \in 0 .. BufLen - 1 /\ n' <= count /\ tx_in + n' <= BufLen
          /\ n' + Span(tx_in, snap) < BufLen /\ copied + count <= MaxTx
          /\ Span(tx_in, tx_out) <= Span(tx_in, snap)
      BY <2>3, CopyBounds DEF WriteCopy, At, IInv, WriterKnows
    <3>2. /\ tx_buf' = [i \in Slots |-> IF i \in tx_in .. tx_in + n' - 1
                                          THEN copied + 1 + i - tx_in ELSE tx_buf[i]]
          /\ pc' = IF n' = 0 THEN "w_kick" ELSE "w_publish"
          /\ UNCHANGED <<tx_in, tx_out, copied, count>>
      BY <2>3 DEF WriteCopy, Goto, history
    <3>3. \A i \in tx_in .. tx_in + n' - 1 : tx_buf'[i] = copied + 1 + i - tx_in
      <4>1. \A x, m, b \in Nat : x + m <= b => x .. x + m - 1 \subseteq 0 .. b - 1
        OBVIOUS
      <4>2. tx_in .. tx_in + n' - 1 \subseteq Slots
        <5>1. tx_in \in Nat
          BY <1>0, SlotType
        <5>2. n' \in Nat /\ tx_in + n' <= BufLen
          BY <3>1
        <5>. QED
          BY <1>0, <4>1, <5>1, <5>2, SlotType
      <4>. QED
        BY <3>2, <4>2
    <3>4. Span(tx_in, tx_out)' = Span(tx_in, tx_out)
      BY <3>2 DEF Span
    <3>5. pc' = "w_publish" => n' \in 1 .. count /\ Span(tx_in, tx_out) + n' < BufLen
      BY <1>0, <3>1, <3>2
    <3>. QED
      BY <1>0, <3>1, <3>2, <3>3, <3>4, <3>5 DEF WriterKnows
  <2>4. CASE WritePublish
    <3>1. /\ copied' = copied + n /\ count' = count - n /\ n \in Nat
          /\ copied + count <= MaxTx /\ pc' \in {"w_look", "w_kick"}
      BY <2>4, PublishBounds DEF WritePublish, Goto
    <3>2. copied' + count' <= MaxTx
      BY <1>0, <3>1
    <3>. QED
      BY <3>1, <3>2 DEF WriterKnows
  <2>5. CASE WriteKick \/ WriteSpin \/ WriteCheck
    <3>1. copied + count <= MaxTx
      BY <2>5 DEF WriteKick, WriteSpin, WriteCheck, At, IInv, WriterKnows, Writing
    <3>2. \/ pc' = "idle"
          \/ pc' \in {"w_spin", "w_check", "w_look"} /\ UNCHANGED <<count, copied>>
      BY <2>5 DEF WriteKick, WriteSpin, WriteCheck, Return, Goto, locals, history
    <3>. QED
      BY <3>1, <3>2 DEF WriterKnows, Writing
  <2>6. CASE ReadLook \/ ReadCopy \/ ReadSpin \/ ReadCheck \/ ReadEnable \/ CloseWait
    <3>1. pc' \notin Writing \union {"w_spin", "w_check"}
      BY <2>6 DEF ReadLook, ReadCopy, ReadSpin, ReadCheck, ReadEnable, CloseWait, Goto,
                  Return, Writing
    <3>. QED
      BY <3>1, <2>1
  <2>. QED
    BY <1>2, <2>2, <2>3, <2>4, <2>5, <2>6 DEF Resume
<1>3. CASE UNCHANGED <<tx_buf, tx_in, tx_out, pc, snap, n, count, copied>>
  BY <1>0, <1>3 DEF WriterKnows, Span
<1>4. CASE Irq
  <2>1. CASE IrqSend
    <3>1. UNCHANGED <<tx_buf, tx_in, pc, snap, n, count, copied>> /\ tx_out # tx_in
          /\ tx_out' = After(tx_out)
      BY <2>1 DEF IrqSend, call, locals, history
    <3>2. tx_out' = IF tx_out + 1 = BufLen THEN 0 ELSE tx_out + 1
      <4>1. tx_out = BufLen - 1 <=> tx_out + 1 = BufLen
        BY <1>0, SlotType
      <4>. QED
        BY <1>0, <3>1, <4>1, AfterType
    <3>3. 1 <= Span(tx_in, tx_out) /\ tx_out + 1 <= BufLen
      BY <1>0, <3>1, SpanZero, SlotType
    <3>4. Span(tx_in, tx_out') = Span(tx_in, tx_out) - 1
      BY <1>0, <3>2, <3>3, Emptied
    <3>5. /\ Span(tx_in, tx_out)' = Span(tx_in, tx_out) - 1
          /\ Span(tx_in, snap)' = Span(tx_in, snap)
      BY <3>1, <3>4 DEF Span
    <3> DEFINE p == Span(tx_in, tx_out)
    <3>6. p \in Nat
      BY <1>0
    <3>. HIDE DEF p
    <3>7. /\ \A m \in Nat : p <= m => p - 1 <= m
          /\ \A m \in Nat : p + m < BufLen => (p - 1) + m < BufLen
      BY <1>0, <3>6
    <3>8. Span(tx_in, tx_out) = p
      BY DEF p
    <3>9. n \in Nat
      BY DEF IInv, TypeOK, CallType
    <3>. QED
      BY <1>0, <3>1, <3>5, <3>7, <3>8, <3>9 DEF WriterKnows
  <2>2. IrqSend \/ UNCHANGED <<tx_buf, tx_in, tx_out, pc, snap, n, count, copied>>
    BY <1>4 DEF Irq, IrqEnter, IrqControl, IrqRead, IrqSample, IrqRxEnd, IrqTxEnd, call,
                locals, device, txBuffer, history
  <2>. QED
    BY <1>3, <2>1, <2>2
<1>5. CASE HostTake \/ HostSend \/ HostPause
  BY <1>3, <1>5 DEF HostTake, HostSend, HostPause, call, locals, txBuffer, history
<1>. QED
  BY <1>1, <1>2, <1>3, <1>4, <1>5, Elsewhere DEF txBuffer, call, locals, history

\* There is room after rx_in: one character more.
LEMMA OneMore ==
  ASSUME NEW in \in Slots, NEW out \in Slots, After(in) # out
  PROVE  /\ 1 + Span(in, out) < BufLen /\ in + 1 <= BufLen
         /\ After(in) = IF in + 1 = BufLen THEN 0 ELSE in + 1
<1>1. in \in 0 .. BufLen - 1 /\ out \in 0 .. BufLen - 1 /\ BufLen \in Nat
      /\ After(in) = IF in = BufLen - 1 THEN 0 ELSE in + 1
  BY SlotType, AfterType
<1>2. (IF in = BufLen - 1 THEN 0 ELSE in + 1) # out
  BY <1>1
<1>. HIDE DEF After
<1>. QED
  BY <1>1, <1>2 DEF Span

LEMMA ReaderKnowsStep ==
  ASSUME IInv, [Next]_vars
  PROVE  ReaderKnows'
<1>0. /\ ReaderKnows /\ rx_in \in Slots /\ rx_out \in Slots /\ snap \in Slots
      /\ taken \in Nat /\ count \in Nat /\ BufLen \in Nat
      /\ Span(rx_in, rx_out) \in Nat /\ Span(snap, rx_out) \in Nat
  <2>1. /\ ReaderKnows /\ rx_in \in Slots /\ rx_out \in Slots /\ snap \in Slots
        /\ taken \in Nat /\ count \in Nat
    BY DEF IInv, TypeOK, DriverType, CallType, WorldType
  <2>2. Span(rx_in, rx_out) \in 0 .. BufLen - 1 /\ Span(snap, rx_out) \in 0 .. BufLen - 1
    BY <2>1, SpanType
  <2>. QED
    BY <2>1, <2>2, SlotType
<1>1. CASE Call
  <2>1. ASSUME NEW len \in 1 .. MaxTx, NEW nb \in BOOLEAN, WriteCall(len, nb)
        PROVE  ReaderKnows'
    BY <2>1 DEF WriteCall, Begin, ReaderKnows, Reading
  <2>2. ASSUME NEW len \in 1 .. MaxRx, NEW nb \in BOOLEAN, ReadCall(len, nb)
        PROVE  ReaderKnows'
    BY <2>2 DEF ReadCall, Begin, ReaderKnows, Reading, history
  <2>3. ASSUME NEW nb \in BOOLEAN, CloseCall(nb) PROVE ReaderKnows'
    BY <2>3 DEF CloseCall, Begin, ReaderKnows, Reading
  <2>4. ASSUME NEW t \in Timeouts, SetTimeout(t) PROVE ReaderKnows'
    BY <2>4 DEF SetTimeout, At, call, ReaderKnows, Reading
  <2>. QED
    BY <1>1, <2>1, <2>2, <2>3, <2>4 DEF Call
<1>2. CASE Resume
  <2>1. CASE ReadLook
    BY <1>0, <2>1 DEF ReadLook, At, Goto, ReaderKnows, Reading, device, rxBuffer, history, Span
  <2>2. CASE ReadCopy
    <3>1. /\ ToRead \in Nat /\ ToRead <= count /\ taken + count <= MaxRx
          /\ taken' = taken + ToRead
      BY <2>2, ReadBounds
    <3>2. \/ pc' = "idle"
          \/ pc' \in {"r_look", "r_enable", "r_spin"} /\ count' = count - ToRead
      BY <2>2 DEF ReadCopy, Return, Goto, ToRead
    <3>3. taken' + (count - ToRead) <= MaxRx
      BY <1>0, <3>1
    <3>. QED
      BY <3>2, <3>3 DEF ReaderKnows, Reading
  <2>3. CASE ReadSpin \/ ReadCheck \/ ReadEnable
    <3>1. taken + count <= MaxRx
      BY <2>3 DEF ReadSpin, ReadCheck, ReadEnable, At, IInv, ReaderKnows, Reading
    <3>2. \/ pc' = "idle"
          \/ pc' \in {"r_check", "r_look"} /\ UNCHANGED <<count, taken>>
      BY <2>3 DEF ReadSpin, ReadCheck, ReadEnable, Return, Goto, locals, history
    <3>. QED
      BY <3>1, <3>2 DEF ReaderKnows, Reading
  <2>4. CASE WriteLook \/ WriteCopy \/ WritePublish \/ WriteKick \/ WriteSpin
             \/ WriteCheck \/ CloseWait
    <3>1. pc' \notin Reading
      BY <2>4 DEF WriteLook, WriteCopy, WritePublish, WriteKick, WriteSpin, WriteCheck,
                  CloseWait, Goto, Return, Reading
    <3>. QED
      BY <3>1 DEF ReaderKnows, Reading
  <2>. QED
    BY <1>2, <2>1, <2>2, <2>3, <2>4 DEF Resume
<1>3. CASE UNCHANGED <<rx_in, rx_out, pc, snap, count, taken>>
  BY <1>0, <1>3 DEF ReaderKnows, Span
<1>4. CASE Irq
  <2>1. CASE IrqSample /\ rvalid
    <3>1. UNCHANGED <<rx_out, pc, snap, count, taken>> /\ rx_in' = After(rx_in)
          /\ After(rx_in) # rx_out
      BY <2>1 DEF IrqSample, call, locals, history, IInv, HandlerKnows
    <3>2. Span(After(rx_in), rx_out) = Span(rx_in, rx_out) + 1
      BY <1>0, <3>1, OneMore, Filled
    <3>3. /\ Span(rx_in, rx_out)' = Span(rx_in, rx_out) + 1
          /\ Span(snap, rx_out)' = Span(snap, rx_out)
      BY <3>1, <3>2 DEF Span
    <3>. QED
      BY <1>0, <3>1, <3>3 DEF ReaderKnows
  <2>2. \/ IrqSample /\ rvalid
        \/ UNCHANGED <<rx_in, rx_out, pc, snap, count, taken>>
    BY <1>4 DEF Irq, IrqEnter, IrqControl, IrqRead, IrqSample, IrqRxEnd, IrqSend, IrqTxEnd,
                call, locals, device, rxBuffer, history
  <2>. QED
    BY <1>3, <2>1, <2>2
<1>5. CASE HostTake \/ HostSend \/ HostPause
  BY <1>3, <1>5 DEF HostTake, HostSend, HostPause, call, locals, rxBuffer, history
<1>. QED
  BY <1>1, <1>2, <1>3, <1>4, <1>5, Elsewhere DEF rxBuffer, call, locals, history

\* A receive interrupt says that there is a character: the read FIFO is not
\* empty when it lacks Mark of them, nor when the host has paused.
LEMMA RIMeans ==
  ASSUME IInv, RI
  PROVE  rfifo # <<>>
<1>1. /\ rfifo \in Seq(0 .. MaxRx) /\ Depth \in Nat /\ Mark \in Nat /\ Mark < Depth
      /\ pause_irq => rfifo # <<>>
  BY SizeAssumption DEF IInv, TypeOK, CoreType, HandlerKnows
<1>2. Len(rfifo) \in Nat /\ (rfifo = <<>> <=> Len(rfifo) = 0)
  BY <1>1, Lengths
<1>. QED
  BY <1>1, <1>2 DEF RI

LEMMA HandlerKnowsStep ==
  ASSUME IInv, [Next]_vars
  PROVE  HandlerKnows'
<1>0. /\ HandlerKnows /\ rx_in \in Slots /\ rx_out \in Slots /\ space \in Nat
      /\ wfifo \in Seq(0 .. MaxTx) /\ Len(wfifo) \in Nat /\ Len(wfifo) <= Depth
      /\ rfifo \in Seq(0 .. MaxRx) /\ Depth \in Nat
  <2>1. /\ HandlerKnows /\ rx_in \in Slots /\ rx_out \in Slots /\ space \in 0 .. Depth
        /\ wfifo \in Seq(0 .. MaxTx) /\ Len(wfifo) <= Depth /\ rfifo \in Seq(0 .. MaxRx)
    BY DEF IInv, TypeOK, DriverType, CoreType, HandlerType
  <2>2. Len(wfifo) \in Nat
    BY <2>1, Lengths
  <2>. QED
    BY <2>1, <2>2, SizeAssumption
<1>1. CASE Call
  BY <1>0, <1>1 DEF Call, WriteCall, ReadCall, CloseCall, SetTimeout, At, device, core,
     others, handler, rxBuffer, HandlerKnows
<1>2. CASE Resume
  <2>1. irq = "out" /\ UNCHANGED <<irq, rvalid, pause_irq, rfifo>>
    BY <1>2 DEF Resume, WriteLook, WriteCopy, WritePublish, WriteKick, WriteSpin, WriteCheck,
       ReadLook, ReadCopy, ReadSpin, ReadCheck, ReadEnable, CloseWait, At, device, core,
       others, handler
  <2>. QED
    BY <1>0, <2>1 DEF HandlerKnows
<1>3. CASE IrqEnter
  BY <1>0, <1>3 DEF IrqEnter, HandlerKnows, device, core, rxBuffer
<1>4. CASE IrqControl
  <2>1. /\ space' = IF WI THEN Depth - Len(wfifo) ELSE 0
        /\ irq' = IF RI THEN "rx" ELSE IF WI THEN "tx" ELSE "out"
        /\ UNCHANGED <<wfifo, rfifo, pause_irq, rx_in, rx_out, rvalid>> /\ irq = "control"
    BY <1>4 DEF IrqControl, device, core, rxBuffer
  <2>2. space' + Len(wfifo) <= Depth
    <3> DEFINE l == Len(wfifo)
    <3>1. l \in Nat /\ l <= Depth /\ (space' = Depth - l \/ space' = 0)
      BY <1>0, <2>1
    <3>. HIDE DEF l
    <3>2. space' + l <= Depth
      BY <1>0, <3>1
    <3>. QED
      BY <3>2 DEF l
  <2>3. irq' = "rx" => rfifo # <<>>
    BY <2>1, RIMeans
  <2>4. irq' \in {"rx", "tx", "out"}
    BY <2>1
  <2>. QED
    BY <1>0, <2>1, <2>2, <2>3, <2>4 DEF HandlerKnows
<1>5. CASE IrqRead
  <2>1. /\ irq = "rx" /\ UNCHANGED <<rx_in, rx_out, wfifo, space>>
        /\ (rx_in # rx_out \/ rfifo # <<>>) /\ ~ rvalid
    BY <1>0, <1>5 DEF IrqRead, rxBuffer, HandlerKnows
  <2>2. CASE After(rx_in) = rx_out
    <3>1. irq' = "rx_end" /\ UNCHANGED <<rfifo, pause_irq, rvalid>>
      BY <1>5, <2>2 DEF IrqRead
    <3>2. rx_in # rx_out
      BY <1>0, <2>2, AfterType, SlotType
    <3>. QED
      BY <1>0, <2>1, <3>1, <3>2 DEF HandlerKnows
  <2>3. CASE After(rx_in) # rx_out
    <3>1. irq' = "rx_sample" /\ ~ pause_irq' /\ (rvalid' <=> rfifo # <<>>)
      BY <1>5, <2>3, Zenon DEF IrqRead
    <3>2. After(rx_in)' = After(rx_in)
      BY <2>1 DEF After
    <3>. QED
      BY <1>0, <2>1, <2>3, <3>1, <3>2 DEF HandlerKnows
  <2>. QED
    BY <2>2, <2>3
<1>6. CASE IrqSample
  <2>1. /\ irq = "rx_sample" /\ UNCHANGED <<rx_out, rfifo, pause_irq, wfifo, space>>
        /\ After(rx_in) # rx_out /\ (rx_in # rx_out \/ rvalid) /\ ~ rvalid'
    BY <1>0, <1>6 DEF IrqSample, core, HandlerKnows
  <2>2. \/ rvalid /\ rx_in' = After(rx_in) /\ irq' = "rx"
        \/ ~ rvalid /\ rx_in' = rx_in /\ irq' = "rx_end"
    BY <1>6 DEF IrqSample
  <2>. QED
    BY <1>0, <2>1, <2>2 DEF HandlerKnows
<1>7. CASE IrqRxEnd \/ IrqTxEnd
  <2>1. /\ irq' \in {"tx", "control"} /\ irq \in {"rx_end", "tx"}
        /\ UNCHANGED <<rx_in, rx_out, rfifo, pause_irq, wfifo, space, rvalid>>
    BY <1>7 DEF IrqRxEnd, IrqTxEnd, rxBuffer, core
  <2>. QED
    BY <1>0, <2>1 DEF HandlerKnows
<1>8. CASE IrqSend
  <2>1. /\ irq = "tx" /\ UNCHANGED <<irq, rx_in, rx_out, rfifo, pause_irq, rvalid>>
        /\ space' = space - 1 /\ wfifo' \in {wfifo, Append(wfifo, tx_buf[tx_out])}
        /\ tx_buf[tx_out] \in 0 .. MaxTx
    BY <1>8 DEF IrqSend, rxBuffer, IInv, TypeOK, DriverType
  <2>2. Len(wfifo') = Len(wfifo) \/ Len(wfifo') = Len(wfifo) + 1
    BY <1>0, <2>1, Appending
  <2>3. space' + Len(wfifo') <= Depth
    BY <1>0, <2>1, <2>2 DEF HandlerKnows
  <2>. QED
    BY <1>0, <2>1, <2>3 DEF HandlerKnows
<1>9. CASE HostTake
  <2>1. UNCHANGED <<irq, space, rx_in, rx_out, rfifo, pause_irq, rvalid>>
    BY <1>9 DEF HostTake, rxBuffer, handler
  <2>2. Len(wfifo') = Len(wfifo) - 1
    BY <1>9, HostTakes
  <2>3. irq \notin {"out", "control"} => space + Len(wfifo') <= Depth
    BY <1>0, <2>2 DEF HandlerKnows
  <2>4. After(rx_in)' = After(rx_in)
    BY <2>1 DEF After
  <2>. QED
    BY <1>0, <2>1, <2>3, <2>4 DEF HandlerKnows
<1>10. CASE HostSend
  <2>1. /\ UNCHANGED <<irq, space, rx_in, rx_out, wfifo, rvalid>>
        /\ rfifo' = Append(rfifo, sent + 1)
    BY <1>10 DEF HostSend, rxBuffer, handler
  <2>2. rfifo' # <<>>
    <3>1. sent + 1 \in 0 .. MaxRx
      BY <1>10, SizeAssumption DEF HostSend, IInv, TypeOK, WorldType
    <3>2. rfifo' \in Seq(0 .. MaxRx) /\ Len(rfifo') = Len(rfifo) + 1 /\ Len(rfifo) \in Nat
      BY <1>0, <2>1, <3>1, Appending, Lengths
    <3>. QED
      BY <3>2, Lengths
  <2>3. After(rx_in)' = After(rx_in)
    BY <2>1 DEF After
  <2>. QED
    BY <1>0, <2>1, <2>2, <2>3 DEF HandlerKnows
<1>11. CASE HostPause
  <2>1. /\ UNCHANGED <<irq, space, rx_in, rx_out, wfifo, rvalid, rfifo>>
        /\ pause_irq' => rfifo # <<>>
    BY <1>0, <1>11 DEF HostPause, rxBuffer, handler, HandlerKnows
  <2>2. After(rx_in)' = After(rx_in)
    BY <2>1 DEF After
  <2>. QED
    BY <1>0, <2>1, <2>2 DEF HandlerKnows
<1>12. CASE UNCHANGED <<txBuffer, rxBuffer, irq_enable, call, handler, wfifo, rfifo,
                        pause_irq, history>>
  BY <1>0, <1>12 DEF rxBuffer, handler, HandlerKnows, After
<1>. QED
  BY <1>1, <1>2, <1>3, <1>4, <1>5, <1>6, <1>7, <1>8, <1>9, <1>10, <1>11, <1>12, Elsewhere
     DEF Irq

-----------------------------------------------------------------------------
(* Interrupts that stay on                                                 *)

LEMMA AwakeStep ==
  ASSUME IInv, [Next]_vars
  PROVE  Awake'
<1>0. /\ Awake /\ rx_in \in Slots /\ rx_out \in Slots /\ moved \in Nat /\ count \in Nat
      /\ irq_enable \subseteq {RE, WE} /\ RE # WE
  BY DEF IInv, TypeOK, DriverType, CallType, RE, WE
<1>1. CASE Call
  <2>1. \/ pc' = "w_look" \/ pc' = "r_look" \/ pc' = "c_wait" \/ pc' = "idle"
    BY <1>1 DEF Call, WriteCall, ReadCall, CloseCall, SetTimeout, Begin, At, call
  <2>2. pc = "idle" /\ UNCHANGED <<tx_in, tx_out, rx_in, rx_out, irq_enable>>
    BY <1>1 DEF Call, WriteCall, ReadCall, CloseCall, SetTimeout, At, device,
       txBuffer, rxBuffer
  <2>. QED
    BY <1>0, <2>1, <2>2 DEF Awake, Writing
<1>2. CASE Resume
  <2>1. CASE WriteLook \/ WriteCopy \/ WritePublish
    <3>1. /\ pc' \in Writing /\ pc \in Writing
          /\ UNCHANGED <<rx_in, rx_out, irq_enable>>
      BY <2>1 DEF WriteLook, WriteCopy, WritePublish, At, Goto, Writing, device, rxBuffer
    <3>. QED
      BY <1>0, <3>1 DEF Awake, Writing
  <2>2. CASE WriteKick
    <3>1. /\ irq_enable' = irq_enable \union {WE} /\ pc = "w_kick"
          /\ UNCHANGED <<rx_in, rx_out>>
      BY <2>2 DEF WriteKick, At, rxBuffer
    <3>. QED
      BY <1>0, <3>1 DEF Awake, Writing
  <2>3. CASE WriteSpin \/ WriteCheck \/ CloseWait \/ ReadSpin \/ ReadCheck
    <3>1. /\ pc \notin Writing \union {"r_look", "r_copy", "r_enable"}
          /\ UNCHANGED <<tx_in, tx_out, rx_in, rx_out, irq_enable>>
      BY <2>3 DEF WriteSpin, WriteCheck, CloseWait, ReadSpin, ReadCheck, At, Writing,
         device, txBuffer, rxBuffer
    <3>. QED
      BY <1>0, <3>1 DEF Awake
  <2>4. CASE ReadLook
    <3>1. /\ pc = "r_look" /\ pc' = "r_copy"
          /\ UNCHANGED <<tx_in, tx_out, rx_in, rx_out, irq_enable, moved>>
      BY <2>4 DEF ReadLook, At, Goto, device, txBuffer, rxBuffer
    <3>. QED
      BY <1>0, <3>1 DEF Awake, Writing
  <2>5. CASE ReadEnable
    <3>1. /\ irq_enable' = irq_enable \union {RE} /\ pc = "r_enable"
          /\ UNCHANGED <<tx_in, tx_out>>
      BY <2>5 DEF ReadEnable, At, txBuffer
    <3>. QED
      BY <1>0, <3>1 DEF Awake, Writing
  <2>6. CASE ReadCopy
    <3>1. /\ ToRead \in Nat /\ rx_out' = IF rx_out + ToRead = BufLen THEN 0 ELSE rx_out + ToRead
          /\ pc = "r_copy"
          /\ UNCHANGED <<tx_in, tx_out, rx_in, irq_enable>>
      BY <2>6, ReadBounds DEF ReadCopy, At, txBuffer
    <3>2. CASE ToRead = 0 /\ moved = 0
      <4>1. rx_out' = rx_out
        BY <1>0, <3>1, <3>2, SlotType
      <4>. QED
        BY <1>0, <3>1, <3>2, <4>1 DEF Awake, Writing
    <3>3. CASE ~ (ToRead = 0 /\ moved = 0)
      <4>1. /\ moved' = moved + ToRead
            /\ pc' = IF ToRead > 0 /\ count' > 0 THEN "r_look"
                     ELSE IF moved' > 0 THEN "r_enable" ELSE "r_spin"
        BY <2>6, <3>3 DEF ReadCopy, Goto, ToRead
      <4>2. moved' > 0
        BY <1>0, <3>1, <3>3, <4>1
      <4>. QED
        BY <1>0, <3>1, <4>1, <4>2 DEF Awake, Writing
    <3>. QED
      BY <3>2, <3>3
  <2>. QED
    BY <1>2, <2>1, <2>2, <2>3, <2>4, <2>5, <2>6 DEF Resume
<1>3. CASE UNCHANGED <<tx_in, tx_out, rx_in, rx_out, irq_enable, pc, moved>>
  BY <1>0, <1>3 DEF Awake
<1>4. CASE IrqSample
  <2>1. /\ UNCHANGED <<tx_in, tx_out, rx_out, irq_enable, pc, moved>>
        /\ rx_in' = rx_in \/ rx_in' = After(rx_in)
        /\ After(rx_in) # rx_out
    BY <1>4 DEF IrqSample, txBuffer, call, locals, IInv, HandlerKnows
  <2>. QED
    BY <1>0, <2>1 DEF Awake
<1>5. CASE IrqRxEnd
  <2>1. /\ UNCHANGED <<tx_in, tx_out, rx_in, rx_out, pc, moved>> /\ rx_in # rx_out
        /\ WE \in irq_enable => WE \in irq_enable'
    BY <1>0, <1>5 DEF IrqRxEnd, txBuffer, rxBuffer, call, locals, IInv, HandlerKnows
  <2>. QED
    BY <1>0, <2>1 DEF Awake
<1>6. CASE IrqSend
  <2>1. /\ UNCHANGED <<tx_in, rx_in, rx_out, irq_enable, pc, moved>> /\ tx_in # tx_out
    BY <1>6 DEF IrqSend, rxBuffer, call, locals
  <2>. QED
    BY <1>0, <2>1 DEF Awake
<1>7. CASE IrqTxEnd
  <2>1. /\ UNCHANGED <<tx_in, tx_out, rx_in, rx_out, pc, moved>>
        /\ irq_enable' = IF space > 0 THEN irq_enable \ {WE} ELSE irq_enable
        /\ space = 0 \/ tx_out = tx_in
    BY <1>7 DEF IrqTxEnd, txBuffer, rxBuffer, call, locals
  <2>2. RE \notin irq_enable' => RE \notin irq_enable
    BY <1>0, <2>1
  <2>3. tx_in # tx_out => irq_enable' = irq_enable
    BY <2>1
  <2>. QED
    BY <1>0, <2>1, <2>2, <2>3 DEF Awake
<1>8. CASE IrqEnter \/ IrqControl \/ IrqRead
  BY <1>3, <1>8 DEF IrqEnter, IrqControl, IrqRead, device, txBuffer, rxBuffer, call, locals
<1>9. CASE HostTake \/ HostSend \/ HostPause
  BY <1>3, <1>9 DEF HostTake, HostSend, HostPause, txBuffer, rxBuffer, call, locals
<1>. QED
  BY <1>1, <1>2, <1>3, <1>4, <1>5, <1>6, <1>7, <1>8, <1>9, Elsewhere
     DEF Irq, txBuffer, rxBuffer, call, locals

-----------------------------------------------------------------------------
(* The theorems                                                            *)

\* Along every behaviour each register keeps its type, each character its
\* place, each stale copy its worth, and the interrupt routine never writes to
\* a full FIFO, whatever it read of the FIFO before the host moved.
THEOREM Invariance == Spec => []JtagInv
<1>1. Init => JtagInv
  BY InitInv DEF JtagInv
<1>2. JtagInv /\ [Next]_vars => JtagInv'
  BY TypeStep, CoreTypeStep, TxRingStep, RxRingStep, WriterKnowsStep, ReaderKnowsStep,
     HandlerKnowsStep, AwakeStep DEF JtagInv, IInv
<1>. QED
  BY <1>1, <1>2, PTL DEF Spec

\* Neither interrupt is lost: characters in tx_buf find the transmit interrupt
\* on or a write on its way to turn it on, and receive interrupts are off only
\* while a read can still turn them on again.
THEOREM Wakeful == Spec => []NothingLost
<1>1. JtagInv => NothingLost
  BY DEF JtagInv, IInv, Awake, NothingLost, NoLostTransmit, NoLostReceive
<1>. QED
  BY <1>1, Invariance, PTL

-----------------------------------------------------------------------------
(* From rings to streams                                                   *)

LEMMA Joining ==
  ASSUME NEW S, NEW q \in Seq(S), NEW r \in Seq(S)
  PROVE  /\ q \o r \in Seq(S) /\ Len(q \o r) = Len(q) + Len(r)
         /\ \A k \in 1 .. Len(q) : (q \o r)[k] = q[k]
         /\ \A k \in 1 .. Len(r) : (q \o r)[Len(q) + k] = r[k]
OBVIOUS

\* A sequence is its elements.
LEMMA Elements ==
  ASSUME NEW S, NEW q \in Seq(S), NEW base, NEW len \in Nat, Len(q) = len,
         \A k \in 1 .. len : q[k] = base + k
  PROVE  q = [k \in 1 .. len |-> base + k]
OBVIOUS

\* Where a buffer keeps its kth character.
Place(k, out) == IF out + k - 1 < BufLen THEN out + k - 1 ELSE (out + k - 1) - BufLen

LEMMA PlaceHolds ==
  ASSUME NEW out \in Slots, NEW in \in Slots, NEW k \in 1 .. Span(in, out)
  PROVE  /\ ((out + k - 1) % BufLen) = Place(k, out)
         /\ Place(k, out) \in Slots /\ Span(Place(k, out), out) = k - 1
<1> DEFINE x == out + k - 1
           r == x % BufLen
<1>1. out \in 0 .. BufLen - 1 /\ k \in 1 .. BufLen - 1 /\ BufLen \in Nat
  <2>1. \A m \in 0 .. BufLen - 1 : \A j \in 1 .. m : j \in 1 .. BufLen - 1
    BY SlotType
  <2>. QED
    BY <2>1, SpanType, SlotType
<1>2. x \in Int /\ (x \in 0 .. BufLen - 1 \/ x \in BufLen .. BufLen + BufLen - 1)
  BY <1>1
<1>. HIDE DEF x
<1>3. r = IF x < BufLen THEN x ELSE x - BufLen
  BY <1>1, <1>2, Modulus
<1>4. r = Place(k, out)
  <2>. HIDE DEF r
  <2>. QED
    BY <1>3 DEF x, Place
<1>5. Place(k, out) \in Slots /\ Span(Place(k, out), out) = k - 1
  BY <1>1, SlotType DEF Span, Place
<1>. QED
  BY <1>4, <1>5 DEF x

Chars(buf, out, in) == [k \in 1 .. Span(in, out) |-> buf[Place(k, out)]]

LEMMA Held ==
  ASSUME NEW buf, NEW out \in Slots, NEW in \in Slots
  PROVE  Contents(buf, out, in) = Chars(buf, out, in)
<1> DEFINE len == Span(in, out)
<1>1. ((in - out) % BufLen) = len
  BY Indices
<1>2. \A k \in 1 .. len : ((out + k - 1) % BufLen) = Place(k, out)
  BY PlaceHolds
<1>. HIDE DEF len
<1>3. [k \in 1 .. len |-> buf[(out + k - 1) % BufLen]] = [k \in 1 .. len |-> buf[Place(k, out)]]
  BY <1>2, Zenon
<1>. QED
  BY <1>1, <1>3 DEF Contents, Chars, len

\* A run: len characters from base + 1 on.
IsRun(q, M, base, len) ==
  /\ q \in Seq(0 .. M) /\ len \in Nat /\ Len(q) = len
  /\ \A k \in 1 .. len : q[k] = base + k

\* A ring with its characters at their places is a run.
LEMMA RingRun ==
  ASSUME NEW M, NEW buf \in [Slots -> 0 .. M], NEW out \in Slots, NEW in \in Slots,
         NEW base \in Nat,
         \A i \in Slots : Span(i, out) < Span(in, out) => buf[i] = base + 1 + Span(i, out)
  PROVE  IsRun(Contents(buf, out, in), M, base, Span(in, out))
<1>1. PICK p : p = Span(in, out)
  OBVIOUS
<1>2. p \in 0 .. BufLen - 1 /\ p \in Nat
  BY <1>1, SpanType, SlotType
<1>3. PICK row : row = Contents(buf, out, in)
  OBVIOUS
<1>4. row = [k \in 1 .. p |-> buf[Place(k, out)]]
  <2>1. row = Chars(buf, out, in)
    BY <1>3, Held
  <2>. QED
    BY <1>1, <2>1 DEF Chars
<1>5. \A k \in 1 .. p : Place(k, out) \in Slots /\ Span(Place(k, out), out) = k - 1
  BY <1>1, PlaceHolds
<1>6. \A k \in 1 .. p : buf[Place(k, out)] \in 0 .. M
  BY <1>5
<1>7. row \in Seq(0 .. M) /\ Len(row) = p
  BY <1>2, <1>4, <1>6
<1>8. ASSUME NEW k \in 1 .. p PROVE row[k] = base + k
  <2>1. row[k] = buf[Place(k, out)]
    BY <1>4
  <2>2. buf[Place(k, out)] = base + 1 + (k - 1)
    BY <1>1, <1>2, <1>5
  <2>. QED
    BY <1>2, <2>1, <2>2
<1>. QED
  BY <1>1, <1>2, <1>3, <1>7, <1>8 DEF IsRun

\* One run after another is a run.
LEMMA RunAfterRun ==
  ASSUME NEW M, NEW base \in Nat, NEW l, NEW m, NEW q, NEW r,
         IsRun(q, M, base, l), IsRun(r, M, base + l, m)
  PROVE  IsRun(q \o r, M, base, l + m)
<1> DEFINE all == q \o r
<1>1. /\ q \in Seq(0 .. M) /\ l \in Nat /\ Len(q) = l
      /\ \A k \in 1 .. l : q[k] = base + k
      /\ r \in Seq(0 .. M) /\ m \in Nat /\ Len(r) = m
      /\ \A k \in 1 .. m : r[k] = base + l + k
  BY DEF IsRun
<1>2. all \in Seq(0 .. M) /\ Len(all) = l + m
  BY <1>1, Joining
<1>3. \A k \in 1 .. l : all[k] = base + k
  BY <1>1, Joining
<1>4. \A k \in 1 .. m : all[l + k] = base + l + k
  <2>1. \A k \in 1 .. m : all[l + k] = r[k]
    BY <1>1, Joining
  <2>. QED
    BY <1>1, <2>1
<1>. HIDE DEF all
<1>5. ASSUME NEW k \in 1 .. l + m PROVE all[k] = base + k
  <2>1. CASE k \in 1 .. l
    BY <1>3, <2>1
  <2>2. CASE k \notin 1 .. l
    <3>1. k - l \in 1 .. m /\ l + (k - l) = k /\ base + l + (k - l) = base + k
      BY <1>1, <2>2
    <3>. QED
      BY <1>4, <3>1
  <2>. QED
    BY <2>1, <2>2
<1>6. IsRun(all, M, base, l + m)
  BY <1>1, <1>2, <1>5 DEF IsRun
<1>. QED
  BY <1>6 DEF all

\* And there is one run of each length.
LEMMA RunIs ==
  ASSUME NEW M, NEW base, NEW len, NEW q, IsRun(q, M, base, len)
  PROVE  q = [k \in 1 .. len |-> base + k]
BY Elements DEF IsRun

LEMMA TxStreamHolds == ASSUME IInv PROVE TxStream
<1>1. /\ wfifo \in Seq(0 .. MaxTx) /\ tx_buf \in [Slots -> 0 .. MaxTx]
      /\ tx_in \in Slots /\ tx_out \in Slots /\ copied \in Nat /\ delivered \in Nat
  BY DEF IInv, TypeOK, CoreType, DriverType, WorldType
<1>2. PICK base, l, p :
        base = delivered + Len(wfifo) /\ l = Len(wfifo) /\ p = Span(tx_in, tx_out)
  OBVIOUS
<1>3. /\ l + p = copied - delivered
      /\ \A k \in 1 .. l : wfifo[k] = delivered + k
      /\ \A i \in Slots : Span(i, tx_out) < p => tx_buf[i] = base + 1 + Span(i, tx_out)
  BY <1>2 DEF IInv, TxRing
<1>4. l \in Nat /\ base \in Nat /\ base = delivered + l
  BY <1>1, <1>2, Lengths
<1>5. IsRun(wfifo, MaxTx, delivered, l)
  BY <1>1, <1>2, <1>3, <1>4 DEF IsRun
<1>6. IsRun(Contents(tx_buf, tx_out, tx_in), MaxTx, delivered + l, p)
  BY <1>1, <1>2, <1>3, <1>4, RingRun
<1>7. IsRun(wfifo \o Contents(tx_buf, tx_out, tx_in), MaxTx, delivered, copied - delivered)
  <2>1. IsRun(wfifo \o Contents(tx_buf, tx_out, tx_in), MaxTx, delivered, l + p)
    BY <1>1, <1>5, <1>6, RunAfterRun, Zenon
  <2>. QED
    BY <1>3, <2>1
<1>. QED
  BY <1>7, RunIs, Zenon DEF TxStream

LEMMA RxStreamHolds == ASSUME IInv PROVE RxStream
<1> DEFINE row == Contents(rx_buf, rx_out, rx_in)
           hand == IF rvalid THEN <<byte>> ELSE <<>>
<1>1. /\ rfifo \in Seq(0 .. MaxRx) /\ rx_buf \in [Slots -> 0 .. MaxRx]
      /\ rx_in \in Slots /\ rx_out \in Slots /\ sent \in Nat /\ taken \in Nat
      /\ rvalid \in BOOLEAN /\ byte \in 0 .. MaxRx
  BY DEF IInv, TypeOK, CoreType, DriverType, WorldType, HandlerType
<1>2. PICK p, l : p = Span(rx_in, rx_out) /\ l = Len(rfifo)
  OBVIOUS
<1>3. /\ p + InHand + l = sent - taken
      /\ \A i \in Slots : Span(i, rx_out) < p => rx_buf[i] = taken + 1 + Span(i, rx_out)
      /\ rvalid => byte = taken + p + 1
      /\ \A k \in 1 .. l : rfifo[k] = taken + p + InHand + k
  BY <1>2 DEF IInv, RxRing
<1>4. p \in Nat /\ InHand \in Nat /\ l \in Nat
  <2>1. Span(rx_in, rx_out) \in 0 .. BufLen - 1
    BY <1>1, SpanType
  <2>2. Len(rfifo) \in Nat
    BY <1>1, Lengths
  <2>. QED
    BY <1>2, <2>1, <2>2, SlotType DEF InHand
<1>5. IsRun(row, MaxRx, taken, p)
  BY <1>1, <1>2, <1>3, RingRun
<1>6. IsRun(hand, MaxRx, taken + p, InHand)
  <2>1. CASE rvalid
    <3>1. hand = <<byte>> /\ InHand = 1
      BY <2>1 DEF InHand
    <3>. HIDE DEF hand
    <3>2. hand \in Seq(0 .. MaxRx) /\ Len(hand) = 1 /\ hand[1] = byte
      BY <1>1, <3>1
    <3>3. \A k \in 1 .. 1 : hand[k] = taken + p + k
      BY <1>3, <2>1, <3>2
    <3>. QED
      BY <3>1, <3>2, <3>3 DEF IsRun
  <2>2. CASE ~ rvalid
    <3>1. hand = <<>> /\ InHand = 0
      BY <2>2 DEF InHand
    <3>. HIDE DEF hand
    <3>2. hand \in Seq(0 .. MaxRx) /\ Len(hand) = 0
      BY <3>1
    <3>. QED
      BY <3>1, <3>2 DEF IsRun
  <2>. QED
    BY <2>1, <2>2
<1>. HIDE DEF row, hand
<1>7. IsRun(row \o hand, MaxRx, taken, p + InHand)
  BY <1>1, <1>5, <1>6, RunAfterRun, Zenon
<1>8. IsRun(rfifo, MaxRx, taken + (p + InHand), l)
  BY <1>1, <1>2, <1>3, <1>4 DEF IsRun
<1>9. IsRun((row \o hand) \o rfifo, MaxRx, taken, sent - taken)
  <2>1. IsRun((row \o hand) \o rfifo, MaxRx, taken, (p + InHand) + l)
    BY <1>1, <1>7, <1>8, RunAfterRun, Zenon
  <2>. QED
    BY <1>3, <2>1
<1>. QED
  BY <1>9, RunIs, Zenon DEF RxStream, row, hand

\* In both directions what was produced and not yet consumed is, in order and
\* once each, in the FIFO, in the handler's hand and in the circular buffer,
\* while thread and interrupt routine work on stale copies of each other's index.
THEOREM InOrder == Spec => []Streams
<1>1. JtagInv => Streams
  BY TxStreamHolds, RxStreamHolds DEF JtagInv, Streams
<1>. QED
  BY <1>1, Invariance, PTL
=============================================================================
