------------------------------ MODULE JtagUart ------------------------------
(***************************************************************************)
(* The JTAG UART that carries the program's standard output and input: the *)
(* fast driver (altera_avalon_jtag_uart_*.c) between two circular buffers, *)
(* the interrupt routine, the timeout routine the system clock calls every *)
(* second, the FIFOs and the control register of the core, and the host.   *)
(*                                                                         *)
(* The build is single-threaded: one thread calls the driver, one call at  *)
(* a time.  The interrupt routine preempts it between any two of its       *)
(* accesses to the shared state, and runs to its end; only the host moves  *)
(* meanwhile.  Characters are numbered in the order they are produced.     *)
(***************************************************************************)
EXTENDS Integers, Sequences

CONSTANTS
  BufLen,     \* ALTERA_AVALON_JTAG_UART_BUF_LEN
  Depth,      \* depth of the two FIFOs of the core
  Mark,       \* the write FIFO interrupts when it holds at most Mark, the
              \* read FIFO when it lacks at most Mark
  Default,    \* ALTERA_AVALON_JTAG_UART_DEFAULT_TIMEOUT, in seconds
  Timeouts,   \* arguments the program gives TIOCSTIMEOUT
  IntMax,     \* INT_MAX: host_inactive stops short of it
  MaxTx,      \* bound: the last character the program writes
  MaxRx,      \* bound: the last character the host sends
  Starts,     \* how many of each a behaviour has behind it at its start
  MaxPlugs    \* bound: times the host comes or goes

ASSUME SizeAssumption ==
  /\ BufLen \in Nat \ {0, 1}
  /\ Depth \in Nat \ {0}
  /\ Mark \in 0 .. Depth - 1
  /\ Timeouts \subseteq Int
  /\ IntMax \in Nat /\ Default \in 1 .. IntMax - 2
  /\ MaxTx \in Nat /\ MaxRx \in Nat /\ MaxPlugs \in Nat
  /\ Starts \subseteq (0 .. MaxTx) \X (0 .. MaxRx)

VARIABLES
  \* altera_avalon_jtag_uart_state
  tx_buf, tx_in, tx_out, rx_buf, rx_in, rx_out,
  irq_enable, host_inactive, timeout,
  \* the core
  wfifo, rfifo, ac, pause_irq, woverflow,
  \* the thread's call: where it is, its locals, its result
  pc, ret, count, nonblock, snap, n, moved,
  \* the interrupt routine: where it is, what it read
  irq, control, space, rvalid, byte, avail,
  \* the host
  host, plugs,
  \* history: characters written, received by the host, sent by it, read
  copied, delivered, sent, taken

txBuffer == <<tx_buf, tx_in, tx_out>>
rxBuffer == <<rx_buf, rx_in, rx_out>>
core == <<wfifo, rfifo, ac, pause_irq, woverflow>>
locals == <<count, nonblock, snap, n, moved>>
call == <<pc, ret, locals>>
handler == <<irq, control, space, rvalid, byte, avail>>
world == <<host, plugs>>
history == <<copied, delivered, sent, taken>>
vars == <<txBuffer, rxBuffer, irq_enable, host_inactive, timeout,
          core, call, handler, world, history>>

Slots == 0 .. BufLen - 1
After(i) == (i + 1) % BufLen
Least(a, b) == IF a < b THEN a ELSE b
RE == "RE"
WE == "WE"

\* What a circular buffer holds, oldest first.
Contents(buf, out, in) ==
  [k \in 1 .. (in - out) % BufLen |-> buf[(out + k - 1) % BufLen]]

\* TIOCGCONNECTED: "Find out whether host is connected".
Connected == host_inactive < timeout

\* The control register's pending bits.  irq_enable stands for the driver's
\* copy and for ien_AE and ien_AF of the core: they are always set together.
WI == WE \in irq_enable /\ Len(wfifo) <= Mark
RI == RE \in irq_enable /\ (pause_irq \/ Depth - Len(rfifo) <= Mark)

\* altera_avalon_jtag_uart_init has run: receive interrupts are on, the alarm
\* is started and the host is given the benefit of the doubt.
Init ==
  /\ tx_buf = [i \in Slots |-> 0] /\ tx_in = 0 /\ tx_out = 0
  /\ rx_buf = [i \in Slots |-> 0] /\ rx_in = 0 /\ rx_out = 0
  /\ irq_enable = {RE}
  /\ host_inactive = 0 /\ timeout = Default
  /\ wfifo = <<>> /\ rfifo = <<>>
  /\ ac = FALSE /\ pause_irq = FALSE /\ woverflow = FALSE
  /\ pc = "idle" /\ ret = "none"
  /\ count = 0 /\ nonblock = FALSE /\ snap = 0 /\ n = 0 /\ moved = 0
  /\ irq = "out" /\ control = {} /\ space = 0
  /\ rvalid = FALSE /\ byte = 0 /\ avail = TRUE
  /\ host \in {"on", "off"} /\ plugs = 0
  /\ \E s \in Starts : copied = s[1] /\ sent = s[2]
  /\ delivered = copied /\ taken = sent

-----------------------------------------------------------------------------
(* The thread.  Each action is what it does between two points where an    *)
(* interrupt matters; it runs only while the interrupt routine does not.   *)

At(l) == pc = l /\ irq = "out"
Goto(l) == pc' = l /\ UNCHANGED ret

\* A call returns, and its locals are gone.
Return(result) ==
  /\ pc' = "idle" /\ ret' = result
  /\ count' = 0 /\ nonblock' = FALSE /\ snap' = 0 /\ n' = 0 /\ moved' = 0

Begin(l, len, nb) ==
  /\ pc' = l /\ ret' = "none"
  /\ count' = len /\ nonblock' = nb /\ UNCHANGED <<snap, n, moved>>

\* What a write returns: the characters taken, or why it took none.
WriteResult == IF moved > 0 THEN "ok"
               ELSE IF nonblock THEN "EWOULDBLOCK" ELSE "EIO"

device == <<txBuffer, rxBuffer, irq_enable, host_inactive, timeout, core>>
others == <<handler, world>>

WriteCall(len, nb) ==
  /\ At("idle") /\ copied + len <= MaxTx
  /\ Begin("w_look", len, nb)
  /\ UNCHANGED <<device, others, history>>

\* in = sp->tx_in; out = sp->tx_out: only the interrupt routine moves tx_out.
WriteLook ==
  /\ At("w_look")
  /\ Goto("w_copy")
  /\ snap' = tx_out
  /\ UNCHANGED <<count, nonblock, n, moved, device, others, history>>

\* Mutant: no slot is left empty.
Room_FillsAll == IF tx_in < snap THEN snap - tx_in ELSE BufLen - tx_in

\* The contiguous room after tx_in, with one slot left empty.
Room == IF tx_in < snap THEN snap - 1 - tx_in
        ELSE IF snap > 0 THEN BufLen - tx_in
        ELSE BufLen - 1 - tx_in

\* memcpy(sp->tx_buf + in, ptr, n)
WriteCopy ==
  /\ At("w_copy")
  /\ n' = Least(Room, count)
  /\ Goto(IF n' = 0 THEN "w_kick" ELSE "w_publish")
  /\ tx_buf' = [i \in Slots |-> IF i \in tx_in .. tx_in + n' - 1
                                  THEN copied + 1 + i - tx_in ELSE tx_buf[i]]
  /\ UNCHANGED <<count, nonblock, snap, moved, tx_in, tx_out, rxBuffer,
                 irq_enable, host_inactive, timeout, core, others, history>>

WritePublish ==
  /\ At("w_publish")
  /\ tx_in' = (tx_in + n) % BufLen
  /\ copied' = copied + n
  /\ moved' = moved + n
  /\ count' = count - n
  /\ Goto(IF count' > 0 THEN "w_look" ELSE "w_kick")
  /\ UNCHANGED <<nonblock, snap, n, tx_buf, tx_out, rxBuffer, irq_enable,
                 host_inactive, timeout, core, others, delivered, sent, taken>>

\* Mutant: the interrupt is turned on only by a write that has to wait.
WriteKick_IfFull ==
  /\ At("w_kick")
  /\ irq_enable' = IF count > 0 THEN irq_enable \union {WE} ELSE irq_enable
  /\ IF count = 0 \/ nonblock
       THEN Return(WriteResult)
       ELSE Goto("w_spin") /\ UNCHANGED locals
  /\ UNCHANGED <<txBuffer, rxBuffer, host_inactive, timeout, core, others,
                 history>>

\* With interrupts disabled: the transmit interrupt is turned on every time.
WriteKick ==
  /\ At("w_kick")
  /\ irq_enable' = irq_enable \union {WE}
  /\ IF count = 0 \/ nonblock
       THEN Return(WriteResult)
       ELSE Goto("w_spin") /\ UNCHANGED locals
  /\ UNCHANGED <<txBuffer, rxBuffer, host_inactive, timeout, core, others,
                 history>>

\* Mutant: the wait does not look at the host.
WriteSpin_Blind ==
  /\ At("w_spin")
  /\ snap # tx_out
  /\ Goto("w_check")
  /\ UNCHANGED <<locals, device, others, history>>

\* while (out == sp->tx_out && sp->host_inactive < sp->timeout) ;
WriteSpin ==
  /\ At("w_spin")
  /\ snap # tx_out \/ ~Connected
  /\ Goto("w_check")
  /\ UNCHANGED <<locals, device, others, history>>

\* if (sp->host_inactive) break;
WriteCheck ==
  /\ At("w_check")
  /\ IF host_inactive # 0
       THEN Return(WriteResult)
       ELSE Goto("w_look") /\ UNCHANGED locals
  /\ UNCHANGED <<device, others, history>>

ReadCall(len, nb) ==
  /\ At("idle") /\ taken + len <= MaxRx
  /\ Begin("r_look", len, nb)
  /\ UNCHANGED <<device, others, history>>

\* in = sp->rx_in: only the interrupt routine moves it.
ReadLook ==
  /\ At("r_look")
  /\ Goto("r_copy")
  /\ snap' = rx_in
  /\ UNCHANGED <<count, nonblock, n, moved, device, others, history>>

\* The contiguous characters from rx_out on.
Ready == IF snap >= rx_out THEN snap - rx_out ELSE BufLen - rx_out

\* The characters leave rx_buf when rx_out moves, after they are copied.
ReadCopy ==
  /\ At("r_copy")
  /\ LET k == Least(Ready, count) IN
     /\ rx_out' = (rx_out + k) % BufLen
     /\ taken' = taken + k
     /\ \/ /\ k = 0 /\ moved = 0 /\ nonblock
           /\ Return("EWOULDBLOCK")
        \/ /\ ~(k = 0 /\ moved = 0 /\ nonblock)
           /\ moved' = moved + k
           /\ count' = count - k
           /\ Goto(IF k > 0 /\ count' > 0 THEN "r_look"
                   ELSE IF moved' > 0 THEN "r_enable" ELSE "r_spin")
           /\ UNCHANGED <<nonblock, snap, n>>
  /\ UNCHANGED <<txBuffer, rx_buf, rx_in, irq_enable, host_inactive, timeout,
                 core, others, copied, delivered, sent>>

\* while (in == sp->rx_in && sp->host_inactive < sp->timeout) ;
ReadSpin ==
  /\ At("r_spin")
  /\ snap # rx_in \/ ~Connected
  /\ Goto("r_check")
  /\ UNCHANGED <<locals, device, others, history>>

\* if (in == sp->rx_in) break;
ReadCheck ==
  /\ At("r_check")
  /\ IF snap = rx_in THEN Return("EIO") ELSE Goto("r_look") /\ UNCHANGED locals
  /\ UNCHANGED <<device, others, history>>

\* Mutant: the assignment takes no notice of transmit interrupts.
ReadEnable_Assigns ==
  /\ At("r_enable")
  /\ irq_enable' = {RE}
  /\ Return("ok")
  /\ UNCHANGED <<txBuffer, rxBuffer, host_inactive, timeout, core, others,
                 history>>

\* With interrupts disabled: there is room again, receive interrupts go on.
ReadEnable ==
  /\ At("r_enable")
  /\ irq_enable' = irq_enable \union {RE}
  /\ Return("ok")
  /\ UNCHANGED <<txBuffer, rxBuffer, host_inactive, timeout, core, others,
                 history>>

CloseCall(nb) ==
  /\ At("idle")
  /\ Begin("c_wait", 0, nb)
  /\ UNCHANGED <<device, others, history>>

\* The transmit buffer is drained, or the host is given up, or not waited for.
CloseWait ==
  /\ At("c_wait")
  /\ \/ (tx_out = tx_in \/ ~Connected) /\ Return("ok")
     \/ tx_out # tx_in /\ Connected /\ nonblock /\ Return("EWOULDBLOCK")
  /\ UNCHANGED <<device, others, history>>

\* ioctl TIOCSTIMEOUT
SetTimeout(t) ==
  /\ At("idle")
  /\ timeout # IntMax
  /\ timeout' = IF t >= 2 /\ t < IntMax THEN t ELSE IntMax - 1
  /\ UNCHANGED <<txBuffer, rxBuffer, irq_enable, host_inactive, core, call,
                 others, history>>

Resume ==
  \/ WriteLook \/ WriteCopy \/ WritePublish \/ WriteKick \/ WriteSpin
  \/ WriteCheck
  \/ ReadLook \/ ReadCopy \/ ReadSpin \/ ReadCheck \/ ReadEnable
  \/ CloseWait

-----------------------------------------------------------------------------
(* altera_avalon_jtag_uart_irq                                             *)

IrqEnter ==
  /\ irq = "out"
  /\ RI \/ WI
  /\ irq' = "control"
  /\ UNCHANGED <<device, world, call, control, space, rvalid, byte, avail,
                 history>>

\* Mutant: the FIFO is taken to be empty.
IrqControl_AssumesEmpty ==
  /\ irq = "control"
  /\ control' = (IF RI THEN {"RI"} ELSE {}) \union (IF WI THEN {"WI"} ELSE {})
  /\ space' = IF WI THEN Depth ELSE 0
  /\ avail' = TRUE
  /\ irq' = IF RI THEN "rx" ELSE IF WI THEN "tx" ELSE "out"
  /\ UNCHANGED <<device, world, call, rvalid, byte, history>>

\* One read of the control register decides about both directions.
IrqControl ==
  /\ irq = "control"
  /\ control' = (IF RI THEN {"RI"} ELSE {}) \union (IF WI THEN {"WI"} ELSE {})
  /\ space' = IF WI THEN Depth - Len(wfifo) ELSE 0
  /\ avail' = TRUE
  /\ irq' = IF RI THEN "rx" ELSE IF WI THEN "tx" ELSE "out"
  /\ UNCHANGED <<device, world, call, rvalid, byte, history>>

\* A read of the data register pops the read FIFO, unless rx_buf is full.
IrqRead ==
  /\ irq = "rx"
  /\ IF After(rx_in) = rx_out
       THEN irq' = "rx_end" /\ UNCHANGED <<rfifo, pause_irq, rvalid, byte>>
       ELSE /\ irq' = "rx_sample"
            /\ pause_irq' = FALSE
            /\ rvalid' = (rfifo # <<>>)
            /\ IF rfifo # <<>> THEN byte' = Head(rfifo) /\ rfifo' = Tail(rfifo)
                               ELSE UNCHANGED <<byte, rfifo>>
  /\ UNCHANGED <<txBuffer, rxBuffer, irq_enable, host_inactive, timeout, wfifo,
                 ac, woverflow, call, control, space, avail, world, history>>

\* RAVAIL is sampled the cycle after: a character may have come meanwhile.
IrqSample ==
  /\ irq = "rx_sample"
  /\ avail' = (rfifo # <<>>)
  /\ IF rvalid
       THEN /\ rx_buf' = [rx_buf EXCEPT ![rx_in] = byte]
            /\ rx_in' = After(rx_in)
            /\ irq' = "rx"
       ELSE irq' = "rx_end" /\ UNCHANGED <<rx_buf, rx_in>>
  /\ rvalid' = FALSE /\ byte' = 0
  /\ UNCHANGED <<txBuffer, rx_out, irq_enable, host_inactive, timeout, core,
                 call, control, space, world, history>>

\* Characters are left in the FIFO: receive interrupts go off.
IrqRxEnd ==
  /\ irq = "rx_end"
  /\ irq_enable' = IF avail THEN irq_enable \ {RE} ELSE irq_enable
  /\ irq' = IF "WI" \in control THEN "tx" ELSE "control"
  /\ UNCHANGED <<txBuffer, rxBuffer, host_inactive, timeout, core, call, control,
                 space, rvalid, byte, avail, world, history>>

IrqSend ==
  /\ irq = "tx"
  /\ space > 0 /\ tx_out # tx_in
  /\ woverflow' = (Len(wfifo) = Depth)
  /\ wfifo' = IF woverflow' THEN wfifo ELSE Append(wfifo, tx_buf[tx_out])
  /\ tx_out' = After(tx_out)
  /\ space' = space - 1
  /\ UNCHANGED <<tx_buf, tx_in, rxBuffer, irq_enable, host_inactive, timeout,
                 rfifo, ac, pause_irq, call, irq, control, rvalid, byte, avail,
                 world, history>>

\* Nothing is left to send: the transmit interrupt goes off.
IrqTxEnd ==
  /\ irq = "tx"
  /\ space = 0 \/ tx_out = tx_in
  /\ irq_enable' = IF space > 0 THEN irq_enable \ {WE} ELSE irq_enable
  /\ irq' = "control"
  /\ UNCHANGED <<txBuffer, rxBuffer, host_inactive, timeout, core, call, control,
                 space, rvalid, byte, avail, world, history>>

Irq == \/ IrqEnter \/ IrqControl \/ IrqRead \/ IrqSample \/ IrqRxEnd
       \/ IrqSend \/ IrqTxEnd

\* altera_avalon_jtag_uart_timeout, called every second by the system clock,
\* whose interrupt does not preempt this one.
Timeout ==
  /\ irq = "out"
  /\ IF ac THEN ac' = FALSE /\ host_inactive' = 0
           ELSE /\ host_inactive' = IF host_inactive < IntMax - 2
                                      THEN host_inactive + 1 ELSE host_inactive
                /\ UNCHANGED ac
  /\ UNCHANGED <<txBuffer, rxBuffer, irq_enable, timeout, wfifo, rfifo, pause_irq,
                 woverflow, call, handler, world, history>>

-----------------------------------------------------------------------------
(* The host, through the JTAG hub: it empties the write FIFO, fills the    *)
(* read FIFO and pauses; what it does on the receive side sets ac.         *)

HostTake ==
  /\ host = "on" /\ wfifo # <<>>
  /\ wfifo' = Tail(wfifo)
  /\ delivered' = delivered + 1
  /\ UNCHANGED <<txBuffer, rxBuffer, irq_enable, host_inactive, timeout, rfifo,
                 ac, pause_irq, woverflow, call, handler, world,
                 copied, sent, taken>>

HostSend ==
  /\ host = "on" /\ sent < MaxRx /\ Len(rfifo) < Depth
  /\ rfifo' = Append(rfifo, sent + 1)
  /\ sent' = sent + 1
  /\ ac' = TRUE
  /\ UNCHANGED <<txBuffer, rxBuffer, irq_enable, host_inactive, timeout, wfifo,
                 pause_irq, woverflow, call, handler, world,
                 copied, delivered, taken>>

HostPause ==
  /\ host = "on"
  /\ ac' = TRUE
  /\ pause_irq' = (pause_irq \/ rfifo # <<>>)
  /\ UNCHANGED <<txBuffer, rxBuffer, irq_enable, host_inactive, timeout, wfifo,
                 rfifo, woverflow, call, handler, world, history>>

\* The cable is plugged or unplugged, the terminal started or stopped.
Plug ==
  /\ plugs < MaxPlugs
  /\ plugs' = plugs + 1
  /\ host' = IF host = "on" THEN "off" ELSE "on"
  /\ UNCHANGED <<txBuffer, rxBuffer, irq_enable, host_inactive, timeout, core,
                 call, handler, history>>

Host == HostTake \/ HostSend \/ HostPause \/ Plug

-----------------------------------------------------------------------------
Call ==
  \/ \E len \in 1 .. MaxTx, nb \in BOOLEAN : WriteCall(len, nb)
  \/ \E len \in 1 .. MaxRx, nb \in BOOLEAN : ReadCall(len, nb)
  \/ \E nb \in BOOLEAN : CloseCall(nb)
  \/ \E t \in Timeouts : SetTimeout(t)

Next == Call \/ Resume \/ Irq \/ Timeout \/ Host

Spec == Init /\ [][Next]_vars

\* The processor runs: the interrupt routine to its end, the clock's alarm
\* again and again, and the thread in between (each interrupt is raised by a
\* character or a pause of the host, so they leave it time).  A host that is
\* there empties the write FIFO and pauses when it has sent.
FairSpec ==
  /\ Spec
  /\ SF_vars(Resume) /\ WF_vars(Irq) /\ SF_vars(Timeout)
  /\ WF_vars(HostTake) /\ SF_vars(HostPause)
-----------------------------------------------------------------------------
(* Properties *)

Writing == {"w_look", "w_copy", "w_publish", "w_kick"}
Waiting == {"w_spin", "w_check", "c_wait"}
Reading == {"r_look", "r_copy", "r_spin", "r_check", "r_enable"}

DriverType ==
  /\ tx_buf \in [Slots -> 0 .. MaxTx] /\ tx_in \in Slots /\ tx_out \in Slots
  /\ rx_buf \in [Slots -> 0 .. MaxRx] /\ rx_in \in Slots /\ rx_out \in Slots
  /\ irq_enable \subseteq {RE, WE}
  /\ host_inactive \in 0 .. IntMax - 2
  /\ timeout \in 1 .. IntMax

CoreType ==
  /\ wfifo \in Seq(0 .. MaxTx) /\ Len(wfifo) <= Depth
  /\ rfifo \in Seq(0 .. MaxRx) /\ Len(rfifo) <= Depth
  /\ ac \in BOOLEAN /\ pause_irq \in BOOLEAN /\ woverflow \in BOOLEAN

CallType ==
  /\ pc \in {"idle"} \union Writing \union Waiting \union Reading
  /\ ret \in {"none", "ok", "EIO", "EWOULDBLOCK"}
  /\ count \in Nat /\ nonblock \in BOOLEAN /\ snap \in Slots
  /\ n \in 0 .. BufLen - 1 /\ moved \in Nat

HandlerType ==
  /\ irq \in {"out", "control", "rx", "rx_sample", "rx_end", "tx"}
  /\ control \subseteq {"RI", "WI"} /\ space \in 0 .. Depth
  /\ rvalid \in BOOLEAN /\ byte \in 0 .. MaxRx /\ avail \in BOOLEAN

WorldType ==
  /\ host \in {"on", "off"} /\ plugs \in 0 .. MaxPlugs
  /\ copied \in 0 .. MaxTx /\ delivered \in 0 .. MaxTx
  /\ sent \in 0 .. MaxRx /\ taken \in 0 .. MaxRx

TypeOK == DriverType /\ CoreType /\ CallType /\ HandlerType /\ WorldType

\* Between the thread that fills tx_buf from a stale tx_out and the interrupt
\* routine that empties it, no character is lost, doubled or reordered: the
\* write FIFO followed by the buffer is what was written and not yet received.
TxStream ==
  wfifo \o Contents(tx_buf, tx_out, tx_in)
    = [k \in 1 .. copied - delivered |-> delivered + k]

\* The same for the characters the host sends, through the read FIFO, the byte
\* the interrupt routine holds, and rx_buf, from which the thread copies up to
\* a stale rx_in.
RxStream ==
  Contents(rx_buf, rx_out, rx_in)
      \o (IF rvalid THEN <<byte>> ELSE <<>>) \o rfifo
    = [k \in 1 .. sent - taken |-> taken + k]

\* Both at once: the two directions share the interrupt routine and irq_enable.
Streams == TxStream /\ RxStream

\* The space read once at the top of the interrupt routine's loop is enough for
\* all it sends: the core never drops a character on a full write FIFO.
NoOverflow == ~woverflow

\* Characters in tx_buf are never forgotten: outside the interrupt routine
\* either the transmit interrupt is on, or a write is on its way to turn it on,
\* whatever the order in which the two touch irq_enable.
NoLostTransmit ==
  tx_in # tx_out /\ irq = "out" /\ pc \notin Writing
    => WE \in irq_enable

\* Receive interrupts are off only while a read can still turn them on again:
\* rx_buf holds something for it to return, or it has just taken it.  This
\* covers the character that arrives between the pop that found the FIFO empty
\* and the sampling of RAVAIL, which turns them off with room in rx_buf.
NoLostReceive ==
  RE \notin irq_enable /\ irq = "out"
    => \/ rx_in # rx_out
       \/ pc \in {"r_look", "r_copy", "r_enable"} /\ moved > 0

\* Neither direction loses its interrupt to an update made for the other.
NothingLost == NoLostTransmit /\ NoLostReceive

\* A blocking write, and the wait of a close, returns: neither spins for ever
\* on a host that has left, is slow, or comes and goes.  A blocking read returns
\* once there is a character for it, or once the host has left for good: no
\* wake-up is lost between the FIFO and rx_in.
CallsReturn ==
  /\ pc \in Writing \union Waiting ~> pc = "idle"
  /\ pc \in Reading /\ sent > taken ~> pc = "idle"
  /\ <>[](host = "off") => (pc \in Reading ~> pc = "idle")

\* When the host stays, all that the program wrote reaches it in the end, with
\* no further call of the driver.
AllDelivered == <>[](host = "on") => <>[](copied = delivered)

-----------------------------------------------------------------------------
(* Why they hold                                                           *)

\* Characters from out up to in
Span(in, out) == IF in >= out THEN in - out ELSE in - out + BufLen

\* The streams slot by slot: each character is at its place.
TxRing ==
  /\ Len(wfifo) + Span(tx_in, tx_out) = copied - delivered
  /\ \A k \in 1 .. Len(wfifo) : wfifo[k] = delivered + k
  /\ \A i \in Slots : Span(i, tx_out) < Span(tx_in, tx_out) =>
       tx_buf[i] = delivered + Len(wfifo) + 1 + Span(i, tx_out)

InHand == IF rvalid THEN 1 ELSE 0

RxRing ==
  /\ Span(rx_in, rx_out) + InHand + Len(rfifo) = sent - taken
  /\ \A i \in Slots : Span(i, rx_out) < Span(rx_in, rx_out) =>
       rx_buf[i] = taken + 1 + Span(i, rx_out)
  /\ rvalid => byte = taken + Span(rx_in, rx_out) + 1
  /\ \A k \in 1 .. Len(rfifo) :
       rfifo[k] = taken + Span(rx_in, rx_out) + InHand + k

\* What the thread's stale copy of an index is good for: from snap on there is
\* at least the room, or there are the characters, that it takes there to be.
WriterKnows ==
  /\ pc \in Writing \union {"w_spin", "w_check"} => copied + count <= MaxTx
  /\ pc = "w_copy" => Span(tx_in, tx_out) <= Span(tx_in, snap)
  /\ pc = "w_publish" =>
       /\ n \in 1 .. count
       /\ tx_in + n <= BufLen
       /\ Span(tx_in, tx_out) + n < BufLen
       /\ \A i \in tx_in .. tx_in + n - 1 : tx_buf[i] = copied + 1 + i - tx_in

ReaderKnows ==
  /\ pc \in Reading => taken + count <= MaxRx
  /\ pc = "r_copy" => Span(snap, rx_out) <= Span(rx_in, rx_out)

\* What the interrupt routine's registers are good for until it looks again: the
\* room in the write FIFO, and that it never ends a reception with rx_buf empty.
HandlerKnows ==
  /\ irq \notin {"out", "control"} => space + Len(wfifo) <= Depth
  /\ rvalid => irq = "rx_sample"
  /\ pause_irq => rfifo # <<>>
  /\ irq = "rx" => rx_in # rx_out \/ rfifo # <<>>
  /\ irq = "rx_sample" => After(rx_in) # rx_out /\ (rx_in # rx_out \/ rvalid)
  /\ irq = "rx_end" => rx_in # rx_out

\* An interrupt is off only while nothing waits for it, or somebody is on the
\* way to turn it on, inside the interrupt routine too.
Awake ==
  /\ tx_in # tx_out /\ pc \notin Writing => WE \in irq_enable
  /\ RE \notin irq_enable =>
       \/ rx_in # rx_out
       \/ pc \in {"r_look", "r_copy", "r_enable"} /\ moved > 0

IInv == /\ TypeOK /\ TxRing /\ RxRing
        /\ WriterKnows /\ ReaderKnows /\ HandlerKnows /\ Awake

\* Every register keeps its type, every character its place, every stale copy
\* its worth, and the core is never written to when full.
JtagInv == IInv /\ NoOverflow
=============================================================================
