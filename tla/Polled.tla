------------------------------- MODULE Polled -------------------------------
(***************************************************************************)
(* The ways to the JTAG UART that poll its registers: read and write of    *)
(* the small driver (ALTERA_AVALON_JTAG_UART_SMALL), and the characters of *)
(* the debugging log, which an interrupt handler prints too.  None of them *)
(* knows of the others.  The calls of a program come to the driver through *)
(* a descriptor or, with ALT_USE_DIRECT_DRIVERS, directly: then there are  *)
(* three files and no table.  JtagUart has the driver with interrupts.     *)
(*                                                                         *)
(* A character is who writes it and its number; the host's are the bytes.  *)
(***************************************************************************)
EXTENDS Integers, Sequences, SequencesExt

CONSTANTS
  FifoDepth,   \* of the two FIFOs of the core
  MaxPut,      \* bound: characters either writer puts out
  MaxHost      \* bound: characters the host sends

ASSUME PolledAssumption ==
  FifoDepth \in Nat \ {0} /\ MaxPut \in Nat /\ MaxHost \in 0 .. 255

VARIABLES
  tx, rx,       \* the FIFOs
  at, left,     \* per writer: "idle", "test" or "put", and characters to go
  put,          \* per writer: characters put out
  behind,       \* history: a handler has printed since the thread's last test
  overflown,       \* history: characters written to a full FIFO
  arrived,      \* history: characters the host received
  hosts,        \* history: characters the host sent
  reading,      \* the thread's call that reads, and "none" if there is none
  mode,         \* whether it may wait
  wanted, got,  \* space, and the characters it has
  answer,       \* of a call that read or was refused, until the next
  seen          \* history: characters that reads have returned

polledVars ==
  <<tx, rx, at, left, put, behind, overflown, arrived, hosts, reading, mode, wanted,
    got, answer, seen>>

Writers == {"thread", "handler"}
writing == <<at, left, put, behind, overflown>>
reader == <<reading, mode, wanted, got, answer, seen>>
input == <<rx, hosts, reader>>

NoAnswer == [call |-> "none", space |-> 0, value |-> 0, chars |-> <<>>]

PolledInit ==
  /\ tx = <<>> /\ rx = <<>> /\ arrived = <<>> /\ hosts = 0
  /\ at = [w \in Writers |-> "idle"]
  /\ left = [w \in Writers |-> 0] /\ put = [w \in Writers |-> 0]
  /\ behind = FALSE /\ overflown = {}
  /\ answer = NoAnswer
  /\ reading = "none" /\ mode = "block" /\ wanted = 0 /\ got = <<>> /\ seen = <<>>

-----------------------------------------------------------------------------
(* The registers *)

Slice(register, ofst, width) == (register \div 2 ^ ofst) % 2 ^ width

\* The control register's free places in the transmit FIFO.
WSPACE == FifoDepth - Len(tx)

\* A read of the data register takes the oldest character.
Data == IF rx = <<>> THEN 0 ELSE Head(rx) + 2 ^ 15 + 2 ^ 16 * (Len(rx) - 1)
RVALID(data) == Slice(data, 15, 1) = 1
DATA(data) == Slice(data, 0, 8)

-----------------------------------------------------------------------------
(* Writing: a loop of a test for room and a write, in the driver and in the *)
(* log alike.  A handler runs to its end before the thread goes on.         *)

Runs(w) == w = "handler" \/ at["handler"] = "idle"

PutOut(w, count) ==
  /\ Runs(w) /\ at[w] = "idle" /\ put[w] + count <= MaxPut
  /\ reading # "none" => w # "thread"
  /\ at' = [at EXCEPT ![w] = "test"]
  /\ left' = [left EXCEPT ![w] = count]
  /\ behind' = (behind \/ w = "handler")
  /\ answer' = IF w = "thread" THEN NoAnswer ELSE answer
  /\ UNCHANGED <<tx, put, overflown, arrived, rx, hosts, reading, mode, wanted, got, seen>>

TestsRoom(w) ==
  /\ Runs(w) /\ at[w] = "test"
  /\ WSPACE # 0
  /\ at' = [at EXCEPT ![w] = "put"]
  /\ behind' = (behind /\ w = "handler")
  /\ UNCHANGED <<tx, left, put, overflown, arrived, input>>

\* Mutant: the room is tested for before the first character only.
WritesData_TestedOnce(w) ==
  /\ Runs(w) /\ at[w] = "put"
  /\ LET char == [by |-> w, nr |-> put[w] + 1]
     IN IF WSPACE > 0
        THEN tx' = Append(tx, char) /\ UNCHANGED overflown
        ELSE /\ overflown' = overflown \union {[char |-> char, behind |-> behind]}
             /\ UNCHANGED tx
  /\ put' = [put EXCEPT ![w] = @ + 1]
  /\ left' = [left EXCEPT ![w] = @ - 1]
  /\ at' = [at EXCEPT ![w] = IF left[w] = 1 THEN "idle" ELSE "put"]
  /\ UNCHANGED <<behind, arrived, input>>

\* A write to a full FIFO is lost.
WritesData(w) ==
  /\ Runs(w) /\ at[w] = "put"
  /\ LET char == [by |-> w, nr |-> put[w] + 1]
     IN IF WSPACE > 0
        THEN tx' = Append(tx, char) /\ UNCHANGED overflown
        ELSE /\ overflown' = overflown \union {[char |-> char, behind |-> behind]}
             /\ UNCHANGED tx
  /\ put' = [put EXCEPT ![w] = @ + 1]
  /\ left' = [left EXCEPT ![w] = @ - 1]
  /\ at' = [at EXCEPT ![w] = IF left[w] = 1 THEN "idle" ELSE "test"]
  /\ UNCHANGED <<behind, arrived, input>>

-----------------------------------------------------------------------------
(* Reading *)

StartsRead(call, space, flags) ==
  /\ Runs("thread") /\ at["thread"] = "idle" /\ reading = "none"
  /\ reading' = call /\ mode' = flags /\ wanted' = space /\ got' = <<>>
  /\ answer' = NoAnswer
  /\ UNCHANGED <<tx, writing, arrived, rx, hosts, seen>>

EIO == 5
EWOULDBLOCK == 11

\* What the driver returns.
Result(chars) ==
  IF chars # <<>> THEN Len(chars)
  ELSE IF mode = "nonblock" THEN -EWOULDBLOCK ELSE -EIO

\* char is signed.
Char(byte) == IF byte < 128 THEN byte ELSE byte - 256

\* What the call returns: with direct drivers ALT_READ hands on the driver's code.
Returned(chars) ==
  IF reading = "alt_getchar" THEN IF Result(chars) <= 0 THEN -1 ELSE Char(chars[1])
  ELSE Result(chars)

\* A turn of the loop, and the return if it was the last.
ReadsData ==
  /\ Runs("thread") /\ reading # "none"
  /\ LET full == Len(got) = wanted
         chars == IF ~full /\ RVALID(Data) THEN Append(got, DATA(Data)) ELSE got
         over == full \/ (~RVALID(Data) /\ (got # <<>> \/ mode = "nonblock"))
     IN /\ rx' = IF full \/ rx = <<>> THEN rx ELSE Tail(rx)
        /\ IF over
           THEN /\ reading' = "none" /\ got' = <<>> /\ wanted' = 0
                /\ answer' = [call |-> reading, space |-> wanted,
                              value |-> Returned(got), chars |-> got]
                /\ seen' = seen \o got
           ELSE got' = chars /\ UNCHANGED <<reading, wanted, answer, seen>>
  /\ UNCHANGED <<tx, writing, arrived, hosts, mode>>

-----------------------------------------------------------------------------
(* The calls of a program with direct drivers *)

Refuses(error) ==
  /\ Runs("thread") /\ at["thread"] = "idle" /\ reading = "none"
  /\ answer' = [call |-> error, space |-> 0, value |-> -1, chars |-> <<>>]
  /\ UNCHANGED <<tx, writing, arrived, rx, hosts, reading, mode, wanted, got, seen>>

\* The driver's functions, which the compiler finds by the device's name.
ALT_DRIVER_READ(call, len, flags) == StartsRead(call, len, flags)
ALT_DRIVER_WRITE(len) == PutOut("thread", len)

ALT_READ(file, len) ==
  IF file = 0 THEN ALT_DRIVER_READ("ALT_READ", len, "block") ELSE Refuses("EBADFD")

ALT_WRITE(file, len) ==
  IF file \in {1, 2} THEN ALT_DRIVER_WRITE(len) ELSE Refuses("EBADFD")

\* What newlib asks about a file before it buffers its output.
ALT_FSTAT(file) == IF file \in 0 .. 2 THEN "_IFCHR" ELSE "-1"
ALT_ISATTY(file) == file \in 0 .. 2

ALT_OPEN == Refuses("ENOSYS")
ALT_CLOSE == Refuses("ENOSYS")
ALT_LSEEK == Refuses("ENOSYS")

\* The options of the standard input are those of its descriptor.
alt_getchar(flags) == ALT_DRIVER_READ("alt_getchar", 1, flags)
alt_putchar == ALT_DRIVER_WRITE(1)
alt_putstr(length) == ALT_DRIVER_WRITE(length)

-----------------------------------------------------------------------------
(* The host *)

HostReceives ==
  /\ tx # <<>>
  /\ arrived' = Append(arrived, Head(tx)) /\ tx' = Tail(tx)
  /\ UNCHANGED <<writing, input>>

\* The bytes it sends, around the last one there is.
HostByte(k) == (253 + k) % 256

HostSends ==
  /\ hosts < MaxHost /\ Len(rx) < FifoDepth
  /\ hosts' = hosts + 1 /\ rx' = Append(rx, HostByte(hosts + 1))
  /\ UNCHANGED <<tx, writing, arrived, reader>>

PolledNext ==
  \/ \E length \in 1 .. 2 : PutOut("handler", length) \/ alt_putstr(length)
  \/ \E w \in Writers : TestsRoom(w) \/ WritesData(w)
  \/ \E flags \in {"block", "nonblock"} :
       \/ \E space \in 0 .. 2 : StartsRead("read", space, flags)
       \/ alt_getchar(flags)
  \/ \E file \in 0 .. 3, length \in 1 .. 2 : ALT_READ(file, length) \/ ALT_WRITE(file, length)
  \/ ALT_OPEN \/ ALT_CLOSE \/ ALT_LSEEK \/ alt_putchar
  \/ ReadsData \/ HostReceives \/ HostSends

-----------------------------------------------------------------------------
(* Properties *)

PolledChar == [by : Writers, nr : Nat]
HostChar == 0 .. 255

WritersTypeOK ==
  /\ tx \in Seq(PolledChar) /\ arrived \in Seq(PolledChar)
  /\ at \in [Writers -> {"idle", "test", "put"}]
  /\ left \in [Writers -> Int] /\ put \in [Writers -> Nat]
  /\ behind \in BOOLEAN /\ overflown \subseteq [char : PolledChar, behind : BOOLEAN]

\* Room that was tested for is there, unless a handler has printed since; one that
\* interrupts a test is noticed, and the thread goes on when it is done.
RoomKept ==
  /\ Len(tx) <= FifoDepth
  /\ at["handler"] # "idle" => behind
  /\ at["handler"] = "put" => Len(tx) < FifoDepth
  /\ at["thread"] = "put" => behind \/ Len(tx) < FifoDepth

Of(stream, w) == {i \in DOMAIN stream : stream[i].by = w}
Gone(w) == {m.char.nr : m \in {m \in overflown : m.char.by = w}}

WritersInStep ==
  LET stream == arrived \o tx
  IN \A w \in Writers :
       /\ {stream[i].nr : i \in Of(stream, w)} = (1 .. put[w]) \ Gone(w)
       /\ \A i, j \in Of(stream, w) : i < j => stream[i].nr < stream[j].nr

LossesExplained ==
  \A m \in overflown :
    m.char.by = "thread" /\ m.behind /\ m.char.nr \in 1 .. put["thread"]

ReaderTypeOK ==
  /\ rx \in Seq(HostChar) /\ got \in Seq(HostChar) /\ seen \in Seq(HostChar)
  /\ reading \in {"none", "read", "alt_getchar", "ALT_READ"}
  /\ mode \in {"block", "nonblock"} /\ wanted \in Nat /\ hosts \in Nat

\* A read has no more than it has space for.
SpaceKept ==
  /\ Len(got) <= wanted
  /\ reading = "none" => got = <<>>
  /\ reading = "alt_getchar" => wanted = 1

ReadsTheHost == seen \o got \o rx = [k \in 1 .. hosts |-> HostByte(k)]

AnswersTold ==
  /\ answer.value = -EIO /\ answer.call # "alt_getchar" => answer.space = 0
  /\ answer.call = "alt_getchar" =>
       (answer.value = -1 <=> answer.chars \in {<<>>, <<255>>})

\* What a writer put out is on its way or has arrived, once and in its order,
\* whoever else was printing; the one way to lose a character is a handler that
\* prints between the thread's test for room and its write, and a handler's own
\* characters are never lost.  Reads return what the host sent, each character
\* once and in order; a read that may wait returns nothing but characters, unless
\* no room was given for any; and -1 from alt_getchar is no character, or the
\* byte 255, which the program cannot tell from none.
PolledInv ==
  /\ WritersTypeOK /\ RoomKept /\ WritersInStep /\ LossesExplained
  /\ ReaderTypeOK /\ SpaceKept /\ ReadsTheHost /\ AnswersTold
  /\ \A file \in 0 .. 3 : ALT_ISATTY(file) <=> ALT_FSTAT(file) = "_IFCHR"
=============================================================================
