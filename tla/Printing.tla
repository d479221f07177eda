------------------------------ MODULE Printing ------------------------------
(***************************************************************************)
(* The library's own printing: alt_printf, and the printf and the echo of  *)
(* writes behind the debugging log (alt_log_printf.c), with its heartbeat, *)
(* its levels and its reports of the JTAG UART's control register.  A text *)
(* is a sequence of characters, an argument a number below Word or a text. *)
(***************************************************************************)
EXTENDS Integers, Sequences, SequencesExt

CONSTANTS
  Nibbles,        \* nibbles of a machine word
  Values,         \* the numbers printed
  Widths,         \* the field widths asked for; 0 for none
  EchoLen,        \* ALT_LOG_WRITE_ECHO_LEN
  Interval,       \* ALT_LOG_SYS_CLK_INTERVAL
  PutbufSize,     \* ALT_PUTBUF_SIZE
  Controls,       \* states of the JTAG UART's control register
  TxBufLen        \* length of the driver's transmit buffer

\* The weight of a digit that n others follow.
PlaceValue(base, n) ==
  LET p[k \in 0 .. n] == IF k = 0 THEN 1 ELSE p[k - 1] * base IN p[n]

Word == PlaceValue(16, Nibbles)

ASSUME PrintingAssumption ==
  /\ Nibbles \in Nat \ {0} /\ Values \subseteq 0 .. Word - 1
  /\ Widths \subseteq 0 .. 9 /\ EchoLen \in Nat /\ Interval \in Nat
  /\ PutbufSize \in Nat \ {0} /\ TxBufLen \in Nat \ {0}

\* The weight of bit 16 of a register.
Bit16 == 256 * 256

\* The space in the FIFO and the buffer are small for a word.
ASSUME ReportAssumption ==
  /\ Controls \subseteq [RE : 0 .. 1, WE : 0 .. 1, RI : 0 .. 1, WI : 0 .. 1,
                         AC : 0 .. 1, WSPACE : 0 .. Bit16 - 1]
  /\ \A c \in Controls : c.WSPACE < Word \div 2
  /\ TxBufLen <= Word \div 2

VARIABLES
  job,        \* what was printed last: the function, the conversion, the flags
              \* and the argument
  printed,    \* the characters that reached the output
  level,      \* ALT_LOG_FLAGS
  beats, seconds, \* alt_log_sys_clk_count, alt_system_clock_in_sec
  ticked      \* history: ticks since the start

printVars == <<job, printed, level, beats, seconds, ticked>>

Digits == <<"0", "1", "2", "3", "4", "5", "6", "7", "8", "9",
            "a", "b", "c", "d", "e", "f">>
Uppers == <<"0", "1", "2", "3", "4", "5", "6", "7", "8", "9",
            "A", "B", "C", "D", "E", "F">>
Decimal == {Digits[i] : i \in 1 .. 10}
ValueOf(d) == (CHOOSE i \in 1 .. 16 : Digits[i] = d \/ Uppers[i] = d) - 1

Repeat(c, n) == [i \in 1 .. n |-> c]
MoreOf(a, b) == IF a >= b THEN a ELSE b

-----------------------------------------------------------------------------
(* alt_printf *)

Nibble(v, i) == (v \div PlaceValue(16, Nibbles - i)) % 16

\* %x: from the first nibble that is not zero.
HexText(v) ==
  IF v = 0 THEN <<"0">>
  ELSE LET first == CHOOSE i \in 1 .. Nibbles :
                      Nibble(v, i) # 0 /\ \A j \in 1 .. i - 1 : Nibble(v, j) = 0
       IN [i \in 1 .. Nibbles - first + 1 |->
             Digits[Nibble(v, first + i - 1) + 1]]

\* One character of the format; what is no conversion prints nothing.
AltPrintfStep(st, c) ==
  IF ~st.escaped THEN
    IF c = "%" THEN [st EXCEPT !.escaped = TRUE]
    ELSE [st EXCEPT !.out = Append(@, c)]
  ELSE
    LET prints(text, used) ==
          [out |-> st.out \o text, args |-> SubSeq(st.args, used + 1, Len(st.args)),
           escaped |-> FALSE]
    IN CASE c = "%" -> prints(<<"%">>, 0)
         [] c = "c" -> prints(<<Head(st.args)>>, 1)
         [] c = "x" -> prints(HexText(Head(st.args)), 1)
         [] c = "s" -> prints(Head(st.args), 1)
         [] OTHER -> prints(<<>>, 0)

alt_printf(fmt, args) ==
  LET st[i \in 0 .. Len(fmt)] ==
        IF i = 0 THEN [out |-> <<>>, args |-> args, escaped |-> FALSE]
        ELSE AltPrintfStep(st[i - 1], fmt[i])
  IN st[Len(fmt)].out

\* With semihosting its characters are collected and written when the buffer is
\* full and at the end; without, alt_putchar takes them one by one.
alt_putbufflush(st) == [buf |-> <<>>, out |-> st.out \o st.buf]

alt_putcharbuf(st, c) ==
  LET filled == [st EXCEPT !.buf = Append(@, c)]
  IN IF Len(filled.buf) >= PutbufSize THEN alt_putbufflush(filled) ELSE filled

Written(text, semihosting) ==
  LET st[i \in 0 .. Len(text)] ==
        IF i = 0 THEN [buf |-> <<>>, out |-> <<>>]
        ELSE alt_putcharbuf(st[i - 1], text[i])
  IN IF semihosting THEN alt_putbufflush(st[Len(text)]).out ELSE text

-----------------------------------------------------------------------------
(* alt_log_private_printf *)

\* The digits of v, from its biggest power of the base down.
DigitsOf(v, base, letters) ==
  LET n == CHOOSE k \in 1 .. Nibbles * 4 :
             v < PlaceValue(base, k) /\ (k = 1 \/ v >= PlaceValue(base, k - 1))
  IN [i \in 1 .. n |-> letters[((v \div PlaceValue(base, n - i)) % base) + 1]]

\* Mutant: the sign does not count towards the width.
IntegerText_SignExtra(v, width, zero, base, signed, letters) ==
  LET minus == signed /\ v >= Word \div 2
      sign == IF minus THEN <<"-">> ELSE <<>>
      digits == DigitsOf(IF minus THEN Word - v ELSE v, base, letters)
      room == width - Len(digits)
  IN IF zero THEN sign \o Repeat("0", room) \o digits
     ELSE Repeat(" ", room) \o sign \o digits

\* doIntegerPrint
IntegerText(v, width, zero, base, signed, letters) ==
  LET minus == signed /\ v >= Word \div 2
      sign == IF minus THEN <<"-">> ELSE <<>>
      digits == DigitsOf(IF minus THEN Word - v ELSE v, base, letters)
      room == width - Len(digits) - Len(sign)
  IN IF zero THEN sign \o Repeat("0", room) \o digits
     ELSE Repeat(" ", room) \o sign \o digits

\* One character after "%" and a leading "0": part of the width or the precision,
\* or what ends the conversion.
LogConversion(st, c) ==
  LET prints(text) ==
        [st EXCEPT !.state = "chars", !.out = @ \o text, !.args = Tail(@)]
      number(base, signed, letters) ==
        prints(IntegerText(Head(st.args), st.before, st.zero, base, signed, letters))
      padded(text) == prints(Repeat(" ", st.before - Len(text)) \o text)
  IN CASE c = "." -> [st EXCEPT !.after = 0]
       [] c \in Decimal /\ st.after < 0 ->
            [st EXCEPT !.before = (IF @ < 0 THEN 0 ELSE @ * 10) + ValueOf(c)]
       [] c \in Decimal /\ st.after >= 0 ->
            [st EXCEPT !.after = @ * 10 + ValueOf(c)]
       [] c = "l" -> st
       [] c \in {"d", "i"} -> number(10, TRUE, Digits)
       [] c = "u" -> number(10, FALSE, Digits)
       [] c = "o" -> number(8, FALSE, Digits)
       [] c = "x" -> number(16, FALSE, Digits)
       [] c = "X" -> number(16, FALSE, Uppers)
       [] c = "c" -> padded(<<Head(st.args)>>)
       [] c = "s" -> padded(Head(st.args))
       [] OTHER -> [st EXCEPT !.state = "chars"]

LogPrintfStep(st, c) ==
  CASE st.state = "chars" /\ c = "%" ->
         [st EXCEPT !.state = "first", !.zero = FALSE, !.before = -1, !.after = -1]
    [] st.state = "chars" /\ c # "%" -> [st EXCEPT !.out = Append(@, c)]
    [] st.state = "first" /\ c = "0" ->
         [st EXCEPT !.zero = TRUE, !.state = "other"]
    [] st.state = "first" /\ c = "%" ->
         [st EXCEPT !.out = Append(@, c), !.state = "chars"]
    [] OTHER -> LogConversion([st EXCEPT !.state = "other"], c)

alt_log_printf_proc(fmt, args) ==
  LET st[i \in 0 .. Len(fmt)] ==
        IF i = 0 THEN [state |-> "chars", zero |-> FALSE, before |-> -1, after |-> -1,
                       args |-> args, out |-> <<>>]
        ELSE LogPrintfStep(st[i - 1], fmt[i])
  IN st[Len(fmt)].out

-----------------------------------------------------------------------------
(* What the log prints of itself *)

CtrlD == "^D"
NUL == "\\0"

UpTo(n, text) == SubSeq(text, 1, n)

\* What the echo of a write shows: its last character makes way for the end of
\* the line, "%s" stops at a NUL, and a Ctrl-D would end the connection.
EchoText(text) ==
  LET length == IF EchoLen > Len(text) THEN Len(text) ELSE EchoLen
      shown == UpTo(length - 1, text)
      ended == {i \in DOMAIN shown : shown[i] = NUL}
      line == IF ended # {} THEN UpTo((CHOOSE i \in ended : \A j \in ended : i <= j) - 1,
                                      shown)
              ELSE shown \o <<"\n", "\r">>
  IN IF length < 2 THEN <<>>
     ELSE [i \in DOMAIN line |-> IF line[i] = CtrlD THEN "D" ELSE line[i]]

\* What is logged at each level of ALT_LOG_FLAGS; -1 is silent, 0 the default.
LoggedAt(n) ==
  (IF n >= 0 THEN {"boot"} ELSE {})
    \union (IF n >= 1 THEN {"sys_clk", "startup_info"} ELSE {})
    \union (IF n >= 2 THEN {"write", "jtag_uart_alarm"} ELSE {})
    \union (IF n >= 3 THEN {"jtag_uart_isr"} ELSE {})

\* The fields of the control register: the weight of each, and how many values it
\* has.
ControlField ==
  [RE |-> <<1, 2>>, WE |-> <<2, 2>>, RI |-> <<256, 2>>, WI |-> <<512, 2>>,
   AC |-> <<1024, 2>>, WSPACE |-> <<Bit16, Bit16>>]

Extract(control, f) == (control \div ControlField[f][1]) % ControlField[f][2]

\* alt_log_jtag_uart_print_control_reg
StatusText(header, control, tx_in, tx_out) ==
  alt_log_printf_proc(
    <<"%", "s", " SW CirBuf = ", "%", "d", ", HW FIFO wspace=", "%", "d",
      " AC=", "%", "d", " WI=", "%", "d", " RI=", "%", "d", " WE=", "%", "d",
      " RE=", "%", "d", "\r", "\n">>,
    <<<<header>>, (tx_out - tx_in) % Word, Extract(control, "WSPACE"),
      Extract(control, "AC"), Extract(control, "WI"), Extract(control, "RI"),
      Extract(control, "WE"), Extract(control, "RE")>>)

-----------------------------------------------------------------------------
NoJob == [call |-> "none"]

PrintInit ==
  /\ job = NoJob /\ printed = <<>>
  /\ level \in -1 .. 3
  /\ beats = 0 /\ seconds = 0 /\ ticked = 0

\* The formats that are printed: one conversion between two other characters.
Format(conversion, zero, width) ==
  <<"<", "%">> \o (IF zero THEN <<"0">> ELSE <<>>)
    \o (IF width = 0 THEN <<>> ELSE <<Digits[width + 1]>>) \o <<conversion, ">">>

Conversions == {"d", "i", "u", "o", "x", "X"}

Prints(call, conversion, zero, width, arg, text) ==
  /\ job = NoJob /\ level = 0 /\ ticked = 0
  /\ job' = [call |-> call, conversion |-> conversion, zero |-> zero,
             width |-> width, arg |-> arg]
  /\ printed' = text
  /\ UNCHANGED <<level, beats, seconds, ticked>>

PrintsHex(v, semihosting) ==
  Prints("alt_printf", "x", FALSE, 0, v,
         Written(alt_printf(Format("x", FALSE, 0), <<v>>), semihosting))

PrintsNumber(conversion, zero, width, v) ==
  Prints("log", conversion, zero, width, v,
         alt_log_printf_proc(Format(conversion, zero, width), <<v>>))

PrintsText(width, text) ==
  \/ Prints("alt_printf", "s", FALSE, 0, text,
            alt_printf(Format("s", FALSE, 0), <<text>>))
  \/ Prints("log", "s", FALSE, width, text,
            alt_log_printf_proc(Format("s", FALSE, width), <<text>>))

\* Each further conversion takes the argument after the one before.
PrintsTwo(v, text) ==
  \/ Prints("alt_printf", "two", FALSE, 0, <<v, text>>,
       alt_printf(<<"%", "x", "%", "%", "%", "s">>, <<v, text>>))
  \/ Prints("log", "two", FALSE, 0, <<v, text>>,
       alt_log_printf_proc(<<"%", "x", "%", "%", "%", "s">>, <<v, text>>))

\* The register as the core composes it.
ControlRegister(c) ==
  c.RE + 2 * c.WE + 256 * c.RI + 512 * c.WI + 1024 * c.AC + Bit16 * c.WSPACE

Reports(c, tx_in, tx_out, header) ==
  /\ job = NoJob /\ ticked = 0
  /\ job' = [call |-> "status", control |-> c, in |-> tx_in, out |-> tx_out]
  /\ printed' = StatusText(header, ControlRegister(c), tx_in, tx_out)
  /\ UNCHANGED <<level, beats, seconds, ticked>>

\* At the driver's start, from its alarm, and from its interrupt routine.
alt_log_jtag_uart_startup_info(c) ==
  "startup_info" \in LoggedAt(level) /\ Reports(c, 0, 0, "JTAG Startup Info:")

altera_avalon_jtag_uart_report_log(c, tx_in, tx_out) ==
  "jtag_uart_alarm" \in LoggedAt(level) /\ Reports(c, tx_in, tx_out, "JTAG Alarm:")

alt_log_jtag_uart_isr_proc(c, tx_in, tx_out) ==
  "jtag_uart_isr" \in LoggedAt(level) /\ Reports(c, tx_in, tx_out, "JTAG IRQ:")

Texts == UNION {[1 .. n -> {"a", NUL, CtrlD}] : n \in 0 .. EchoLen + 1}

Echoes(text) ==
  /\ "write" \in LoggedAt(level) /\ job = NoJob /\ ticked = 0
  /\ job' = [call |-> "echo", arg |-> text]
  /\ printed' = EchoText(text)
  /\ UNCHANGED <<level, beats, seconds, ticked>>

\* alt_log_system_clock, at every tick
Heartbeat ==
  /\ job = NoJob /\ ticked < 4 * (Interval + 1)
  /\ ticked' = ticked + 1
  /\ IF "sys_clk" \notin LoggedAt(level) THEN UNCHANGED <<beats, seconds, printed>>
     ELSE IF beats + 1 > Interval
          THEN beats' = 0 /\ seconds' = seconds + 1 /\ printed' = <<seconds>>
          ELSE beats' = beats + 1 /\ UNCHANGED <<seconds, printed>>
  /\ UNCHANGED <<job, level>>

PrintNext ==
  \/ \E v \in Values, semihosting \in BOOLEAN : PrintsHex(v, semihosting)
  \/ \E conversion \in Conversions, zero \in BOOLEAN, width \in Widths,
        v \in Values : PrintsNumber(conversion, zero, width, v)
  \/ \E width \in Widths, text \in {<<>>, <<"a">>, <<"a", "%", "x">>} :
       PrintsText(width, text)
  \/ \E v \in Values : PrintsTwo(v, <<"b">>)
  \/ \E text \in Texts : Echoes(text)
  \/ Heartbeat
  \/ \E c \in Controls :
       \/ alt_log_jtag_uart_startup_info(c)
       \/ \E tx_in, tx_out \in 0 .. TxBufLen - 1 :
            \/ altera_avalon_jtag_uart_report_log(c, tx_in, tx_out)
            \/ alt_log_jtag_uart_isr_proc(c, tx_in, tx_out)

-----------------------------------------------------------------------------
(* Properties *)

BaseOf(conversion) ==
  CASE conversion \in {"d", "i", "u"} -> 10
    [] conversion = "o" -> 8 [] conversion \in {"x", "X"} -> 16

ReadBack(digits, base) ==
  LET value[i \in 0 .. Len(digits)] ==
        IF i = 0 THEN 0 ELSE value[i - 1] * base + ValueOf(digits[i])
  IN value[Len(digits)]

Reads(digits, base, v) ==
  /\ \A i \in DOMAIN digits : digits[i] \in Range(Digits) \union Range(Uppers)
  /\ ReadBack(digits, base) = v
  /\ Len(digits) > 1 => digits[1] # "0"

\* A field that shows v: its digits, with a sign and padding before them, as wide
\* as was asked for, and wider only if the number is.
Shows(field, v, base, signed, zero, width) ==
  LET minus == signed /\ v >= Word \div 2
      sign == IF minus THEN <<"-">> ELSE <<>>
      size == IF minus THEN Word - v ELSE v
  IN \E n \in 1 .. Len(field) :
       LET digits == SubSeq(field, Len(field) - n + 1, Len(field))
           pads == Len(field) - n - Len(sign)
       IN /\ Reads(digits, base, size)
          /\ pads = MoreOf(0, width - n - Len(sign))
          /\ field = (IF zero THEN sign \o Repeat("0", pads)
                      ELSE Repeat(" ", pads) \o sign) \o digits

Field == SubSeq(printed, 2, Len(printed) - 1)

PrintsField ==
  CASE job.conversion \in Conversions ->
         Shows(Field, job.arg, BaseOf(job.conversion),
               job.conversion \in {"d", "i"}, job.zero, job.width)
    [] job.conversion = "s" ->
         Field = Repeat(" ", job.width - Len(job.arg)) \o job.arg
    [] job.conversion = "two" ->
         \E n \in 1 .. Len(printed) :
           /\ Reads(UpTo(n, printed), 16, job.arg[1])
           /\ SubSeq(printed, n + 1, Len(printed)) = <<"%">> \o job.arg[2]

\* The number between one label of a report and the next.
Reported(label, next) ==
  LET place(l) == CHOOSE i \in DOMAIN printed : printed[i] = l
      text == SubSeq(printed, place(label) + 1, place(next) - 1)
  IN IF Head(text) = "-" THEN -ReadBack(Tail(text), 10) ELSE ReadBack(text, 10)

\* Every field is printed as the core has it.  What is printed for the buffer is
\* minus the characters in it, but for whole turns of the buffer.
ReportsRight ==
  LET c == job.control
      cirBuf == Reported(" SW CirBuf = ", ", HW FIFO wspace=")
  IN /\ (cirBuf + (job.in - job.out)) % TxBufLen = 0
     /\ Reported(", HW FIFO wspace=", " AC=") = c.WSPACE
     /\ Reported(" AC=", " WI=") = c.AC /\ Reported(" WI=", " RI=") = c.WI
     /\ Reported(" RI=", " WE=") = c.RI /\ Reported(" WE=", " RE=") = c.WE
     /\ Reported(" RE=", "\r") = c.RE

\* What is printed reads back to the number that was passed, whatever its sign
\* bit, the base and the padding, and a text that holds a "%" is printed as it
\* is, with semihosting or without; a report shows the register it was read from.
\* An echo fits its buffer, shows characters of what was written at their places
\* and sends no Ctrl-D.
PrintsRight ==
  /\ job.call \in {"alt_printf", "log"} => PrintsField
  /\ job.call = "status" => ReportsRight
  /\ job.call = "echo" =>
       /\ Len(printed) <= EchoLen + 1
       /\ \A i \in DOMAIN printed :
            /\ printed[i] \notin {CtrlD, NUL}
            /\ printed[i] \in {"\n", "\r"} \/ printed[i] = job.arg[i]
               \/ (printed[i] = "D" /\ job.arg[i] = CtrlD)
=============================================================================
