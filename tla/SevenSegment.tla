---------------------------- MODULE SevenSegment ----------------------------
(***************************************************************************)
(* The six seven-segment displays: what avalon_seven_segment.vhd latches   *)
(* for a write, and the words printNumHex writes.  A segment lights when   *)
(* its bit is 0.                                                           *)
(***************************************************************************)
EXTENDS Integers

Digits == 0 .. 5
Pattern == 0 .. 127

\* The decoder behind addresses 8 to 15, for the low four bits of a word.
Decoder == << \h3F, \h06, \h5B, \h4F, \h66, \hED, \hFD, \h07,
              \hFF, \hEF, \hF7, \hFC, \h58, \hDE, \hF9, \hF1 >>

DataOut(address, writedata) ==
  IF address >= 8 THEN Decoder[(writedata % 16) + 1] % 128 ELSE writedata % 128

\* The registers s0 to s5 after a write; addresses 6 and 7 of each half name
\* no display.
Latch(s, address, writedata) ==
  [d \in Digits |-> IF address % 8 = d THEN DataOut(address, writedata) ELSE s[d]]

\* After a reset every segment of every display is lit.
Cleared == [d \in Digits |-> 0]

\* printNumHex: the word written for a digit is the complement, in 16
\* bits, of its pattern.
SevenSeg == << \h3F, \h06, \h5B, \h4F, \h66, \hED, \hFD, \h07, \hFF, \hEF >>

Word(digit) == 65535 - SevenSeg[digit + 1]

-----------------------------------------------------------------------------
(* What a reader sees: the lit segments, and those that draw each digit.   *)

SegmentBit == <<1, 2, 4, 8, 16, 32, 64>>
Lit(pattern) == {bit \in 0 .. 6 : (pattern \div SegmentBit[bit + 1]) % 2 = 0}

Frame == {0, 1, 2, 3, 4, 5}   \* every segment but the one in the middle
Glyph == << Frame, {1, 2}, {0, 1, 3, 4, 6}, {0, 1, 2, 3, 6}, {1, 2, 5, 6},
            {0, 2, 3, 5, 6}, {0, 2, 3, 4, 5, 6}, {0, 1, 2}, Frame \union {6},
            {0, 1, 2, 3, 5, 6} >>

\* Display d draws its digit of num in decimal.
Weight == <<1, 10, 100, 1000, 10000, 100000, 1000000>>
Draws(pattern, num, d) == Lit(pattern) = Glyph[((num \div Weight[d + 1]) % 10) + 1]

\* s shows num in decimal, with leading zeros.
Shows(s, num) == \A d \in Digits : Draws(s[d], num, d)
=============================================================================
