-------------------------------- MODULE Adc --------------------------------
(***************************************************************************)
(* The ADC controller: the processor asks for a number of samples of a     *)
(* channel through the registers of adc_ltc2308_fifo.v, a state machine on *)
(* a clock of its own takes them one by one with adc_ltc2308.v, and they   *)
(* wait in a FIFO.  The two clocks have no phase in common: an edge of     *)
(* either comes at any time, and a start resets the state machine and the  *)
(* FIFO at once.  The converter itself is external: it converts when       *)
(* CONVST rises, for the channel of the last command that SCK clocked in,  *)
(* and shifts the bits out while the next command comes in.                *)
(*                                                                         *)
(* A bit is the pair of the channel it is of and its number.               *)
(***************************************************************************)
EXTENDS Integers, Sequences, FiniteSetsExt

CONSTANTS
  Channels, Nums,               \* what the processor asks for
  FifoWords,                    \* lpm_numwords
  DATA_BITS_NUM, CMD_BITS_NUM,
  tWHCONV, tCONV, tHCONVST

tCONFIG_START == tWHCONV
tCLK_START == tCONV
tCONFIG_END == tCLK_START + CMD_BITS_NUM - 1
tCLK_END == tCLK_START + DATA_BITS_NUM
tDONE == tCLK_END + tHCONVST

ASSUME AdcAssumption ==
  /\ 0 \in Channels /\ Channels \subseteq Nat /\ Nums \subseteq 0 .. 4095
  /\ FifoWords \in Nat \ {0}
  /\ {CMD_BITS_NUM, DATA_BITS_NUM, tWHCONV, tCONV, tHCONVST} \subseteq Nat
  /\ 0 < tWHCONV /\ tWHCONV < tCONV
  /\ 0 < CMD_BITS_NUM /\ CMD_BITS_NUM <= DATA_BITS_NUM /\ DATA_BITS_NUM <= 16
  /\ 0 < tHCONVST

VARIABLES
  fifo_start, fifo_ch, fifo_num,        \* measure_fifo_*: the registers
  pre_fifo_start, fifo_done, measure_start, config_first,
  wait_done, measure_count, pre_measure_done,
  fifo,
  adc_clk, pre_start, tick, clk_enable, read_data, write_pos, measure_done,
  config_ch, sdi, sdi_index,            \* config_cmd by its channel
  chip_ch, chip_in, chip_bit,           \* the converter: the channel it has
                                        \* converted, the command bits it has
                                        \* read, the data bit on SDO
  steady,   \* history: no register has been written since the last start
  missed,   \* history: that start was not noticed
  written   \* history: samples offered to the FIFO since it

registers == <<fifo_start, fifo_ch, fifo_num>>
machine == <<fifo_done, measure_start, config_first, wait_done, measure_count,
             pre_measure_done>>
chip == <<chip_ch, chip_in, chip_bit>>
spi == <<tick, clk_enable, read_data, write_pos, measure_done, config_ch>>
config == <<sdi, sdi_index>>
adcVars == <<registers, pre_fifo_start, machine, fifo, adc_clk, pre_start, spi,
             config, chip, steady, missed, written>>

NoBit == <<-1, 0>>
Bits(n) == 0 .. n - 1
Blank == [i \in Bits(DATA_BITS_NUM) |-> NoBit]

\* All registers power up as 0.
AdcInit ==
  /\ fifo_start = FALSE /\ fifo_ch = 0 /\ fifo_num = 0
  /\ pre_fifo_start = FALSE
  /\ fifo_done = FALSE /\ measure_start = FALSE /\ config_first = FALSE
  /\ wait_done = FALSE /\ measure_count = 0 /\ pre_measure_done = FALSE
  /\ fifo = <<>>
  /\ adc_clk = FALSE /\ pre_start = FALSE
  /\ tick = 0 /\ clk_enable = FALSE /\ read_data = Blank /\ write_pos = 0
  /\ measure_done = FALSE /\ config_ch = -1 /\ sdi = NoBit /\ sdi_index = 0
  /\ chip_ch = -1 /\ chip_in = <<>> /\ chip_bit = DATA_BITS_NUM - 1
  /\ steady = FALSE /\ missed = FALSE /\ written = 0

-----------------------------------------------------------------------------
(* The processor's side *)

\* adc_reset_n is low from a start until the ADC clock has seen it.
StartPending == fifo_start /\ ~pre_fifo_start

ResetMachine ==
  /\ measure_start' = FALSE /\ config_first' = TRUE /\ measure_count' = 0
  /\ fifo_done' = FALSE /\ wait_done' = FALSE /\ pre_measure_done' = FALSE
  /\ fifo' = <<>>

WriteStart(ch, start) ==
  /\ fifo_ch' = ch /\ fifo_start' = start
  /\ IF start /\ ~pre_fifo_start THEN ResetMachine ELSE UNCHANGED <<machine, fifo>>
  /\ IF start /\ ~fifo_start
     THEN /\ steady' = TRUE /\ missed' = pre_fifo_start /\ written' = 0
     ELSE /\ steady' = (steady /\ ch = fifo_ch /\ start = fifo_start)
          /\ UNCHANGED <<missed, written>>
  /\ UNCHANGED <<fifo_num, pre_fifo_start, adc_clk, pre_start, spi, config, chip>>

WriteNum(n) ==
  /\ fifo_num' = n
  /\ steady' = FALSE
  /\ UNCHANGED <<fifo_start, fifo_ch, pre_fifo_start, machine, fifo, adc_clk,
                 pre_start, spi, config, chip, missed, written>>

\* A read of the value register, which the bus holds for two clocks.
ReadValue ==
  /\ fifo # <<>>
  /\ fifo' = Tail(fifo)
  /\ UNCHANGED <<registers, pre_fifo_start, machine, adc_clk, pre_start, spi,
                 config, chip, steady, missed, written>>

-----------------------------------------------------------------------------
(* The state machine, at a rising edge of the ADC clock *)

BeginMeasure ==
  /\ ~fifo_done /\ ~measure_start /\ ~wait_done
  /\ measure_start' = TRUE /\ wait_done' = TRUE
  /\ UNCHANGED <<fifo_done, config_first, measure_count>>

\* The first measure only tells the converter the channel.
EndMeasure ==
  /\ wait_done
  /\ measure_start' = FALSE
  /\ IF ~measure_done THEN UNCHANGED <<fifo_done, config_first, wait_done, measure_count>>
     ELSE IF config_first
          THEN /\ config_first' = FALSE
               /\ UNCHANGED <<fifo_done, wait_done, measure_count>>
     ELSE IF measure_count < fifo_num
          THEN /\ measure_count' = measure_count + 1 /\ wait_done' = FALSE
               /\ UNCHANGED <<fifo_done, config_first>>
     ELSE /\ fifo_done' = TRUE
          /\ UNCHANGED <<config_first, wait_done, measure_count>>

Idle ==
  /\ ~wait_done /\ (fifo_done \/ measure_start)
  /\ UNCHANGED <<fifo_done, measure_start, config_first, wait_done, measure_count>>

\* Mutant: the sample of the configuring measure is stored too.
Wrreq_First == ~pre_measure_done /\ measure_done

\* fifo_wrreq
Wrreq == ~pre_measure_done /\ measure_done /\ ~config_first

StoreSample ==
  IF Wrreq
  THEN /\ fifo' = IF Len(fifo) < FifoWords THEN Append(fifo, read_data) ELSE fifo
       /\ written' = written + 1
  ELSE UNCHANGED <<fifo, written>>

Machine ==
  IF StartPending THEN ResetMachine /\ UNCHANGED written
  ELSE /\ BeginMeasure \/ EndMeasure \/ Idle
       /\ pre_measure_done' = measure_done
       /\ StoreSample

-----------------------------------------------------------------------------
(* One measure, and the converter *)

CONVST(t) == t < tWHCONV

\* SCK rises: the converter reads a command bit, or ignores one too many.
SckRises ==
  chip_in' = IF clk_enable /\ Len(chip_in) < CMD_BITS_NUM THEN Append(chip_in, sdi)
             ELSE chip_in

\* A complete command is of one channel, its bits in order.
Commanded ==
  IF \E ch \in Channels : chip_in = [k \in 1 .. CMD_BITS_NUM |-> <<ch, k>>]
  THEN Head(chip_in)[1] ELSE chip_ch

\* CONVST rises.
Convert ==
  /\ chip_ch' = Commanded
  /\ chip_in' = <<>>
  /\ chip_bit' = DATA_BITS_NUM - 1

\* measure_start rises: reset_n is low until the next edge.
RestartSpi ==
  /\ tick' = 0 /\ clk_enable' = FALSE
  /\ read_data' = Blank /\ write_pos' = DATA_BITS_NUM - 1
  /\ measure_done' = FALSE
  /\ config_ch' = fifo_ch
  /\ IF CONVST(tick) THEN UNCHANGED chip ELSE Convert

Count ==
  /\ tick' = IF measure_start /\ ~pre_start THEN 0 ELSE Min({tick + 1, tDONE})
  /\ measure_done' =
       IF measure_start /\ ~pre_start THEN FALSE ELSE measure_done \/ tick = tDONE
  /\ SckRises
  /\ UNCHANGED <<clk_enable, read_data, write_pos, config_ch, chip_ch, chip_bit>>

Posedge ==
  /\ ~adc_clk /\ adc_clk' = TRUE
  /\ pre_fifo_start' = fifo_start
  /\ Machine
  /\ pre_start' = measure_start
  /\ IF measure_start' /\ ~measure_start THEN RestartSpi ELSE Count
  /\ UNCHANGED <<registers, config, steady, missed>>

\* The bit on SDO is read as SCK falls, which brings the next one.
ReadBit ==
  IF clk_enable
  THEN /\ read_data' = [i \in DOMAIN read_data |->
                          IF i = write_pos THEN <<chip_ch, chip_bit>> ELSE read_data[i]]
       /\ write_pos' = (write_pos - 1) % 16
       /\ chip_bit' = chip_bit - 1
  ELSE UNCHANGED <<read_data, write_pos, chip_bit>>

\* The command goes out ahead of SCK, its first bit during the conversion.
SendCommand ==
  CASE tick = tCONFIG_START -> sdi' = <<config_ch, 1>> /\ sdi_index' = 2
    [] tick > tCLK_START /\ tick <= tCONFIG_END ->
         sdi' = <<config_ch, sdi_index>> /\ sdi_index' = sdi_index + 1
    [] tick > tCONFIG_END -> sdi' = NoBit /\ UNCHANGED sdi_index
    [] OTHER -> UNCHANGED config

Negedge ==
  /\ adc_clk /\ adc_clk' = FALSE
  /\ clk_enable' = (tick >= tCLK_START /\ tick < tCLK_END)
  /\ ReadBit
  /\ SendCommand
  /\ UNCHANGED <<registers, pre_fifo_start, machine, fifo, pre_start, tick,
                 measure_done, config_ch, chip_ch, chip_in, steady, missed, written>>

AdcNext ==
  \/ \E ch \in Channels, start \in BOOLEAN : WriteStart(ch, start)
  \/ \E n \in Nums : WriteNum(n)
  \/ ReadValue
  \/ Posedge \/ Negedge

-----------------------------------------------------------------------------
(* Why the property holds *)

Clamp(n, most) == IF n < 0 THEN 0 ELSE IF n > most THEN most ELSE n

\* The tick at which SCK may have fallen last, and the bits that were read by then.
Fallen == IF adc_clk THEN tick - 1 ELSE tick
BitsRead == Clamp(Fallen - tCLK_START, DATA_BITS_NUM)

AdcTypeOK ==
  /\ tick \in 0 .. tDONE /\ adc_clk \in BOOLEAN
  /\ measure_start \in BOOLEAN /\ measure_done \in BOOLEAN /\ wait_done \in BOOLEAN
  /\ fifo_ch \in Channels /\ config_ch \in Channels \union {-1} /\ fifo_num \in Nat

\* Where a measure is depends on the tick alone, whatever broke off the one before.
ShiftInv ==
  /\ measure_start => tick = 0 /\ ~pre_start /\ wait_done
  /\ measure_done => tick = tDONE
  /\ clk_enable <=> Fallen >= tCLK_START /\ Fallen < tCLK_END
  /\ Fallen \in tCONFIG_START .. tCONFIG_END =>
       LET k == 1 + Clamp(Fallen - tCLK_START, CMD_BITS_NUM)
       IN sdi = <<config_ch, k>> /\ sdi_index = k + 1
  /\ chip_in = [k \in 1 .. Clamp(tick - tCLK_START, CMD_BITS_NUM) |-> <<config_ch, k>>]
  /\ chip_bit = DATA_BITS_NUM - 1 - BitsRead
  /\ config_ch # -1 =>
       /\ write_pos = chip_bit % 16
       /\ read_data = [i \in Bits(DATA_BITS_NUM) |->
                         IF i > chip_bit THEN <<chip_ch, i>> ELSE NoBit]

WholeSample == [k \in Bits(DATA_BITS_NUM) |-> <<fifo_ch, k>>]

\* The first measure is of any channel, the next ones of the one that was asked for;
\* measure_count is of those that have begun, and done comes with a measure's end.
CountInv ==
  /\ fifo \in Seq({WholeSample}) /\ Len(fifo) <= written
  /\ fifo_start
  /\ ~pre_fifo_start =>
       ~measure_start /\ ~wait_done /\ ~pre_measure_done /\ config_first
  /\ config_first =>
       /\ ~fifo_done /\ measure_count = 0 /\ written = 0
       /\ wait_done => config_ch = fifo_ch
  /\ ~config_first =>
       /\ config_ch = fifo_ch /\ measure_count \in 0 .. fifo_num
       /\ fifo_done => measure_count = fifo_num
       /\ written = IF fifo_done \/ measure_count = 0 THEN measure_count
                    ELSE measure_count - 1
       /\ fifo_done \/ measure_count = 0 => wait_done
       /\ IF fifo_done \/ measure_count = 0 \/ ~wait_done
          THEN measure_done /\ pre_measure_done
          ELSE chip_ch = fifo_ch /\ (measure_done => ~pre_measure_done)

SampleInv == AdcTypeOK /\ ShiftInv /\ (steady /\ ~missed => CountInv)

-----------------------------------------------------------------------------
(* Properties *)

\* For a start that the ADC clock noticed, after which the processor leaves the
\* registers alone: what is in the FIFO are whole conversions of the channel that
\* was asked for, though the converter answers each command one measure later,
\* though a start may break off a measure at any bit of it; and when done is set
\* there were exactly as many as asked for, though the machine counts a measure it
\* does not store.  A start goes unnoticed only
\* if the register was 0 for less than a period of the ADC clock.
AdcInv ==
  steady /\ ~missed =>
    /\ \A i \in DOMAIN fifo :
         fifo[i] = [k \in Bits(DATA_BITS_NUM) |-> <<fifo_ch, k>>]
    /\ written <= fifo_num /\ Len(fifo) <= written
    /\ fifo_done => written = fifo_num
=============================================================================
