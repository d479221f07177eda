----------------------------- MODULE SystemMap -----------------------------
(***************************************************************************)
(* Where an access of the program goes.  The program has the addresses of  *)
(* system.h, which was generated from an older build of the Qsys system    *)
(* than the hardware: its SYSID_QSYS_TIMESTAMP is 1675177910, the register  *)
(* of the hardware holds 1675181209.  The router of the data master and    *)
(* the interrupt mapper are the hardware's.                                *)
(***************************************************************************)
EXTENDS Integers

CONSTANT NoDevice

VARIABLES
  access,    \* the last access: who, where to, and the address it was given
  reached    \* the slave and the register that took it

mapVars == <<access, reached>>

-----------------------------------------------------------------------------
(* The program's side: system.h, the addresses of io.h *)

BusDevice(base, span, irq) == [base |-> base, span |-> span, irq |-> irq]

KEY == BusDevice(\h81060, 16, -1)
ADC_LTC2308 == BusDevice(\h81080, 8, -1)
AVALON_SERVOMOTEUR_0 == BusDevice(\h81098, 4, -1)
AVALON_SEVEN_SEGMENT_0 == BusDevice(\h81000, 64, -1)
AVALON_TELEMETRE_US_0 == BusDevice(\h8109c, 4, -1)
INTERVAL_TIMER == BusDevice(\h81040, 32, 2)
JTAG_UART == BusDevice(\h81090, 8, 0)
ONCHIP_MEMORY2 == BusDevice(\h40000, 160000, -1)
SW == BusDevice(\h81070, 16, 1)
SYSID_QSYS == BusDevice(\h81088, 8, -1)

system_h ==
  [key |-> KEY, adc |-> ADC_LTC2308, servo |-> AVALON_SERVOMOTEUR_0,
   seven_segment |-> AVALON_SEVEN_SEGMENT_0, telemeter |-> AVALON_TELEMETRE_US_0,
   timer |-> INTERVAL_TIMER, jtag_uart |-> JTAG_UART, memory |-> ONCHIP_MEMORY2,
   sw |-> SW, sysid |-> SYSID_QSYS]

IO_CALC_ADDRESS_NATIVE(base, regnum) == base + 4 * regnum

\* The regions of the linker script
RESET_REGION == \h40000 .. \h40000 + 31
ONCHIP_MEMORY2_REGION == \h40020 .. \h40020 + 159967
alt_heap_limit == \h67100

\* Ticks per second from the timer's period.
ALTERA_AVALON_TIMER_FREQ(freq, period, units) ==
  CASE units = "us" -> (1000000 + (period - 1)) \div period
    [] units = "ms" -> (1000 + (period - 1)) \div period
    [] units = "s" -> 1
    [] OTHER -> (freq + (period - 1)) \div period

-----------------------------------------------------------------------------
(* The hardware's side *)

Both == {"read", "write"}
Window(from, to, kinds, words) ==
  [from |-> from, size |-> to - from, kinds |-> kinds, words |-> words]

\* The ranges of the router, what it passes on, and the words that a slave can
\* tell apart by its address lines; the servo and the telemeter have none.
router ==
  [memory |-> Window(\h40000, \h80000, Both, 2 ^ 16),
   debug |-> Window(\h80800, \h81000, Both, 2 ^ 9),
   seven_segment |-> Window(\h81000, \h81040, {"write"}, 2 ^ 4),
   timer |-> Window(\h81040, \h81060, Both, 2 ^ 3),
   key |-> Window(\h81060, \h81070, {"read"}, 2 ^ 2),
   sw |-> Window(\h81070, \h81080, Both, 2 ^ 2),
   adc |-> Window(\h81080, \h81088, Both, 2),
   sysid |-> Window(\h81088, \h81090, {"read"}, 2),
   jtag_uart |-> Window(\h81090, \h81098, Both, 2),
   servo |-> Window(\h81098, \h8109c, {"write"}, 1),
   telemeter |-> Window(\h8109c, \h810a0, {"read"}, 1)]

\* The address bits above a range's size are compared, in the 20 bits that the
\* data master has; an access that no range takes goes to the memory.
Takes(slave, address, kind) ==
  LET r == router[slave]
      masked == address - (address % r.size)
  IN masked = r.from /\ kind \in r.kinds

Routed(address, kind) ==
  IF \E s \in DOMAIN router : Takes(s, address % 2 ^ 20, kind)
  THEN CHOOSE s \in DOMAIN router : Takes(s, address % 2 ^ 20, kind)
  ELSE "memory"

Reached(address, kind) ==
  LET slave == Routed(address, kind)
  IN [slave |-> slave, register |-> (address \div 4) % router[slave].words]

MemoryWords == 40000
sender_irq == [jtag_uart |-> 0, sw |-> 1, timer |-> 2]
TimerPeriod == 49999 + 1
ClockRate == 50000000

-----------------------------------------------------------------------------
(* The accesses of the program and its drivers *)

BusAccess(device, register, kind, address) ==
  [device |-> device, register |-> register, kind |-> kind, address |-> address]

BusRegister(name, register, kind) ==
  BusAccess(name, register, kind, IO_CALC_ADDRESS_NATIVE(system_h[name].base, register))

\* printNumHex adds the digit's place to the base, in bytes.
DigitWrite(i) ==
  BusAccess("seven_segment", i, "write",
         IO_CALC_ADDRESS_NATIVE(AVALON_SEVEN_SEGMENT_0.base + i * 4, 0))

TimerAccesses ==
  {BusRegister("timer", r, "write") : r \in 0 .. 4}
    \union {BusRegister("timer", r, "read") : r \in {1, 4, 5}}

JtagAccesses == {BusRegister("jtag_uart", r, k) : r \in {0, 1}, k \in Both}

BusAccesses ==
  {DigitWrite(i) : i \in 0 .. 5} \union TimerAccesses \union JtagAccesses
    \union {BusRegister("servo", 0, "write"), BusRegister("telemeter", 0, "read")}

\* The program's other accesses are of no device of system.h.
ASSUME MapAssumption == NoDevice \notin DOMAIN system_h

Nowhere == [slave |-> "none", register |-> 0]

MapInit ==
  /\ access = BusAccess(NoDevice, 0, "read", 0)
  /\ reached = Nowhere

Performs ==
  \E a \in BusAccesses :
    access' = a /\ reached' = Reached(a.address, a.kind)

\* An address of no device: a null pointer, and registers accessed the way their
\* device does not support.
Strays ==
  \E a \in {BusAccess(NoDevice, 0, "write", 0),
            BusAccess(NoDevice, 0, "write", AVALON_TELEMETRE_US_0.base),
            BusAccess(NoDevice, 0, "read", AVALON_SERVOMOTEUR_0.base)} :
    access' = a /\ reached' = Reached(a.address, a.kind)

MapNext == Performs \/ Strays

-----------------------------------------------------------------------------
(* Properties *)

\* Although the program was built for another generation of the system, every
\* register it accesses is the one it means, by the router and the address
\* lines; no device's addresses are cut short; its interrupts arrive under the
\* numbers it registers; code, data and heap are in words that the memory has;
\* the tick rate it assumes is that of the timer; and an access that no device
\* supports disturbs no other device.
MapInv ==
  reached # Nowhere =>
    /\ IF access.device = NoDevice THEN reached.slave = "memory"
       ELSE reached = [slave |-> access.device, register |-> access.register]
    /\ \A d \in DOMAIN system_h :
         /\ system_h[d].base = router[d].from
         /\ system_h[d].span <= router[d].size
         /\ system_h[d].span <= 4 * router[d].words
         /\ system_h[d].irq # -1 => sender_irq[d] = system_h[d].irq
    /\ \A a \in {\h40000, \h40020, \h40020 + 159967, alt_heap_limit - 1} :
         /\ a \in RESET_REGION \union ONCHIP_MEMORY2_REGION
         /\ Reached(a, "write").slave = "memory"
         /\ Reached(a, "write").register < MemoryWords
    /\ ALTERA_AVALON_TIMER_FREQ(ClockRate, 1, "ms") * TimerPeriod = ClockRate
=============================================================================
