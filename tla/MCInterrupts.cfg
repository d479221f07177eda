SPECIFICATION FairSpec
CONSTANTS
  NIRQ = 4
  Timer = 2
  Jtag = 0
  Preemptible = {1, 3}
INVARIANTS IInv TicksKept
PROPERTIES Served
