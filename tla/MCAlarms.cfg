SPECIFICATION FairSpec
CONSTANTS
  Alarm = {a1, a2, a3}
  Head = Head
  Wrap = 4
  Delays = {0, 2}
  Periods = {0, 1, 3}
INVARIANTS IInv
PROPERTIES KeepsTime TickReturns GoesOff
