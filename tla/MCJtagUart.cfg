SPECIFICATION Spec
CONSTANTS
  BufLen = 3
  Depth = 2
  Mark = 1
  Default = 2
  Timeouts = {0}
  IntMax = 4
  MaxTx = 3
  MaxRx = 3
  Starts <- BothWays
  MaxPlugs = 0
INVARIANTS JtagInv Streams NothingLost
