SPECIFICATION FairSpec
CONSTANTS
  BufLen = 3
  Depth = 1
  Mark = 0
  Default = 2
  Timeouts = {}
  IntMax = 4
  MaxTx = 4
  MaxRx = 3
  Starts <- OneWay
  MaxPlugs = 1
PROPERTIES CallsReturn AllDelivered
