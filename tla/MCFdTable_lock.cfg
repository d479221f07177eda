SPECIFICATION CallsSpec
CONSTANTS
  null = null
  uart = uart
  zip = zip
  Device = {null, uart}
  FileSystem = {zip}
  DevNull = null
  None = none
  MaxFd = 5
  Option = {}
  Provides <- MCProvides
INVARIANTS LockIsExclusive
