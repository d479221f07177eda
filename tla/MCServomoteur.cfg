SPECIFICATION ServoFairSpec
CONSTANTS
  PulseWidthMin_ticks = 1
  PulseWidthMax_ticks = 5
  Period_ticks = 8
  PosMod = 4
  Writes = {0, 2, 7}
  ServoResets = TRUE
INVARIANTS ServoInv
PROPERTIES PulseFollows DrivesServo SettlesOnPosition
