SPECIFICATION RadarSpec
CONSTANTS
  LastAngle = 40
  Increment = 1
  PosMax = 1023
  Delay = 1
  Pause = 30
  Gap = 10
  MaxGap = 14
  MaxFlight = 4
  Cap = 14
  Readings = {7, 698, 1023}
  Apps = {"radar", "telemetre_us", "servomoteur"}
  Resets = TRUE
INVARIANTS RadarInv
PROPERTIES NeverAhead BoundedLag
