SPECIFICATION FairSpec
CONSTANTS
  TriggerTicks = 2
  CooldownTicks = 5
  Mult = 2
  Div = 3
  IntMod = 32
  DistMod = 4
  MinReaction = 1
  MinEcho = 0
  MaxEcho = 9
  PowerUp = {0, 1}
  Faults = {"reset", "miss"}
INVARIANTS MeasureExact IInv
PROPERTIES TriggerWide TriggerSpaced ReadingFaithful ServesReader KeepsRanging
