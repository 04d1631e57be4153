SPECIFICATION Spec
CONSTANTS
  Code <- TinyCode
  Entry = 26
  TcacheSize = 14
  HashSize = 2
  Gap = 2
  MaxBytes = 24
  MaxSlots = 12
  CountMod = 16
  LengthMod = 64
INVARIANTS
  OnlyGuestStops
CHECK_DEADLOCK FALSE
