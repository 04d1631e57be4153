SPECIFICATION Spec
CONSTANTS
  Code <- MixedCode
  Entry = 26
  TcacheSize = 16
  HashSize = 2
  Gap = 2
  MaxBytes = 16
  MaxSlots = 8
  CountMod = 8
  LengthMod = 64
INVARIANTS
  WellFormed
CHECK_DEADLOCK FALSE
