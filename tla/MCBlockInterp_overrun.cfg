SPECIFICATION Spec
CONSTANTS
  Code <- MixedCode
  Entry = 26
  TcacheSize = 26
  HashSize = 2
  Gap = 2
  MaxBytes = 48
  MaxSlots = 24
  CountMod = 32
  LengthMod = 64
INVARIANTS
  TableHoldsIndexes
CHECK_DEADLOCK FALSE
