SPECIFICATION FairSpec
CONSTANTS
  Code <- MixedCode
  Entry = 26
  TcacheSize = 23
  HashSize = 3
  Gap = 3
  MaxBytes = 16
  MaxSlots = 8
  CountMod = 8
  LengthMod = 64
INVARIANTS
  TypeOK
  BlocksWellFormed
  ChainsComplete
  NoDuplicateBlocks
  LinksAreSuccessors
  IInv
  UndamagedUntilFull
PROPERTIES
  ImplementsGuestMachine
  ExecutesOn
  InstructionReached
CHECK_DEADLOCK FALSE
