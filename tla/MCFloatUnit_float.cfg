SPECIFICATION Spec
CONSTANTS
  Base = 8
  Fmt16 <- Order16
  Fmt32 <- Order32
  Fmt64 <- Order64
  Left <- OrderLeft
  Right <- OrderRight
INVARIANTS CorrectlyRounded ConversionsRounded OneOrder HighProducts
