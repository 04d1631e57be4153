SPECIFICATION FairSpec
CONSTANTS
  Hart = {main, h1, h2}
  Main = main
  Nil = nil
PROPERTIES
  CloneReturns
CHECK_DEADLOCK FALSE
