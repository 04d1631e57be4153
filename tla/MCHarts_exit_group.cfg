SPECIFICATION FairSpec
CONSTANTS
  Hart = {main, h1, h2}
  Main = main
  Nil = nil
PROPERTIES
  ExitGroupEndsProcess
CHECK_DEADLOCK FALSE
