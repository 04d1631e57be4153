SPECIFICATION Spec
CONSTANTS
  Hart = {main, h1, h2, h3}
  Main = main
  Nil = nil
SYMMETRY Symmetry
INVARIANTS
  NoHartLost
  SidsDistinct
  CloneIsSynchronous
  MainEndsProcess
  HInv
CHECK_DEADLOCK FALSE
