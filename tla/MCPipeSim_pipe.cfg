SPECIFICATION Spec
CONSTANTS
  Insns <- MixedInsns
  max_pipe_depth = 4
  HISTORY = 4
  conf_iu = 3
  conf_fpu = 1
  conf_mem = 5
  Keys = {"b", "f", "c", "x"}
  MaxCycle = 8
INVARIANTS
  TypeOK
  BusyIsInFlight
  StallsEnd
  ShowsThatCycle
CHECK_DEADLOCK FALSE
