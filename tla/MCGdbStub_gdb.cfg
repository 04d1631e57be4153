SPECIFICATION FairSpec
CONSTANTS
  Commands <- EveryCommand
  InBufSize = 9
  MaxCommands = 2
  MaxFaults = 2
  MaxTimeouts = 2
INVARIANTS
  TypeOK
  AnswersAreTrue
  NoTimeoutNeeded
PROPERTIES
  ImplementsDebugChannel
  CommandsAnswered
CHECK_DEADLOCK FALSE
