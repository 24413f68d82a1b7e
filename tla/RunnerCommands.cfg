\* Commands and connections are bounded: when they are used up nothing is left to do.
SPECIFICATION FairSpec
CONSTANTS
  MaxCommands = 3
  MaxConnections = 2
INVARIANTS
  TypeOK
  OneAtATime
  RunningJobIsActive
  ProcessesAreOwned
  AnswerMeansOver
PROPERTY EveryCommandEnds
CHECK_DEADLOCK FALSE
