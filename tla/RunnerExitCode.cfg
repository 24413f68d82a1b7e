\* Commands and connections are bounded: when they are used up nothing is left to do.
SPECIFICATION Spec
CONSTANTS
  MaxCommands = 1
  MaxConnections = 1
INVARIANT ExitCodeIsReturned
CHECK_DEADLOCK FALSE
