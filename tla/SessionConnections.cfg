SPECIFICATION FairSpec
CONSTANTS
  c1 = c1
  c2 = c2
  r1 = r1
  r2 = r2
  s1 = s1
  s2 = s2
  s3 = s3
  Commands = {c1}
  Runners = {r1, r2}
  Sockets = {s1, s2, s3}
  Owner <- ThreeConnections
  Type <- OneJob
  None = None
  MaxRestarts = 2
INVARIANTS
  TypeOK
  LiveMemoryIsStored
  DurableBeforeDelivery
  RoutedToCurrentRunner
  RunningJobsAreCurrent
  DeliveredAtMostOnce
PROPERTIES
  OnlyCurrentRunnerCompletes
  ImplementsLifecycle
  RequestsAreAnswered
\* A session that is over, with no runner left, has nothing more to do.
CHECK_DEADLOCK FALSE
