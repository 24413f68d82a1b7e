SPECIFICATION Spec
CONSTANTS
  c1 = c1
  c2 = c2
  r1 = r1
  r2 = r2
  s1 = s1
  s2 = s2
  s3 = s3
  Commands = {c1, c2}
  Runners = {r1, r2}
  Sockets = {s1, s3}
  Owner <- TwoRunners
  Type <- JobAndInterrupt
  None = None
  MaxRestarts = 0
INVARIANTS
  AnswersAreDurable
  WaitingMatchesPending
  EndedJobsEnded
  NoInternalError
PROPERTIES
  SettledStays
\* A session that is over, with no runner left, has nothing more to do.
CHECK_DEADLOCK FALSE
