\* The clock and the arrivals are bounded: when they are used up nothing is left to do.
SPECIFICATION Spec
CONSTANTS
  Requests = {r1, r2}
  Arrivals = {a1, a2, a3}
  None = None
  Skew = 1
  MaxAhead = 2
  Retention = 2
  Protected = 1
  Cap = 1
  FailureWindow = 1
  FailureLimit = 1
  MaxTime = 3
SYMMETRY Symmetry
INVARIANTS
  TypeOK
  AcceptedOnceUnlessCrowdedOut
  AnsweredIsRemembered
  StorageCatchesUp
CHECK_DEADLOCK FALSE
