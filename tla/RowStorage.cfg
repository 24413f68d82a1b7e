\* The requests and the clock are bounded: when they are used up nothing is left to do.
SPECIFICATION Spec
CONSTANTS
  Rows = {k1}
  Requests = {q1, q2, q3}
  Snapshot = Snapshot
  MaxAudits = 2
  MaxLegacy = 3
  MaxTime = 2
SYMMETRY Symmetry
INVARIANTS
  TypeOK
  NextObjectFindsAll
CHECK_DEADLOCK FALSE
