\* The commands are over in the end, and so may be the processes.
SPECIFICATION Spec
CONSTANTS
  Commands = {c1, c2, c3}
  Original = Original
  None = None
SYMMETRY Symmetry
INVARIANTS
  TypeOK
  AnswerMeansOver
  WritesHold
CHECK_DEADLOCK FALSE
