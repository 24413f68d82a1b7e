\* A ring of four units with events of at most two, markers of one and
\* answers of one: an event may be larger than an answer, and a piece may end
\* early for a character of two.
SPECIFICATION FairSpec
CONSTANTS
  MaxBytes = 4
  MaxEventBytes = 2
  MarkerBytes = 1
  CharBytes = 2
  ReadBytes = 3
  TailBytes = 1
  MaxOutput = 6
INVARIANTS TypeOK CursorsContiguous NoSilentGap EndedIsComplete
PROPERTY FollowerFinishes
\* The log stops when the job has ended and was read to its end.
CHECK_DEADLOCK FALSE
