SPECIFICATION FairSpec
CONSTANTS
  Calls = {c1, c2}
  First = First
  None = None
  Torn = Torn
  MaxBatch = 2
  MaxFaults = 1
  MaxScripts = 2
INVARIANTS
  TypeOK
  StaleOnlyAfterFailure
  ConfigNamesCreatedSession
  ProvisionedIsUsed
  NoRivalRunners
PROPERTIES
  EveryCallIsAnswered
\* A client that has sent everything has nothing more to do.
CHECK_DEADLOCK FALSE
