SPECIFICATION FairSpec
CONSTANTS
  a = a
  b = b
  Networks = {a, b}
  Nodes = {n1}
  Additional <- AdditionalSources
  Permits = 1
  MaxRetries = 1
INVARIANTS
  FirstSourceWins
  SuccessMeansAllDone
  PermitsAreAccounted
PROPERTY
  Terminates
CHECK_DEADLOCK FALSE
