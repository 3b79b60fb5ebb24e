SPECIFICATION FairSpec
CONSTANTS
  Networks = {a, b, c, s}
  Eligible = {a, b, c}
  Consensus = {c1}
  Execution = {e1, e2}
  Resolves = {c1, e1}
  Serves = {c1, e2}
  Generators = 2
  Checks = 1
  Attempts = 2
  Validation = TRUE
INVARIANTS
  PermitsAreAccounted
  ObjectsAreExact
  SuccessMeansUploaded
PROPERTY
  Terminates
CHECK_DEADLOCK FALSE
