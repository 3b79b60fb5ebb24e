SPECIFICATION Spec
CONSTANTS
  Nobody = Nobody
  Instances = {a, b}
  Interval = 10
  Timeout = 1
  StartWait = 1
  TTL = 20
  MaxVersion = 0
  Elections = FALSE
  Failures = FALSE
  Shutdown = TRUE
  Crashes = FALSE
INVARIANTS
  TypeOK
  NetworksStayAvailable
CHECK_DEADLOCK FALSE
