SPECIFICATION FairSpec
CONSTANTS
  Nobody = Nobody
  Instances = {a, b}
  Interval = 1
  Timeout = 0
  StartWait = 0
  TTL = 1
  MaxVersion = 1
  Elections = TRUE
  Failures = TRUE
  Shutdown = FALSE
  Crashes = TRUE
PROPERTIES
  KeysNeverGoBack
  StartReturns
  LeaderCatchesUp
CHECK_DEADLOCK FALSE
