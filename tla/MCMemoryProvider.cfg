SPECIFICATION FairSpec
CONSTANT MaxVersion = 3
INVARIANT NoMissedUpdate
PROPERTIES
  CacheSpec
  StopTerminates
  ConsumerCatchesUp
CHECK_DEADLOCK FALSE
