SPECIFICATION Spec
CONSTANTS
  Modulus = 32
  DefaultSlots = 4
  DefaultDuration = 2
  Millis = 2
  Configs <- AllConfigs
  Listings <- Lists
INVARIANTS
  ForksAreComplete
  ScheduleIsMonotone
  ProvidersAgree
  PublishedIsStable
CHECK_DEADLOCK FALSE
