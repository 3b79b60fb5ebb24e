SPECIFICATION FairSpec
CONSTANTS
  Configs <- Distinct
  Dirs <- Names
  Contents <- ContentsOf
  Hives <- Groups
  ServiceKeys = {"dora", "blobscan"}
  MaxFailures = 2
  StaticNames <- Configured
INVARIANTS
  ResultIsComplete
  NetworksAreTruthful
  StatsCoverEveryNetwork
  CountedWhereListed
PROPERTY
  ChecksEnd
CHECK_DEADLOCK FALSE
