SPECIFICATION FairSpec
CONSTANTS
  Providers = {github, static}
  Keys = {net}
  NoProvider = NoProvider
  ChanCap = 1
  MaxRuns = 2
INVARIANTS
  TypeOK
  MergeExact
  SendersNeverBlock
  OnceReportsFailure
PROPERTIES
  PublisherSpec
  ResultsAreTakenUp
  DiscoveryGetsMutex
  CancelEndsService
