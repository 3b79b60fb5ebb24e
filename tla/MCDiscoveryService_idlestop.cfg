SPECIFICATION Spec
CONSTANTS
  Providers = {github, static}
  Keys = {net}
  NoProvider = NoProvider
  ChanCap = 1
  MaxRuns = 2
INVARIANT IdleServiceStops
