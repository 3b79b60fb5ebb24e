SPECIFICATION Spec
CONSTANTS
  c1 = c1
  c2 = c2
  Clients = {c1, c2}
  Charts <- ChartsOf
  ClientFiles <- Files
  FeatureFiles <- Features
INVARIANTS
  RenderIsExact
  CommandsAreMerges
  LossesAreFailures
CHECK_DEADLOCK FALSE
