SPECIFICATION FairSpec
CONSTANTS
  c1 = c1
  c2 = c2
  Nobody = Nobody
  Callers <- TwoThreads
  Deployments <- OneOrTwoThreads
  MaxRuns = 2
  MaxSteps = 2
INVARIANTS
  TypeOK
  AtMostOneActiveRun
  OneGradientPerStep
  SavedWeightsMatchLabel
  ActiveRunHasProcessGroup
PROPERTIES
  ImplementsLifecycle
  EveryCallReturns
CHECK_DEADLOCK FALSE
