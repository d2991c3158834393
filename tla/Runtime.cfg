SPECIFICATION FairSpec
CONSTANTS
  j1 = j1
  j2 = j2
  d1 = d1
  d2 = d2
  NoJob = NoJob
  Jobs <- TwoJobs
  Deployments <- TwoDeployments
  Assignments <- FreshOrSame
  Faulty <- FirstJob
INVARIANTS RunsOnItsOwnWorkers EndedMeansCleanedUp OnlyLateWorkersFailAJob
PROPERTIES JobsAndWorkersEnd
CHECK_DEADLOCK FALSE
