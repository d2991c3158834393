SPECIFICATION FairSpec
CONSTANT Jobs <- SmallJobs
INVARIANTS
  TypeOK
  EveryStepTrainsTheGlobalBatch
  LossIsTheMeanOfTheStep
  ManifestsAreWhole
  ResultIsAuthoritative
  SoundJobsDoNotFail
  DatumsTrainCompletions
PROPERTY JobEnds
CHECK_DEADLOCK FALSE
