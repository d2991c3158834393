SPECIFICATION FairSpec
CONSTANTS
  MaxDatums = 6
  MaxLimit = 4
  BatchSizes <- OneToThree
  SaveEverys <- NeverToThree
INVARIANTS ReportAddsUp RefreshedFromCommitted LabelsMatchSavedSteps FailsOnlyForItsData
PROPERTIES JobEnds
CHECK_DEADLOCK FALSE
