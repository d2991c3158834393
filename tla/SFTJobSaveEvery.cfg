SPECIFICATION Spec
CONSTANTS
  MaxDatums = 6
  MaxLimit = 4
  BatchSizes <- OneToThree
  SaveEverys <- NeverToThree
INVARIANTS SamplesTheLabelledWeights
CHECK_DEADLOCK FALSE
