SPECIFICATION FairSpec
CONSTANTS
  Artifacts <- AdaptersAndCheckpoints
  RunOf <- RunOfArtifact
  ModelPath <- PathOfArtifact
  Loras <- AdapterArtifacts
  Nothing = "nothing"
INVARIANTS MemoryIsTrue LoraSamplesUseTheirArtifact VisibleOnlyWhenLoaded
PROPERTIES EveryCallReturns
