SPECIFICATION Spec
CONSTANTS
  Artifacts <- Checkpoints
  RunOf <- RunOfArtifact
  ModelPath <- PathOfArtifact
  Loras <- AdapterArtifacts
  Nothing = "nothing"
INVARIANTS SamplesUseTheirArtifact
