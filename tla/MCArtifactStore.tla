--------------------------- MODULE MCArtifactStore ---------------------------
(* ArtifactStore with one load at a time: loads share no state.             *)
EXTENDS ArtifactStore

CONSTANTS r1

OneReader == {r1}
=============================================================================
