--------------------------- MODULE MCSGLangRollout ---------------------------
(* SGLangRollout with the artifacts of two runs, "a" and "b".  Artifacts a0,*)
(* a1 and b0 are adapters on two base models, f0 and f1 full checkpoints.   *)
EXTENDS SGLangRollout

Adapters == {"a0", "a1", "b0"}
AdaptersAndCheckpoints == Adapters \cup {"f0", "f1"}
Checkpoints == {"f0", "f1"}

RunOfArtifact ==
  [x \in Artifacts |-> IF x \in {"b0", "f1"} THEN "b" ELSE "a"]
PathOfArtifact ==
  [x \in Artifacts |-> IF x \in {"f0", "f1"} THEN x
                       ELSE IF x = "b0" THEN "base_b" ELSE "base_a"]
AdapterArtifacts == Artifacts \cap Adapters
=============================================================================
