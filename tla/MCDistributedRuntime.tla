------------------------ MODULE MCDistributedRuntime ------------------------
(* Two distributed jobs, one of which meets faults, each with an id of its *)
(* own, or both with the same.                                             *)
EXTENDS DistributedRuntime, TLC

CONSTANTS j1, j2, d1, d2

TwoJobs == {j1, j2}
TwoDeployments == {d1, d2}
FreshOrSame == {(j1 :> d1) @@ (j2 :> d2), (j1 :> d1) @@ (j2 :> d1)}
Same == {(j1 :> d1) @@ (j2 :> d1)}
FirstJob == {j1}
=============================================================================
