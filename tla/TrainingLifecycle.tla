-------------------------- MODULE TrainingLifecycle --------------------------
(***************************************************************************)
(* What a training backend promises to the callers of one TrainingActor,   *)
(* without locks, runtimes or files.                                       *)
(*                                                                         *)
(* A run alternates between computing one gradient and applying it.  Its   *)
(* weights are identified by the number of optimizer steps that produced   *)
(* them, an artifact may be published only for the weights the run has at  *)
(* that moment, and a run that failed or was closed never changes again.   *)
(* At most one run of the backend is open at any time.                     *)
(***************************************************************************)
EXTENDS Naturals

CONSTANT RunIds          \* identities a run of this backend may get

VARIABLES
  phase,                 \* phase[r]: where run r is in its life
  steps,                 \* steps[r]: optimizer steps contained in r's weights
  published              \* artifacts readers may find: the run and the step

lifecycleVars == <<phase, steps, published>>

Phase == {"absent", "ready", "gradients_pending", "failed", "closed"}

Open(r) == phase[r] \in {"ready", "gradients_pending"}

Init ==
  /\ phase = [r \in RunIds |-> "absent"]
  /\ steps = [r \in RunIds |-> 0]
  /\ published = {}

CreateRun(r) ==
  /\ phase[r] = "absent"
  /\ \A s \in RunIds : ~Open(s)
  /\ phase' = [phase EXCEPT ![r] = "ready"]
  /\ UNCHANGED <<steps, published>>

ComputeGradient(r) ==
  /\ phase[r] = "ready"
  /\ phase' = [phase EXCEPT ![r] = "gradients_pending"]
  /\ UNCHANGED <<steps, published>>

ApplyGradient(r) ==
  /\ phase[r] = "gradients_pending"
  /\ phase' = [phase EXCEPT ![r] = "ready"]
  /\ steps' = [steps EXCEPT ![r] = @ + 1]
  /\ UNCHANGED published

Publish(r) ==
  /\ phase[r] = "ready"
  /\ published' = published \cup {[run |-> r, step |-> steps[r]]}
  /\ UNCHANGED <<phase, steps>>

Fail(r) ==
  /\ Open(r)
  /\ phase' = [phase EXCEPT ![r] = "failed"]
  /\ UNCHANGED <<steps, published>>

Shutdown(r) ==
  /\ Open(r) \/ phase[r] = "failed"
  /\ phase' = [phase EXCEPT ![r] = "closed"]
  /\ UNCHANGED <<steps, published>>

Next ==
  \E r \in RunIds :
    \/ CreateRun(r)
    \/ ComputeGradient(r)
    \/ ApplyGradient(r)
    \/ Publish(r)
    \/ Fail(r)
    \/ Shutdown(r)

Spec == Init /\ [][Next]_lifecycleVars
=============================================================================
