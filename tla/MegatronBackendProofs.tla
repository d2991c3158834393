------------------------ MODULE MegatronBackendProofs ------------------------
(***************************************************************************)
(* Proofs about MegatronBackend for any set of calling threads and any     *)
(* bounds: the inductive invariant behind the lifecycle, the safety        *)
(* properties it implies, and the refinement of TrainingLifecycle.         *)
(***************************************************************************)
EXTENDS MegatronBackend, TLAPS

\* A thread inside create_training_run holds self._lock, has a run id left for
\* the new run, and no run became active since its check.
CreateHoldsLock ==
  \A c \in Callers : call[c].op \in {"create_training_run", "build_model"} =>
    /\ backend_lock = c
    /\ next_run <= MaxRuns
    /\ \A r \in RunIds : ~Active(r)

\* A thread inside a call on a run holds that run's lock.
CallHoldsRunLock ==
  \A c \in Callers : call[c].op \in RunOps =>
    /\ call[c].run \in RunIds
    /\ run_lock[call[c].run] = c

\* Run ids are handed out in order; close visits only states that exist.
IdsAreAllocated ==
  /\ \A r \in RunIds : r < next_run <=> status[r] # "absent"
  /\ \A c \in Callers : \A r \in to_close[c] : r < next_run

\* While a run can still train, the weights its runtime holds are the ones its
\* counters claim.
WeightsMatchCounters ==
  \A r \in RunIds : status[r] \notin {"failed", "closed"} =>
    /\ model_steps[r] = optimizer_step[r]
    /\ status[r] = "absent" => gradient_version[r] = 0 /\ optimizer_step[r] = 0

IInv ==
  /\ TypeOK
  /\ CreateHoldsLock
  /\ CallHoldsRunLock
  /\ IdsAreAllocated
  /\ WeightsMatchCounters
  /\ AtMostOneActiveRun
  /\ CheckedStatusStillHolds
  /\ OneGradientPerStep
  /\ SavedWeightsMatchLabel

-----------------------------------------------------------------------------
(* Type correctness.  The record-valued call and the Boolean process_group  *)
(* are dealt with first, each on its own, because no backend prover handles *)
(* both together with the arithmetic of the counters.                       *)

LEMMA CallValues ==
  /\ Idle \in Calls
  /\ InBackend("close") \in Calls
  /\ InBackend("create_training_run") \in Calls
  /\ InBackend("build_model") \in Calls
BY BoundsAssumption DEF Idle, InBackend, Calls, RunOps, Inputs

LEMMA ThreadsAreCallers == TypeOK => threads \subseteq Callers
BY CallersAssumption DEF TypeOK

LEMMA TypeInit == Init => TypeOK
<1> SUFFICES ASSUME Init PROVE TypeOK
  OBVIOUS
<1> USE CallersAssumption, BoundsAssumption DEF Init
<1>1. call \in [Callers -> Calls]
  BY CallValues
<1>2. process_group \in BOOLEAN
  OBVIOUS
<1>3. status \in [RunIds -> Status]
  BY DEF Status
<1>4. QED
  BY <1>1, <1>2, <1>3 DEF TypeOK

LEMMA CallTypeStep ==
  ASSUME call \in [Callers -> Calls], threads \subseteq Callers, [Next]_vars
  PROVE  call' \in [Callers -> Calls]
<1> USE CallValues
<1>1. ASSUME NEW c \in Callers, BackendCall(c)
      PROVE  call' \in [Callers -> Calls]
  BY <1>1 DEF BackendCall, BeginCreate, InitializeDistributed, CreateSucceeds, CreateFails, BeginClose
<1>2. ASSUME NEW c \in Callers, NEW r \in RunIds, RunCall(c, r)
      PROVE  call' \in [Callers -> Calls]
  <2>1. CASE \/ \E input \in Inputs : BeginForwardBackward(c, r, input)
             \/ BeginOptimStep(c, r)
             \/ BeginSaveWeights(c, r)
    BY <2>1, BoundsAssumption
       DEF BeginForwardBackward, BeginOptimStep, BeginSaveWeights, Enter, Calls,
           RunOps, Inputs, RunIds
  <2>2. CASE \/ ForwardBackwardSucceeds(c, r) \/ ForwardBackwardFails(c, r)
             \/ OptimStepSucceeds(c, r) \/ OptimStepFails(c, r)
             \/ SaveWeightsSucceeds(c, r) \/ SaveWeightsFails(c, r)
    BY <2>2 DEF ForwardBackwardSucceeds, ForwardBackwardFails, OptimStepSucceeds,
                OptimStepFails, SaveWeightsSucceeds, SaveWeightsFails, Leave
  <2>3. CASE \/ SkipClosed(c, r) \/ ShutdownSucceeds(c, r) \/ ShutdownFails(c, r)
    BY <2>3 DEF SkipClosed, ShutdownSucceeds, ShutdownFails, NextToClose
  <2>4. QED
    BY <1>2, <2>1, <2>2, <2>3 DEF RunCall
<1>3. CASE UNCHANGED vars
  BY <1>3 DEF vars
<1>4. QED
  BY <1>1, <1>2, <1>3 DEF Next

LEMMA GroupTypeStep ==
  ASSUME process_group \in BOOLEAN, threads \subseteq Callers, [Next]_vars
  PROVE  process_group' \in BOOLEAN
<1>1. ASSUME NEW c \in Callers, BackendCall(c)
      PROVE  process_group' \in BOOLEAN
  BY <1>1 DEF BackendCall, BeginCreate, InitializeDistributed, CreateSucceeds, CreateFails, BeginClose, runtime
<1>2. ASSUME NEW c \in Callers, NEW r \in RunIds, RunCall(c, r)
      PROVE  process_group' \in BOOLEAN
  <2>1. CASE \/ ForwardBackwardSucceeds(c, r) \/ ForwardBackwardFails(c, r)
             \/ OptimStepSucceeds(c, r) \/ OptimStepFails(c, r)
             \/ SaveWeightsSucceeds(c, r) \/ SaveWeightsFails(c, r)
    BY <2>1 DEF ForwardBackwardSucceeds, ForwardBackwardFails, OptimStepSucceeds,
                OptimStepFails, SaveWeightsSucceeds, SaveWeightsFails, runtime
  <2>2. CASE \/ \E input \in Inputs : BeginForwardBackward(c, r, input)
             \/ BeginOptimStep(c, r) \/ BeginSaveWeights(c, r)
    BY <2>2 DEF BeginForwardBackward, BeginOptimStep, BeginSaveWeights, runtime
  <2>3. CASE \/ SkipClosed(c, r) \/ ShutdownSucceeds(c, r) \/ ShutdownFails(c, r)
    BY <2>3 DEF SkipClosed, ShutdownSucceeds, ShutdownFails, runtime
  <2>4. QED
    BY <1>2, <2>1, <2>2, <2>3 DEF RunCall
<1>3. CASE UNCHANGED vars
  BY <1>3 DEF vars, runtime
<1>4. QED
  BY <1>1, <1>2, <1>3 DEF Next

LEMMA TypeStep == TypeOK /\ CreateHoldsLock /\ [Next]_vars => TypeOK'
<1> SUFFICES ASSUME TypeOK, CreateHoldsLock, [Next]_vars
             PROVE  TypeOK'
  OBVIOUS
<1>1. call' \in [Callers -> Calls]
  BY CallTypeStep, ThreadsAreCallers DEF TypeOK
<1>2. process_group' \in BOOLEAN
  BY GroupTypeStep, ThreadsAreCallers DEF TypeOK
<1> USE <1>1, <1>2 DEF TypeOK
<1>3. ASSUME NEW c \in Callers, BackendCall(c)
      PROVE  TypeOK'
  <2>1. CASE BeginCreate(c)
    BY <2>1 DEF BeginCreate, counters, runtime
  <2>2. CASE CreateSucceeds(c)
    <3>1. next_run' \in 1 .. MaxRuns + 1
      BY <2>2, BoundsAssumption DEF CreateSucceeds, CreateHoldsLock
    <3>2. QED
      BY <2>2, <3>1 DEF CreateSucceeds, counters, runtime, Status
  <2>3. CASE CreateFails(c)
    BY <2>3 DEF CreateFails, counters
  <2>4. CASE BeginClose(c)
    <3>1. 1 .. next_run - 1 \in SUBSET RunIds
      BY BoundsAssumption DEF RunIds
    <3>2. QED
      BY <2>4, <3>1 DEF BeginClose, counters, locks, runtime
  <2>5. CASE InitializeDistributed(c)
    BY <2>5 DEF InitializeDistributed, counters, locks
  <2>6. QED
    BY <1>3, <2>1, <2>2, <2>3, <2>4, <2>5 DEF BackendCall
<1>4. ASSUME NEW c \in Callers, NEW r \in RunIds, RunCall(c, r)
      PROVE  TypeOK'
  <2>1. ASSUME NEW input \in Inputs, BeginForwardBackward(c, r, input)
        PROVE  TypeOK'
    BY <2>1 DEF BeginForwardBackward, Enter, counters, runtime
  <2>2. CASE ForwardBackwardSucceeds(c, r)
    BY <2>2 DEF ForwardBackwardSucceeds, Leave, Status
  <2>3. CASE ForwardBackwardFails(c, r)
    BY <2>3 DEF ForwardBackwardFails, Leave, counters, Status
  <2>4. CASE BeginOptimStep(c, r)
    BY <2>4 DEF BeginOptimStep, Enter, counters, runtime
  <2>5. CASE OptimStepSucceeds(c, r)
    BY <2>5 DEF OptimStepSucceeds, Leave, Status
  <2>6. CASE OptimStepFails(c, r)
    BY <2>6 DEF OptimStepFails, Leave, counters, Status
  <2>7. CASE BeginSaveWeights(c, r)
    BY <2>7 DEF BeginSaveWeights, Enter, counters, runtime, Status
  <2>8. CASE SaveWeightsSucceeds(c, r)
    BY <2>8 DEF SaveWeightsSucceeds, Leave, counters, runtime, Status
  <2>9. CASE SaveWeightsFails(c, r)
    BY <2>9 DEF SaveWeightsFails, Leave, counters, runtime, Status
  <2>10. CASE SkipClosed(c, r)
    BY <2>10 DEF SkipClosed, NextToClose, counters, locks, runtime
  <2>11. CASE ShutdownSucceeds(c, r)
    BY <2>11 DEF ShutdownSucceeds, NextToClose, counters, locks, Status
  <2>12. CASE ShutdownFails(c, r)
    BY <2>12 DEF ShutdownFails, NextToClose, counters, locks, Status
  <2>13. QED
    BY <1>4, <2>1, <2>2, <2>3, <2>4, <2>5, <2>6, <2>7, <2>8, <2>9, <2>10, <2>11,
       <2>12 DEF RunCall
<1>5. CASE UNCHANGED vars
  BY <1>5 DEF vars, counters, locks, runtime
<1>6. threads \subseteq Callers
  BY ThreadsAreCallers
<1> HIDE DEF TypeOK
<1>7. QED
  BY <1>3, <1>4, <1>5, <1>6 DEF Next

-----------------------------------------------------------------------------
(* The inductive invariant.                                                 *)

LEMMA InvInit == Init => IInv
<1> SUFFICES ASSUME Init PROVE IInv
  OBVIOUS
<1>1. TypeOK
  BY TypeInit
<1>2. CreateHoldsLock /\ CallHoldsRunLock /\ CheckedStatusStillHolds
  BY DEF Init, CreateHoldsLock, CallHoldsRunLock, CheckedStatusStillHolds, Idle,
         InBackend, RunOps
<1>3. IdsAreAllocated /\ AtMostOneActiveRun
  BY DEF Init, IdsAreAllocated, AtMostOneActiveRun, Active, RunIds
<1>4. WeightsMatchCounters /\ OneGradientPerStep /\ SavedWeightsMatchLabel
  BY DEF Init, WeightsMatchCounters, OneGradientPerStep, SavedWeightsMatchLabel
<1>5. QED
  BY <1>1, <1>2, <1>3, <1>4 DEF IInv

LEMMA BeginForwardBackwardInv ==
  ASSUME IInv, TypeOK', NEW c \in Callers, NEW r \in RunIds,
         NEW input \in Inputs, BeginForwardBackward(c, r, input)
  PROVE  IInv'
<1> USE DEF IInv, TypeOK, BeginForwardBackward, Enter
<1>1. CreateHoldsLock' /\ IdsAreAllocated'
  BY DEF CreateHoldsLock, IdsAreAllocated, CheckedStatusStillHolds, Active, Idle,
         InBackend
<1>2. CallHoldsRunLock' /\ CheckedStatusStillHolds'
  BY CallersAssumption
     DEF CallHoldsRunLock, CheckedStatusStillHolds, RunOps, Idle, InBackend
<1>3. WeightsMatchCounters' /\ OneGradientPerStep'
  BY DEF WeightsMatchCounters, OneGradientPerStep, CheckedStatusStillHolds,
         counters, runtime
<1>4. AtMostOneActiveRun'
  BY DEF AtMostOneActiveRun, Active, CheckedStatusStillHolds
<1>5. SavedWeightsMatchLabel'
  BY DEF SavedWeightsMatchLabel
<1>6. QED
  BY <1>1, <1>2, <1>3, <1>4, <1>5

LEMMA BeginOptimStepInv ==
  ASSUME IInv, TypeOK', NEW c \in Callers, NEW r \in RunIds,
         BeginOptimStep(c, r)
  PROVE  IInv'
<1> USE DEF IInv, TypeOK, BeginOptimStep, Enter
<1>1. CreateHoldsLock' /\ IdsAreAllocated'
  BY DEF CreateHoldsLock, IdsAreAllocated, CheckedStatusStillHolds, Active, Idle,
         InBackend
<1>2. CallHoldsRunLock' /\ CheckedStatusStillHolds'
  BY CallersAssumption
     DEF CallHoldsRunLock, CheckedStatusStillHolds, RunOps, Idle, InBackend
<1>3. WeightsMatchCounters' /\ OneGradientPerStep'
  BY DEF WeightsMatchCounters, OneGradientPerStep, CheckedStatusStillHolds,
         counters, runtime
<1>4. AtMostOneActiveRun'
  BY DEF AtMostOneActiveRun, Active, CheckedStatusStillHolds
<1>5. SavedWeightsMatchLabel'
  BY DEF SavedWeightsMatchLabel
<1>6. QED
  BY <1>1, <1>2, <1>3, <1>4, <1>5

LEMMA BeginSaveWeightsInv ==
  ASSUME IInv, TypeOK', NEW c \in Callers, NEW r \in RunIds,
         BeginSaveWeights(c, r)
  PROVE  IInv'
<1> USE DEF IInv, TypeOK, BeginSaveWeights, Enter
<1>1. CreateHoldsLock' /\ IdsAreAllocated'
  BY DEF CreateHoldsLock, IdsAreAllocated, CheckedStatusStillHolds, Active, Idle,
         InBackend
<1>2. CallHoldsRunLock' /\ CheckedStatusStillHolds'
  BY CallersAssumption
     DEF CallHoldsRunLock, CheckedStatusStillHolds, RunOps, Idle, InBackend
<1>3. WeightsMatchCounters' /\ OneGradientPerStep'
  BY DEF WeightsMatchCounters, OneGradientPerStep, CheckedStatusStillHolds,
         counters, runtime
<1>4. AtMostOneActiveRun'
  BY DEF AtMostOneActiveRun, Active, CheckedStatusStillHolds
<1>5. SavedWeightsMatchLabel'
  BY DEF SavedWeightsMatchLabel
<1>6. QED
  BY <1>1, <1>2, <1>3, <1>4, <1>5

LEMMA ForwardBackwardSucceedsInv ==
  ASSUME IInv, TypeOK', NEW c \in Callers, NEW r \in RunIds,
         ForwardBackwardSucceeds(c, r)
  PROVE  IInv'
<1> USE DEF IInv, TypeOK, ForwardBackwardSucceeds, Leave
<1>1. CreateHoldsLock' /\ IdsAreAllocated'
  BY DEF CreateHoldsLock, IdsAreAllocated, CheckedStatusStillHolds, Active, Idle,
         InBackend
<1>2. CallHoldsRunLock' /\ CheckedStatusStillHolds'
  BY CallersAssumption
     DEF CallHoldsRunLock, CheckedStatusStillHolds, RunOps, Idle, InBackend
<1>3. WeightsMatchCounters' /\ OneGradientPerStep'
  BY DEF WeightsMatchCounters, OneGradientPerStep, CheckedStatusStillHolds,
         counters, runtime
<1>4. AtMostOneActiveRun'
  BY DEF AtMostOneActiveRun, Active, CheckedStatusStillHolds
<1>5. SavedWeightsMatchLabel'
  BY DEF SavedWeightsMatchLabel
<1>6. QED
  BY <1>1, <1>2, <1>3, <1>4, <1>5

LEMMA ForwardBackwardFailsInv ==
  ASSUME IInv, TypeOK', NEW c \in Callers, NEW r \in RunIds,
         ForwardBackwardFails(c, r)
  PROVE  IInv'
<1> USE DEF IInv, TypeOK, ForwardBackwardFails, Leave
<1>1. CreateHoldsLock' /\ IdsAreAllocated'
  BY DEF CreateHoldsLock, IdsAreAllocated, CheckedStatusStillHolds, Active, Idle,
         InBackend
<1>2. CallHoldsRunLock' /\ CheckedStatusStillHolds'
  BY CallersAssumption
     DEF CallHoldsRunLock, CheckedStatusStillHolds, RunOps, Idle, InBackend
<1>3. WeightsMatchCounters' /\ OneGradientPerStep'
  BY DEF WeightsMatchCounters, OneGradientPerStep, CheckedStatusStillHolds,
         counters, runtime
<1>4. AtMostOneActiveRun'
  BY DEF AtMostOneActiveRun, Active, CheckedStatusStillHolds
<1>5. SavedWeightsMatchLabel'
  BY DEF SavedWeightsMatchLabel
<1>6. QED
  BY <1>1, <1>2, <1>3, <1>4, <1>5

LEMMA OptimStepSucceedsInv ==
  ASSUME IInv, TypeOK', NEW c \in Callers, NEW r \in RunIds,
         OptimStepSucceeds(c, r)
  PROVE  IInv'
<1> USE DEF IInv, TypeOK, OptimStepSucceeds, Leave
<1>1. CreateHoldsLock' /\ IdsAreAllocated'
  BY DEF CreateHoldsLock, IdsAreAllocated, CheckedStatusStillHolds, Active, Idle,
         InBackend
<1>2. CallHoldsRunLock' /\ CheckedStatusStillHolds'
  BY CallersAssumption
     DEF CallHoldsRunLock, CheckedStatusStillHolds, RunOps, Idle, InBackend
<1>3. WeightsMatchCounters' /\ OneGradientPerStep'
  BY DEF WeightsMatchCounters, OneGradientPerStep, CheckedStatusStillHolds,
         counters, runtime
<1>4. AtMostOneActiveRun'
  BY DEF AtMostOneActiveRun, Active, CheckedStatusStillHolds
<1>5. SavedWeightsMatchLabel'
  BY DEF SavedWeightsMatchLabel
<1>6. QED
  BY <1>1, <1>2, <1>3, <1>4, <1>5

LEMMA OptimStepFailsInv ==
  ASSUME IInv, TypeOK', NEW c \in Callers, NEW r \in RunIds,
         OptimStepFails(c, r)
  PROVE  IInv'
<1> USE DEF IInv, TypeOK, OptimStepFails, Leave
<1>1. CreateHoldsLock' /\ IdsAreAllocated'
  BY DEF CreateHoldsLock, IdsAreAllocated, CheckedStatusStillHolds, Active, Idle,
         InBackend
<1>2. CallHoldsRunLock' /\ CheckedStatusStillHolds'
  BY CallersAssumption
     DEF CallHoldsRunLock, CheckedStatusStillHolds, RunOps, Idle, InBackend
<1>3. WeightsMatchCounters' /\ OneGradientPerStep'
  BY DEF WeightsMatchCounters, OneGradientPerStep, CheckedStatusStillHolds,
         counters, runtime
<1>4. AtMostOneActiveRun'
  BY DEF AtMostOneActiveRun, Active, CheckedStatusStillHolds
<1>5. SavedWeightsMatchLabel'
  BY DEF SavedWeightsMatchLabel
<1>6. QED
  BY <1>1, <1>2, <1>3, <1>4, <1>5

LEMMA SaveWeightsSucceedsInv ==
  ASSUME IInv, TypeOK', NEW c \in Callers, NEW r \in RunIds,
         SaveWeightsSucceeds(c, r)
  PROVE  IInv'
<1> USE DEF IInv, TypeOK, SaveWeightsSucceeds, Leave
<1>0. model_steps[r] = checkpoint_version[r]
  BY DEF WeightsMatchCounters, OneGradientPerStep, CheckedStatusStillHolds
<1>1. CreateHoldsLock' /\ IdsAreAllocated'
  BY DEF CreateHoldsLock, IdsAreAllocated, CheckedStatusStillHolds, Active, Idle,
         InBackend
<1>2. CallHoldsRunLock' /\ CheckedStatusStillHolds'
  BY CallersAssumption
     DEF CallHoldsRunLock, CheckedStatusStillHolds, RunOps, Idle, InBackend
<1>3. WeightsMatchCounters' /\ OneGradientPerStep'
  BY DEF WeightsMatchCounters, OneGradientPerStep, CheckedStatusStillHolds,
         counters, runtime
<1>4. AtMostOneActiveRun'
  BY DEF AtMostOneActiveRun, Active, CheckedStatusStillHolds
<1>5. SavedWeightsMatchLabel'
  BY <1>0 DEF SavedWeightsMatchLabel
<1>6. QED
  BY <1>1, <1>2, <1>3, <1>4, <1>5

LEMMA SaveWeightsFailsInv ==
  ASSUME IInv, TypeOK', NEW c \in Callers, NEW r \in RunIds,
         SaveWeightsFails(c, r)
  PROVE  IInv'
<1> USE DEF IInv, TypeOK, SaveWeightsFails, Leave
<1>1. CreateHoldsLock' /\ IdsAreAllocated'
  BY DEF CreateHoldsLock, IdsAreAllocated, CheckedStatusStillHolds, Active, Idle,
         InBackend
<1>2. CallHoldsRunLock' /\ CheckedStatusStillHolds'
  BY CallersAssumption
     DEF CallHoldsRunLock, CheckedStatusStillHolds, RunOps, Idle, InBackend
<1>3. WeightsMatchCounters' /\ OneGradientPerStep'
  BY DEF WeightsMatchCounters, OneGradientPerStep, CheckedStatusStillHolds,
         counters, runtime
<1>4. AtMostOneActiveRun'
  BY DEF AtMostOneActiveRun, Active, CheckedStatusStillHolds
<1>5. SavedWeightsMatchLabel'
  BY DEF SavedWeightsMatchLabel
<1>6. QED
  BY <1>1, <1>2, <1>3, <1>4, <1>5

LEMMA BeginCreateInv ==
  ASSUME IInv, TypeOK', NEW c \in Callers, BeginCreate(c)
  PROVE  IInv'
<1> USE DEF IInv, TypeOK, BeginCreate
<1>1. CreateHoldsLock'
  BY CallersAssumption DEF CreateHoldsLock, Active, Idle, InBackend
<1>2. IdsAreAllocated'
  BY BoundsAssumption DEF IdsAreAllocated, RunIds
<1>3. CallHoldsRunLock' /\ CheckedStatusStillHolds'
  BY DEF CallHoldsRunLock, CheckedStatusStillHolds, RunOps, Idle, InBackend, locks
<1>4. WeightsMatchCounters' /\ OneGradientPerStep'
  BY DEF WeightsMatchCounters, OneGradientPerStep, counters, runtime
<1>5. AtMostOneActiveRun' /\ SavedWeightsMatchLabel'
  BY DEF AtMostOneActiveRun, Active, SavedWeightsMatchLabel
<1>6. QED
  BY <1>1, <1>2, <1>3, <1>4, <1>5

LEMMA CreateFailsInv ==
  ASSUME IInv, TypeOK', NEW c \in Callers, CreateFails(c)
  PROVE  IInv'
<1> USE DEF IInv, TypeOK, CreateFails
<1>1. CreateHoldsLock'
  BY CallersAssumption DEF CreateHoldsLock, Active, Idle, InBackend
<1>2. IdsAreAllocated'
  BY BoundsAssumption DEF IdsAreAllocated, RunIds
<1>3. CallHoldsRunLock' /\ CheckedStatusStillHolds'
  BY DEF CallHoldsRunLock, CheckedStatusStillHolds, RunOps, Idle, InBackend, locks
<1>4. WeightsMatchCounters' /\ OneGradientPerStep'
  BY DEF WeightsMatchCounters, OneGradientPerStep, counters, runtime
<1>5. AtMostOneActiveRun' /\ SavedWeightsMatchLabel'
  BY DEF AtMostOneActiveRun, Active, SavedWeightsMatchLabel
<1>6. QED
  BY <1>1, <1>2, <1>3, <1>4, <1>5

LEMMA BeginCloseInv ==
  ASSUME IInv, TypeOK', NEW c \in Callers, BeginClose(c)
  PROVE  IInv'
<1> USE DEF IInv, TypeOK, BeginClose
<1>1. CreateHoldsLock'
  BY CallersAssumption DEF CreateHoldsLock, Active, Idle, InBackend
<1>2. IdsAreAllocated'
  <2>1. \A r \in RunIds : r < next_run' <=> status'[r] # "absent"
    BY DEF IdsAreAllocated
  <2>2. ASSUME NEW d \in Callers, NEW r \in to_close'[d] PROVE r < next_run'
    <3>1. to_close'[d] = IF d = c THEN 1 .. next_run - 1 ELSE to_close[d]
      OBVIOUS
    <3>2. next_run \in Nat /\ next_run' = next_run
      BY BoundsAssumption
    <3>3. CASE d = c
      BY <2>2, <3>1, <3>2, <3>3
    <3>4. CASE d # c
      <4>1. r \in to_close[d] /\ IdsAreAllocated
        BY <2>2, <3>1, <3>4
      <4>2. QED
        BY <4>1, <3>2 DEF IdsAreAllocated
    <3>5. QED
      BY <3>3, <3>4
  <2>3. QED
    BY <2>1, <2>2 DEF IdsAreAllocated
<1>3. CallHoldsRunLock' /\ CheckedStatusStillHolds'
  BY DEF CallHoldsRunLock, CheckedStatusStillHolds, RunOps, Idle, InBackend, locks
<1>4. WeightsMatchCounters' /\ OneGradientPerStep'
  BY DEF WeightsMatchCounters, OneGradientPerStep, counters, runtime
<1>5. AtMostOneActiveRun' /\ SavedWeightsMatchLabel'
  BY DEF AtMostOneActiveRun, Active, SavedWeightsMatchLabel
<1>6. QED
  BY <1>1, <1>2, <1>3, <1>4, <1>5

LEMMA InitializeDistributedInv ==
  ASSUME IInv, TypeOK', NEW c \in Callers, InitializeDistributed(c)
  PROVE  IInv'
<1> USE DEF IInv, TypeOK, InitializeDistributed
<1>1. CreateHoldsLock' /\ IdsAreAllocated'
  BY DEF CreateHoldsLock, IdsAreAllocated, InBackend, Active, locks
<1>2. CallHoldsRunLock' /\ CheckedStatusStillHolds'
  BY DEF CallHoldsRunLock, CheckedStatusStillHolds, RunOps, InBackend, locks
<1>3. WeightsMatchCounters' /\ OneGradientPerStep'
  BY DEF WeightsMatchCounters, OneGradientPerStep, counters
<1>4. AtMostOneActiveRun' /\ SavedWeightsMatchLabel'
  BY DEF AtMostOneActiveRun, Active, SavedWeightsMatchLabel
<1>5. QED
  BY <1>1, <1>2, <1>3, <1>4

LEMMA CreateSucceedsInv ==
  ASSUME IInv, TypeOK', NEW c \in Callers, CreateSucceeds(c)
  PROVE  IInv'
<1> USE DEF IInv, TypeOK, CreateSucceeds
<1>1. /\ backend_lock = c
      /\ next_run \in RunIds
      /\ status[next_run] = "absent"
      /\ \A r \in RunIds : ~Active(r)
  BY BoundsAssumption DEF CreateHoldsLock, IdsAreAllocated, RunIds
<1>2. CreateHoldsLock'
  BY <1>1, CallersAssumption DEF CreateHoldsLock, Idle, InBackend
<1>3. IdsAreAllocated'
  <2>1. /\ next_run \in Nat /\ next_run' = next_run + 1
        /\ to_close' = to_close
        /\ status' = [status EXCEPT ![next_run] = "ready"]
    BY <1>1 DEF RunIds
  <2>2. RunIds \subseteq Nat
    BY DEF RunIds
  <2>3. \A r \in RunIds : r < next_run' <=> status'[r] # "absent"
    BY <1>1, <2>1, <2>2 DEF IdsAreAllocated
  <2>4. \A d \in Callers : \A r \in to_close'[d] : r < next_run'
    BY <2>1, <2>2 DEF IdsAreAllocated
  <2>5. QED
    BY <2>3, <2>4 DEF IdsAreAllocated
<1>4. CallHoldsRunLock' /\ CheckedStatusStillHolds'
  BY <1>1 DEF CallHoldsRunLock, CheckedStatusStillHolds, RunOps, Idle, InBackend,
              Active
<1>5. WeightsMatchCounters' /\ OneGradientPerStep'
  BY <1>1 DEF WeightsMatchCounters, OneGradientPerStep, counters, runtime
<1>6. AtMostOneActiveRun' /\ SavedWeightsMatchLabel'
  BY <1>1 DEF AtMostOneActiveRun, Active, SavedWeightsMatchLabel
<1>7. QED
  BY <1>2, <1>3, <1>4, <1>5, <1>6

LEMMA SkipClosedInv ==
  ASSUME IInv, TypeOK', NEW c \in Callers, NEW r \in RunIds, SkipClosed(c, r)
  PROVE  IInv'
<1> USE DEF IInv, TypeOK, SkipClosed, NextToClose
<1>1. CreateHoldsLock' /\ IdsAreAllocated'
  BY DEF CreateHoldsLock, IdsAreAllocated, Active, Idle, InBackend, locks
<1>2. CallHoldsRunLock' /\ CheckedStatusStillHolds'
  BY CallersAssumption
     DEF CallHoldsRunLock, CheckedStatusStillHolds, RunOps, Idle, InBackend, locks
<1>3. WeightsMatchCounters' /\ OneGradientPerStep'
  BY DEF WeightsMatchCounters, OneGradientPerStep, counters, runtime
<1>4. AtMostOneActiveRun' /\ SavedWeightsMatchLabel'
  BY DEF AtMostOneActiveRun, Active, SavedWeightsMatchLabel
<1>5. QED
  BY <1>1, <1>2, <1>3, <1>4

LEMMA ShutdownSucceedsInv ==
  ASSUME IInv, TypeOK', NEW c \in Callers, NEW r \in RunIds, ShutdownSucceeds(c, r)
  PROVE  IInv'
<1> USE DEF IInv, TypeOK, ShutdownSucceeds, NextToClose
<1>1. CreateHoldsLock' /\ IdsAreAllocated'
  BY DEF CreateHoldsLock, IdsAreAllocated, Active, Idle, InBackend, locks
<1>2. CallHoldsRunLock' /\ CheckedStatusStillHolds'
  BY CallersAssumption
     DEF CallHoldsRunLock, CheckedStatusStillHolds, RunOps, Idle, InBackend, locks
<1>3. WeightsMatchCounters' /\ OneGradientPerStep'
  BY DEF WeightsMatchCounters, OneGradientPerStep, counters, runtime
<1>4. AtMostOneActiveRun' /\ SavedWeightsMatchLabel'
  BY DEF AtMostOneActiveRun, Active, SavedWeightsMatchLabel
<1>5. QED
  BY <1>1, <1>2, <1>3, <1>4

LEMMA ShutdownFailsInv ==
  ASSUME IInv, TypeOK', NEW c \in Callers, NEW r \in RunIds, ShutdownFails(c, r)
  PROVE  IInv'
<1> USE DEF IInv, TypeOK, ShutdownFails, NextToClose
<1>1. CreateHoldsLock' /\ IdsAreAllocated'
  BY DEF CreateHoldsLock, IdsAreAllocated, Active, Idle, InBackend, locks
<1>2. CallHoldsRunLock' /\ CheckedStatusStillHolds'
  BY CallersAssumption
     DEF CallHoldsRunLock, CheckedStatusStillHolds, RunOps, Idle, InBackend, locks
<1>3. WeightsMatchCounters' /\ OneGradientPerStep'
  BY DEF WeightsMatchCounters, OneGradientPerStep, counters, runtime
<1>4. AtMostOneActiveRun' /\ SavedWeightsMatchLabel'
  BY DEF AtMostOneActiveRun, Active, SavedWeightsMatchLabel
<1>5. QED
  BY <1>1, <1>2, <1>3, <1>4

LEMMA InvStep == IInv /\ [Next]_vars => IInv'
<1> SUFFICES ASSUME IInv, [Next]_vars
             PROVE  IInv'
  OBVIOUS
<1>1. TypeOK'
  BY TypeStep DEF IInv
<1>2. ASSUME NEW c \in Callers, BackendCall(c)
      PROVE  IInv'
  BY <1>1, <1>2, BeginCreateInv, InitializeDistributedInv, CreateSucceedsInv, CreateFailsInv, BeginCloseInv
     DEF BackendCall
<1>3. ASSUME NEW c \in Callers, NEW r \in RunIds, RunCall(c, r)
      PROVE  IInv'
  BY <1>1, <1>3, BeginForwardBackwardInv, ForwardBackwardSucceedsInv,
     ForwardBackwardFailsInv, BeginOptimStepInv, OptimStepSucceedsInv,
     OptimStepFailsInv, BeginSaveWeightsInv, SaveWeightsSucceedsInv,
     SaveWeightsFailsInv, SkipClosedInv, ShutdownSucceedsInv, ShutdownFailsInv
     DEF RunCall
<1>4. CASE UNCHANGED vars
  BY <1>4 DEF vars, counters, locks, runtime, IInv, TypeOK, CreateHoldsLock,
              CallHoldsRunLock, IdsAreAllocated, WeightsMatchCounters,
              AtMostOneActiveRun, Active, CheckedStatusStillHolds,
              OneGradientPerStep, SavedWeightsMatchLabel
<1>5. QED
  BY <1>2, <1>3, <1>4, ThreadsAreCallers DEF Next, IInv

LEMMA Invariance == Spec => []IInv
BY InvInit, InvStep, PTL DEF Spec

-----------------------------------------------------------------------------
(* What the invariant gives.                                                *)

\* Every variable keeps its type through every operation of the backend.
THEOREM TypeCorrect == Spec => []TypeOK
BY Invariance, PTL DEF IInv

\* _ensure_no_active_run keeps its promise although create_training_run reads the
\* other runs' statuses without their locks.
THEOREM OneActiveRun == Spec => []AtMostOneActiveRun
BY Invariance, PTL DEF IInv

\* No call, and no close, changes a run between another call's status check and
\* the answer of its runtime.
THEOREM StatusChecksHold == Spec => []CheckedStatusStillHolds
BY Invariance, PTL DEF IInv

\* Each optimizer step of an open run consumed exactly one forward_backward.
THEOREM OneGradientEachStep == Spec => []OneGradientPerStep
BY Invariance, PTL DEF IInv

\* An artifact's checkpoint_version is the number of complete optimizer steps its
\* weights contain, whatever failed in between.
THEOREM ArtifactsAreLabelledRight == Spec => []SavedWeightsMatchLabel
BY Invariance, PTL DEF IInv

\* A failed or closed run never trains again.
THEOREM FailedAndClosedAreFinal == Spec => FinalStatusesAreFinal
<1> DEFINE Final == \A r \in RunIds : status[r] \in {"failed", "closed"} =>
                      /\ status'[r] \in {"failed", "closed"}
                      /\ optimizer_step'[r] = optimizer_step[r]
                      /\ model_steps'[r] = model_steps[r]
<1>1. ASSUME IInv, [Next]_vars
      PROVE  Final
  <2> USE <1>1 DEF IInv, TypeOK, counters, locks, runtime
  <2>1. ASSUME NEW c \in Callers, BackendCall(c)
        PROVE  Final
    <3>1. CASE CreateSucceeds(c)
      <4>1. next_run \in RunIds /\ status[next_run] = "absent"
        BY <3>1, BoundsAssumption
           DEF CreateSucceeds, CreateHoldsLock, IdsAreAllocated, RunIds
      <4>2. QED
        BY <3>1, <4>1 DEF CreateSucceeds
    <3>2. CASE \/ BeginCreate(c) \/ InitializeDistributed(c) \/ CreateFails(c)
               \/ BeginClose(c)
      BY <3>2 DEF BeginCreate, InitializeDistributed, CreateFails, BeginClose
    <3>3. QED
      BY <2>1, <3>1, <3>2 DEF BackendCall
  <2>2. ASSUME NEW c \in Callers, NEW r \in RunIds, RunCall(c, r)
        PROVE  Final
    <3>1. CASE \/ \E input \in Inputs : BeginForwardBackward(c, r, input)
               \/ BeginOptimStep(c, r)
               \/ BeginSaveWeights(c, r)
      BY <3>1 DEF BeginForwardBackward, BeginOptimStep, BeginSaveWeights, Enter
    <3>2. CASE ForwardBackwardSucceeds(c, r) \/ ForwardBackwardFails(c, r)
      BY <3>2 DEF ForwardBackwardSucceeds, ForwardBackwardFails, Leave,
                  CheckedStatusStillHolds
    <3>3. CASE OptimStepSucceeds(c, r) \/ OptimStepFails(c, r)
      BY <3>3 DEF OptimStepSucceeds, OptimStepFails, Leave,
                  CheckedStatusStillHolds
    <3>4. CASE SaveWeightsSucceeds(c, r) \/ SaveWeightsFails(c, r)
      BY <3>4 DEF SaveWeightsSucceeds, SaveWeightsFails, Leave,
                  CheckedStatusStillHolds
    <3>5. CASE SkipClosed(c, r) \/ ShutdownSucceeds(c, r) \/ ShutdownFails(c, r)
      BY <3>5 DEF SkipClosed, ShutdownSucceeds, ShutdownFails, NextToClose
    <3>6. QED
      BY <2>2, <3>1, <3>2, <3>3, <3>4, <3>5 DEF RunCall
  <2>3. CASE UNCHANGED vars
    BY <2>3 DEF vars
  <2>4. QED
    BY <1>1, <2>1, <2>2, <2>3, ThreadsAreCallers DEF Next
<1>2. QED
  BY <1>1, Invariance, PTL DEF Spec, FinalStatusesAreFinal

-----------------------------------------------------------------------------
(* The process group, with the one thread of an actor: it is up from the        *)
(* moment a run's model is being built, and when a close has taken it down, the *)
(* runs that are still active are ahead of it.                                  *)

GroupInv ==
  \A c \in Callers : threads = {c} =>
    /\ call[c].op = "build_model" => process_group = TRUE
    /\ call[c].op # "close" => (\A r \in RunIds : Active(r) => process_group = TRUE)
    /\ call[c].op = "close" => \A r \in RunIds : Active(r) => r \in to_close[c]

LEMMA GroupInit == Init => GroupInv
BY DEF Init, GroupInv, Active, Idle, InBackend

\* Only the thread of the deployment takes steps.
LEMMA GroupStep ==
  ASSUME IInv, GroupInv, [Next]_vars
  PROVE  GroupInv'
<1> SUFFICES ASSUME NEW c \in Callers, threads' = {c}
             PROVE  /\ call'[c].op = "build_model" => process_group' = TRUE
                    /\ call'[c].op # "close" =>
                         \A r \in RunIds : Active(r)' => process_group' = TRUE
                    /\ call'[c].op = "close" =>
                         \A r \in RunIds : Active(r)' => r \in to_close'[c]
  BY DEF GroupInv
<1> USE DEF IInv, TypeOK, Active, GroupInv
<1>1. CASE threads = {c} /\ BackendCall(c)
  <2>1. CASE BeginCreate(c)
    BY <1>1, <2>1 DEF BeginCreate, InBackend, runtime
  <2>2. CASE InitializeDistributed(c)
    BY <1>1, <2>2 DEF InitializeDistributed, InBackend
  <2>3. CASE CreateSucceeds(c)
    BY <1>1, <2>3 DEF CreateSucceeds, Idle, InBackend, runtime
  <2>4. CASE CreateFails(c)
    BY <1>1, <2>4 DEF CreateFails, CreateHoldsLock, Idle, InBackend
  <2>5. CASE BeginClose(c)
    <3>1. /\ call'[c].op = "close"
          /\ to_close'[c] = 1 .. next_run - 1
          /\ status' = status
      BY <2>5 DEF BeginClose, InBackend
    <3>2. \A r \in RunIds : Active(r) => r < next_run
      BY DEF IdsAreAllocated
    <3>3. \A r \in RunIds : r < next_run => r \in 1 .. next_run - 1
      BY BoundsAssumption DEF RunIds
    <3>4. QED
      BY <3>1, <3>2, <3>3
  <2>6. QED
    BY <1>1, <2>1, <2>2, <2>3, <2>4, <2>5 DEF BackendCall
<1>2. ASSUME threads = {c}, NEW r \in RunIds, RunCall(c, r)
      PROVE  /\ call'[c].op = "build_model" => process_group' = TRUE
             /\ call'[c].op # "close" =>
                  \A s \in RunIds : Active(s)' => process_group' = TRUE
             /\ call'[c].op = "close" =>
                  \A s \in RunIds : Active(s)' => s \in to_close'[c]
  <2>1. CASE \/ \E input \in Inputs : BeginForwardBackward(c, r, input)
             \/ BeginOptimStep(c, r) \/ BeginSaveWeights(c, r)
    BY <1>2, <2>1 DEF BeginForwardBackward, BeginOptimStep, BeginSaveWeights, Enter,
                      Idle, InBackend, runtime
  <2>2. CASE \/ ForwardBackwardSucceeds(c, r) \/ ForwardBackwardFails(c, r)
             \/ OptimStepSucceeds(c, r) \/ OptimStepFails(c, r)
             \/ SaveWeightsSucceeds(c, r) \/ SaveWeightsFails(c, r)
    <3>1. call[c].op \in RunOps /\ call[c].run = r /\ call'[c].op = "idle"
      BY <2>2 DEF ForwardBackwardSucceeds, ForwardBackwardFails, OptimStepSucceeds,
                  OptimStepFails, SaveWeightsSucceeds, SaveWeightsFails, Leave,
                  RunOps, Idle, InBackend
    <3>2. Active(r) /\ process_group' = process_group
      BY <2>2, <3>1
         DEF ForwardBackwardSucceeds, ForwardBackwardFails, OptimStepSucceeds,
             OptimStepFails, SaveWeightsSucceeds, SaveWeightsFails, runtime, Leave,
             CheckedStatusStillHolds
    <3>3. process_group = TRUE
      BY <1>2, <3>1, <3>2 DEF RunOps
    <3>4. QED
      BY <3>1, <3>2, <3>3
  <2>3. CASE SkipClosed(c, r) \/ ShutdownSucceeds(c, r) \/ ShutdownFails(c, r)
    <3>0. NextToClose(c, r)
      BY <2>3 DEF SkipClosed, ShutdownSucceeds, ShutdownFails
    <3>1. /\ call[c].op = "close"
          /\ to_close'[c] = to_close[c] \ {r}
          /\ call'[c] = IF to_close[c] = {r} THEN Idle ELSE call[c]
      BY <3>0 DEF NextToClose
    <3>2. \A s \in RunIds : Active(s)' => Active(s) /\ s # r
      BY <2>3 DEF SkipClosed, ShutdownSucceeds, ShutdownFails
    <3>3. \A s \in RunIds : Active(s)' => s \in to_close'[c]
      BY <1>2, <3>1, <3>2
    <3>4. CASE to_close[c] = {r}
      BY <3>1, <3>3, <3>4 DEF Idle, InBackend
    <3>5. CASE to_close[c] # {r}
      BY <3>1, <3>3, <3>5
    <3>6. QED
      BY <3>4, <3>5
  <2>4. QED
    BY <1>2, <2>1, <2>2, <2>3 DEF RunCall
<1>3. CASE UNCHANGED vars
  BY <1>3 DEF vars, counters, locks, runtime
<1>4. Next => threads' = threads
  BY DEF Next, BackendCall, RunCall, BeginCreate, InitializeDistributed,
         CreateSucceeds, CreateFails, BeginClose, BeginForwardBackward,
         ForwardBackwardSucceeds, ForwardBackwardFails, BeginOptimStep,
         OptimStepSucceeds, OptimStepFails, BeginSaveWeights, SaveWeightsSucceeds,
         SaveWeightsFails, SkipClosed, ShutdownSucceeds, ShutdownFails
<1>5. QED
  BY <1>1, <1>2, <1>3, <1>4 DEF Next

\* In an actor, which has one thread, a run that can still train has its process
\* group, although every run brings up and every shutdown takes down the same one.
THEOREM ActorKeepsItsProcessGroup == Spec => []ActiveRunHasProcessGroup
<1>1. IInv /\ GroupInv /\ [Next]_vars => GroupInv'
  BY GroupStep
<1>2. GroupInv => ActiveRunHasProcessGroup
  BY DEF GroupInv, ActiveRunHasProcessGroup
<1>3. QED
  BY <1>1, <1>2, GroupInit, Invariance, PTL DEF Spec

-----------------------------------------------------------------------------
(* Refinement.                                                              *)

LEMMA RefinementInit == Init => Lifecycle!Init
BY DEF Init, Lifecycle!Init, phaseBar, publishedBar, Phase

LEMMA RefinementStep ==
  ASSUME IInv, IInv', [Next]_vars
  PROVE  [Lifecycle!Next]_(Lifecycle!lifecycleVars)
<1> DEFINE Stutter == UNCHANGED <<phaseBar, optimizer_step, publishedBar>>
<1> USE DEF IInv, TypeOK, phaseBar, Phase
<1>1. ASSUME NEW c \in Callers, CreateSucceeds(c)
      PROVE  \E r \in RunIds : Lifecycle!CreateRun(r)
  <2>1. PICK r \in RunIds : r = next_run /\ status[r] = "absent"
    BY <1>1, BoundsAssumption
       DEF CreateSucceeds, CreateHoldsLock, IdsAreAllocated, RunIds
  <2>2. \A s \in RunIds : ~Lifecycle!Open(s)
    BY <1>1 DEF CreateSucceeds, CreateHoldsLock, Active, Lifecycle!Open
  <2>3. phaseBar' = [phaseBar EXCEPT ![r] = "ready"]
    BY <1>1, <2>1 DEF CreateSucceeds
  <2>4. UNCHANGED <<optimizer_step, publishedBar>>
    BY <1>1 DEF CreateSucceeds, counters, publishedBar
  <2>5. Lifecycle!CreateRun(r)
    BY <2>1, <2>2, <2>3, <2>4 DEF Lifecycle!CreateRun
  <2>6. QED
    BY <2>5
<1>2. ASSUME NEW c \in Callers,
             \/ BeginCreate(c) \/ InitializeDistributed(c) \/ CreateFails(c)
             \/ BeginClose(c)
      PROVE  Stutter
  BY <1>2 DEF BeginCreate, InitializeDistributed, CreateFails, BeginClose, counters,
              publishedBar
<1>3. ASSUME NEW c \in Callers, NEW r \in RunIds,
             \/ \E input \in Inputs : BeginForwardBackward(c, r, input)
             \/ BeginOptimStep(c, r)
             \/ BeginSaveWeights(c, r)
             \/ SaveWeightsFails(c, r)
             \/ SkipClosed(c, r)
      PROVE  Stutter
  <2>1. UNCHANGED <<optimizer_step, publishedBar>>
    BY <1>3 DEF BeginForwardBackward, BeginOptimStep, BeginSaveWeights,
                SaveWeightsFails, SkipClosed, counters, publishedBar
  <2>2. UNCHANGED phaseBar
    BY <1>3 DEF BeginForwardBackward, BeginOptimStep, BeginSaveWeights,
                SaveWeightsFails, SkipClosed, Enter, Leave,
                CheckedStatusStillHolds
  <2>3. QED
    BY <2>1, <2>2
<1>4. ASSUME NEW c \in Callers, NEW r \in RunIds, ForwardBackwardSucceeds(c, r)
      PROVE  Lifecycle!ComputeGradient(r)
  BY <1>4 DEF ForwardBackwardSucceeds, Leave, CheckedStatusStillHolds,
              publishedBar, Lifecycle!ComputeGradient
<1>5. ASSUME NEW c \in Callers, NEW r \in RunIds, OptimStepSucceeds(c, r)
      PROVE  Lifecycle!ApplyGradient(r)
  BY <1>5 DEF OptimStepSucceeds, Leave, CheckedStatusStillHolds,
              publishedBar, Lifecycle!ApplyGradient
<1>6. ASSUME NEW c \in Callers, NEW r \in RunIds,
             ForwardBackwardFails(c, r) \/ OptimStepFails(c, r)
      PROVE  Lifecycle!Fail(r)
  <2>1. UNCHANGED <<optimizer_step, publishedBar>>
    BY <1>6 DEF ForwardBackwardFails, OptimStepFails, counters, publishedBar
  <2>2. status[r] \in {"ready", "gradients_pending"}
    BY <1>6 DEF ForwardBackwardFails, OptimStepFails, Leave,
                CheckedStatusStillHolds
  <2>3. status' = [status EXCEPT ![r] = "failed"]
    BY <1>6 DEF ForwardBackwardFails, OptimStepFails, Leave
  <2>4. QED
    BY <2>1, <2>2, <2>3 DEF Lifecycle!Fail, Lifecycle!Open
<1>7. ASSUME NEW c \in Callers, NEW r \in RunIds, SaveWeightsSucceeds(c, r)
      PROVE  Lifecycle!Publish(r)
  <2>1. /\ phaseBar[r] = "ready"
        /\ UNCHANGED <<phaseBar, optimizer_step>>
    BY <1>7 DEF SaveWeightsSucceeds, Leave, counters, CheckedStatusStillHolds
  <2>2. model_steps[r] = optimizer_step[r]
    BY <1>7 DEF SaveWeightsSucceeds, Leave, CheckedStatusStillHolds,
                WeightsMatchCounters
  <2>3. publishedBar' = publishedBar \cup {[run |-> r, step |-> optimizer_step[r]]}
    <3> DEFINE new == [run |-> r, checkpoint_version |-> checkpoint_version[r],
                       weights |-> model_steps[r]]
    <3>1. saved' = saved \cup {new}
      BY <1>7 DEF SaveWeightsSucceeds
    <3>2. new.run = r /\ new.weights = optimizer_step[r]
      BY <2>2
    <3> HIDE DEF new
    <3>3. QED
      BY <3>1, <3>2 DEF publishedBar
  <2>4. QED
    BY <2>1, <2>3 DEF Lifecycle!Publish
<1>8. ASSUME NEW c \in Callers, NEW r \in RunIds, ShutdownSucceeds(c, r)
      PROVE  Lifecycle!Shutdown(r)
  BY <1>8 DEF ShutdownSucceeds, NextToClose, counters, IdsAreAllocated,
              publishedBar, Status, Lifecycle!Shutdown, Lifecycle!Open
<1>9. ASSUME NEW c \in Callers, NEW r \in RunIds, ShutdownFails(c, r)
      PROVE  Lifecycle!Fail(r) \/ Stutter
  BY <1>9 DEF ShutdownFails, NextToClose, counters, IdsAreAllocated,
              publishedBar, Status, Lifecycle!Fail, Lifecycle!Open
<1>10. CASE UNCHANGED vars
  BY <1>10 DEF vars, counters, publishedBar, Lifecycle!lifecycleVars
<1>11. ASSUME NEW c \in Callers, BackendCall(c)
       PROVE  Lifecycle!Next \/ Stutter
  <2>1. CASE CreateSucceeds(c)
    BY <1>1, <2>1 DEF Lifecycle!Next
  <2>2. CASE \/ BeginCreate(c) \/ InitializeDistributed(c) \/ CreateFails(c)
             \/ BeginClose(c)
    BY <1>2, <2>2
  <2>3. QED
    BY <1>11, <2>1, <2>2 DEF BackendCall
<1>12. ASSUME NEW c \in Callers, NEW r \in RunIds, RunCall(c, r)
       PROVE  Lifecycle!Next \/ Stutter
  <2>1. CASE \/ \E input \in Inputs : BeginForwardBackward(c, r, input)
             \/ BeginOptimStep(c, r)
             \/ BeginSaveWeights(c, r)
             \/ SaveWeightsFails(c, r)
             \/ SkipClosed(c, r)
    BY <1>3, <2>1
  <2>2. CASE ForwardBackwardSucceeds(c, r)
    BY <1>4, <2>2 DEF Lifecycle!Next
  <2>3. CASE OptimStepSucceeds(c, r)
    BY <1>5, <2>3 DEF Lifecycle!Next
  <2>4. CASE ForwardBackwardFails(c, r) \/ OptimStepFails(c, r)
    BY <1>6, <2>4 DEF Lifecycle!Next
  <2>5. CASE SaveWeightsSucceeds(c, r)
    BY <1>7, <2>5 DEF Lifecycle!Next
  <2>6. CASE ShutdownSucceeds(c, r)
    BY <1>8, <2>6 DEF Lifecycle!Next
  <2>7. CASE ShutdownFails(c, r)
    BY <1>9, <2>7 DEF Lifecycle!Next
  <2>8. QED
    BY <1>12, <2>1, <2>2, <2>3, <2>4, <2>5, <2>6, <2>7 DEF RunCall
<1> HIDE DEF phaseBar
<1>13. threads \subseteq Callers
  BY ThreadsAreCallers
<1>14. QED
  BY <1>10, <1>11, <1>12, <1>13 DEF Next, Lifecycle!lifecycleVars

\* The backend, with its locks, its in-flight runtime calls and its shared process
\* group, implements the lifecycle its callers rely on.
THEOREM BackendImplementsLifecycle == Spec => ImplementsLifecycle
<1>1. IInv /\ IInv' /\ [Next]_vars => [Lifecycle!Next]_(Lifecycle!lifecycleVars)
  BY RefinementStep
<1>2. QED
  BY <1>1, RefinementInit, Invariance, PTL
     DEF Spec, ImplementsLifecycle, Lifecycle!Spec
=============================================================================
