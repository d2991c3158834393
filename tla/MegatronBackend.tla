--------------------------- MODULE MegatronBackend ---------------------------
(***************************************************************************)
(* MegatronTrainingBackend (src/ganker/backends/megatron.py): the run      *)
(* registry, the per-run status machine, the two levels of locks, and the  *)
(* torch process group the runs of one actor process share.                *)
(*                                                                         *)
(* A call that enters the Megatron runtime takes two steps: Begin takes    *)
(* the lock and passes the status check, and a later step is the runtime's *)
(* answer.  Between the two the lock is held and other callers run.  A     *)
(* call the status check refuses changes nothing, so it is no step.        *)
(*                                                                         *)
(* model_steps and grad_batches are what the runtime really holds: the     *)
(* backend never reads them, it only counts on its own counters.           *)
(***************************************************************************)
EXTENDS Naturals

CONSTANTS
  Callers,               \* threads that can call the backend object
  Deployments,           \* the sets of threads it may be deployed with
  Nobody,                \* holder of a free lock
  MaxRuns,               \* bound on _run_counter
  MaxSteps               \* bound on the gradients computed for one run

ASSUME CallersAssumption == Nobody \notin Callers /\ Deployments \subseteq SUBSET Callers
ASSUME BoundsAssumption == MaxRuns \in Nat /\ MaxSteps \in Nat

VARIABLES
  threads,               \* the threads of this deployment
  next_run,              \* _run_counter: the next run id
  status,                \* status[r]: _RunState.status, "absent" if not in _runs
  gradient_version,
  optimizer_step,
  checkpoint_version,
  backend_lock,          \* who holds self._lock
  run_lock,              \* run_lock[r]: who holds state.lock
  call,                  \* call[c]: the operation c is inside, if any
  to_close,              \* to_close[c]: states close() has yet to visit
  process_group,         \* torch.distributed is initialized in this process
  grad_batches,          \* batches in the model's gradient buffers
  model_steps,           \* optimizer.step() calls the model really took
  saved                  \* artifacts a save_weights call has returned

counters == <<gradient_version, optimizer_step, checkpoint_version>>
locks == <<backend_lock, run_lock>>
runtime == <<process_group, grad_batches, model_steps>>
vars == <<threads, next_run, status, counters, locks, call, to_close, runtime, saved>>

RunIds == 1 .. MaxRuns
Status == {"absent", "ready", "gradients_pending", "checkpointing", "failed",
           "closed"}
RunOps == {"forward_backward", "optim_step", "save_weights"}

\* What a batch does to forward_backward once it is a tensor batch: the runtime
\* can run it, or refuses it with InvalidRequestError (an unknown loss_fn, a
\* batch that micro_batch_size does not divide).
Inputs == {"valid", "invalid"}

InBackend(op) == [op |-> op, run |-> 0, input |-> "valid"]
Idle == InBackend("idle")
Calls == [op : RunOps \cup {"idle", "create_training_run", "build_model", "close"},
          run : 0 .. MaxRuns, input : Inputs]

Active(r) == status[r] \notin {"absent", "failed", "closed"}

TypeOK ==
  /\ threads \in Deployments
  /\ next_run \in 1 .. MaxRuns + 1
  /\ status \in [RunIds -> Status]
  /\ gradient_version \in [RunIds -> Nat]
  /\ optimizer_step \in [RunIds -> Nat]
  /\ checkpoint_version \in [RunIds -> Nat]
  /\ backend_lock \in Callers \cup {Nobody}
  /\ run_lock \in [RunIds -> Callers \cup {Nobody}]
  /\ call \in [Callers -> Calls]
  /\ to_close \in [Callers -> SUBSET RunIds]
  /\ process_group \in BOOLEAN
  /\ grad_batches \in [RunIds -> Nat]
  /\ model_steps \in [RunIds -> Nat]
  /\ saved \subseteq [run : RunIds, checkpoint_version : Nat, weights : Nat]

Init ==
  /\ threads \in Deployments
  /\ next_run = 1
  /\ status = [r \in RunIds |-> "absent"]
  /\ gradient_version = [r \in RunIds |-> 0]
  /\ optimizer_step = [r \in RunIds |-> 0]
  /\ checkpoint_version = [r \in RunIds |-> 0]
  /\ backend_lock = Nobody
  /\ run_lock = [r \in RunIds |-> Nobody]
  /\ call = [c \in Callers |-> Idle]
  /\ to_close = [c \in Callers |-> {}]
  /\ process_group = FALSE
  /\ grad_batches = [r \in RunIds |-> 0]
  /\ model_steps = [r \in RunIds |-> 0]
  /\ saved = {}

-----------------------------------------------------------------------------
(* create_training_run holds self._lock from the check of the other runs'   *)
(* statuses to the insertion of the new state; it takes no run lock.        *)

\* Mutant: the check and the insertion are not under self._lock.
BeginCreateUnlocked(c) ==
  /\ call[c] = Idle
  /\ next_run <= MaxRuns
  /\ \A r \in RunIds : ~Active(r)
  /\ call' = [call EXCEPT ![c] = InBackend("create_training_run")]
  /\ UNCHANGED <<threads, next_run, status, counters, locks, to_close, runtime, saved>>

BeginCreate(c) ==
  /\ call[c] = Idle
  /\ backend_lock = Nobody
  /\ next_run <= MaxRuns
  /\ \A r \in RunIds : ~Active(r)
  /\ backend_lock' = c
  /\ call' = [call EXCEPT ![c] = InBackend("create_training_run")]
  /\ UNCHANGED <<threads, next_run, status, counters, run_lock, to_close, runtime, saved>>

\* Mutant: the process group is brought up for the first run only.
InitializeDistributedOnce(c) ==
  /\ call[c].op = "create_training_run"
  /\ process_group' = (process_group \/ next_run = 1)
  /\ call' = [call EXCEPT ![c] = InBackend("build_model")]
  /\ UNCHANGED <<threads, next_run, status, counters, locks, to_close, grad_batches,
                 model_steps, saved>>

\* _initialize_distributed keeps a group that is already up.
InitializeDistributed(c) ==
  /\ call[c].op = "create_training_run"
  /\ process_group' = TRUE
  /\ call' = [call EXCEPT ![c] = InBackend("build_model")]
  /\ UNCHANGED <<threads, next_run, status, counters, locks, to_close, grad_batches,
                 model_steps, saved>>

\* The model, its adapter and its optimizer are built, and the run is registered.
CreateSucceeds(c) ==
  /\ call[c].op = "build_model"
  /\ status' = [status EXCEPT ![next_run] = "ready"]
  /\ next_run' = next_run + 1
  /\ backend_lock' = Nobody
  /\ call' = [call EXCEPT ![c] = Idle]
  /\ UNCHANGED <<threads, counters, run_lock, to_close, runtime, saved>>

\* The runtime raised before, while or after it brought the process group up;
\* nothing takes the group down again.
CreateFails(c) ==
  /\ call[c].op \in {"create_training_run", "build_model"}
  /\ process_group' \in IF call[c].op = "build_model"
                        THEN {process_group} ELSE {process_group, TRUE}
  /\ backend_lock' = Nobody
  /\ call' = [call EXCEPT ![c] = Idle]
  /\ UNCHANGED <<threads, next_run, status, counters, run_lock, to_close, grad_batches,
                 model_steps, saved>>

-----------------------------------------------------------------------------
(* Calls on a run: each takes the run's lock, requires one status, and      *)
(* keeps the lock until the runtime has answered.                           *)

Enter(c, r, op, required, input) ==
  /\ call[c] = Idle
  /\ run_lock[r] = Nobody
  /\ status[r] = required
  /\ run_lock' = [run_lock EXCEPT ![r] = c]
  /\ call' = [call EXCEPT ![c] = [op |-> op, run |-> r, input |-> input]]

Leave(c, r, op, new_status) ==
  /\ call[c].op = op
  /\ call[c].run = r
  /\ run_lock' = [run_lock EXCEPT ![r] = Nobody]
  /\ status' = [status EXCEPT ![r] = new_status]
  /\ call' = [call EXCEPT ![c] = Idle]

BeginForwardBackward(c, r, input) ==
  /\ gradient_version[r] < MaxSteps
  /\ Enter(c, r, "forward_backward", "ready", input)
  /\ UNCHANGED <<threads, next_run, status, counters, backend_lock, to_close, runtime, saved>>

\* Mutant: gradients are accumulated, the run stays ready for another batch.
ForwardBackwardAccumulates(c, r) ==
  /\ Leave(c, r, "forward_backward", "ready")
  /\ call[c].input = "valid"
  /\ grad_batches' = [grad_batches EXCEPT ![r] = 1]
  /\ gradient_version' = [gradient_version EXCEPT ![r] = @ + 1]
  /\ UNCHANGED <<threads, next_run, optimizer_step, checkpoint_version, backend_lock,
                 to_close, process_group, model_steps, saved>>

\* zero_grad, then one backward pass over all the microbatches of the batch.
ForwardBackwardSucceeds(c, r) ==
  /\ Leave(c, r, "forward_backward", "gradients_pending")
  /\ call[c].input = "valid"
  /\ grad_batches' = [grad_batches EXCEPT ![r] = 1]
  /\ gradient_version' = [gradient_version EXCEPT ![r] = @ + 1]
  /\ UNCHANGED <<threads, next_run, optimizer_step, checkpoint_version, backend_lock,
                 to_close, process_group, model_steps, saved>>

\* Mutant: the exception escapes without releasing state.lock.
ForwardBackwardFailsLocked(c, r) ==
  /\ call[c].op = "forward_backward"
  /\ call[c].run = r
  /\ status' = [status EXCEPT ![r] = "failed"]
  /\ call' = [call EXCEPT ![c] = Idle]
  /\ UNCHANGED <<threads, next_run, counters, locks, to_close, runtime, saved>>

\* Any exception of the runtime fails the run.  An invalid input is refused
\* before zero_grad; a failing pass may leave some gradients behind.
ForwardBackwardFails(c, r) ==
  /\ Leave(c, r, "forward_backward", "failed")
  /\ \E left \in IF call[c].input = "invalid" THEN {grad_batches[r]} ELSE {0, 1} :
       grad_batches' = [grad_batches EXCEPT ![r] = left]
  /\ UNCHANGED <<threads, next_run, counters, backend_lock, to_close, process_group,
                 model_steps, saved>>

BeginOptimStep(c, r) ==
  /\ Enter(c, r, "optim_step", "gradients_pending", "valid")
  /\ UNCHANGED <<threads, next_run, status, counters, backend_lock, to_close, runtime, saved>>

OptimStepSucceeds(c, r) ==
  /\ Leave(c, r, "optim_step", "ready")
  /\ model_steps' = [model_steps EXCEPT ![r] = @ + 1]
  /\ grad_batches' = [grad_batches EXCEPT ![r] = 0]
  /\ optimizer_step' = [optimizer_step EXCEPT ![r] = @ + 1]
  /\ checkpoint_version' = [checkpoint_version EXCEPT ![r] = @ + 1]
  /\ UNCHANGED <<threads, next_run, gradient_version, backend_lock, to_close,
                 process_group, saved>>

\* Mutant: a failed step can be tried again.
OptimStepFailsRetryable(c, r) ==
  /\ Leave(c, r, "optim_step", "gradients_pending")
  /\ \E applied \in {0, 1} :
       model_steps' = [model_steps EXCEPT ![r] = @ + applied]
  /\ UNCHANGED <<threads, next_run, counters, backend_lock, to_close, process_group,
                 grad_batches, saved>>

\* Mutant: the version is rolled back although it was not yet advanced.
OptimStepFailsRollsBack(c, r) ==
  /\ Leave(c, r, "optim_step", "failed")
  /\ \E applied \in {0, 1} :
       model_steps' = [model_steps EXCEPT ![r] = @ + applied]
  /\ checkpoint_version' = [checkpoint_version EXCEPT ![r] = @ - 1]
  /\ UNCHANGED <<threads, next_run, gradient_version, optimizer_step, backend_lock,
                 to_close, process_group, grad_batches, saved>>

\* The runtime raised before optimizer.step() changed the weights, or after.
OptimStepFails(c, r) ==
  /\ Leave(c, r, "optim_step", "failed")
  /\ \E applied \in {0, 1} :
       model_steps' = [model_steps EXCEPT ![r] = @ + applied]
  /\ UNCHANGED <<threads, next_run, counters, backend_lock, to_close, process_group,
                 grad_batches, saved>>

\* Mutant: weights may be saved while a gradient is pending.
BeginSaveWeightsPending(c, r) ==
  /\ \E required \in {"ready", "gradients_pending"} :
       Enter(c, r, "save_weights", required, "valid")
  /\ status' = [status EXCEPT ![r] = "checkpointing"]
  /\ UNCHANGED <<threads, next_run, counters, backend_lock, to_close, runtime, saved>>

BeginSaveWeights(c, r) ==
  /\ Enter(c, r, "save_weights", "ready", "valid")
  /\ status' = [status EXCEPT ![r] = "checkpointing"]
  /\ UNCHANGED <<threads, next_run, counters, backend_lock, to_close, runtime, saved>>

SaveWeightsSucceeds(c, r) ==
  /\ Leave(c, r, "save_weights", "ready")
  /\ saved' = saved \cup {[run |-> r,
                           checkpoint_version |-> checkpoint_version[r],
                           weights |-> model_steps[r]]}
  /\ UNCHANGED <<threads, next_run, counters, backend_lock, to_close, runtime>>

\* The export or the artifact store raised: the run may be saved again.
SaveWeightsFails(c, r) ==
  /\ Leave(c, r, "save_weights", "ready")
  /\ UNCHANGED <<threads, next_run, counters, backend_lock, to_close, runtime, saved>>

-----------------------------------------------------------------------------
(* close copies the states under self._lock, releases it, and then visits   *)
(* each state under its own lock.                                           *)

BeginClose(c) ==
  /\ call[c] = Idle
  /\ backend_lock = Nobody
  /\ next_run > 1
  /\ to_close' = [to_close EXCEPT ![c] = 1 .. next_run - 1]
  /\ call' = [call EXCEPT ![c] = InBackend("close")]
  /\ UNCHANGED <<threads, next_run, status, counters, locks, runtime, saved>>

\* States are visited in the order they were created.
NextToClose(c, r) ==
  /\ call[c].op = "close"
  /\ r \in to_close[c]
  /\ \A s \in to_close[c] : r <= s
  /\ run_lock[r] = Nobody
  /\ to_close' = [to_close EXCEPT ![c] = @ \ {r}]
  /\ call' = [call EXCEPT ![c] = IF to_close[c] = {r} THEN Idle ELSE @]

SkipClosed(c, r) ==
  /\ NextToClose(c, r)
  /\ status[r] = "closed"
  /\ UNCHANGED <<threads, next_run, status, counters, locks, runtime, saved>>

\* runtime.shutdown destroys the process group, whichever run brought it up.
ShutdownSucceeds(c, r) ==
  /\ NextToClose(c, r)
  /\ status[r] # "closed"
  /\ status' = [status EXCEPT ![r] = "closed"]
  /\ process_group' = FALSE
  /\ UNCHANGED <<threads, next_run, counters, locks, grad_batches, model_steps, saved>>

ShutdownFails(c, r) ==
  /\ NextToClose(c, r)
  /\ status[r] # "closed"
  /\ status' = [status EXCEPT ![r] = "failed"]
  /\ process_group' \in {FALSE, process_group}
  /\ UNCHANGED <<threads, next_run, counters, locks, grad_batches, model_steps, saved>>

-----------------------------------------------------------------------------
RunCall(c, r) ==
  \/ \E input \in Inputs : BeginForwardBackward(c, r, input)
  \/ ForwardBackwardSucceeds(c, r)
  \/ ForwardBackwardFails(c, r)
  \/ BeginOptimStep(c, r)
  \/ OptimStepSucceeds(c, r)
  \/ OptimStepFails(c, r)
  \/ BeginSaveWeights(c, r)
  \/ SaveWeightsSucceeds(c, r)
  \/ SaveWeightsFails(c, r)
  \/ SkipClosed(c, r)
  \/ ShutdownSucceeds(c, r)
  \/ ShutdownFails(c, r)

BackendCall(c) ==
  \/ BeginCreate(c)
  \/ InitializeDistributed(c)
  \/ CreateSucceeds(c)
  \/ CreateFails(c)
  \/ BeginClose(c)

Next == \E c \in threads : BackendCall(c) \/ \E r \in RunIds : RunCall(c, r)

Spec == Init /\ [][Next]_vars

\* The runtime answers every call, and a thread waiting in close for the lock of
\* a run that is freed again and again is let in at last.
Returns(c) ==
  \/ InitializeDistributed(c)
  \/ CreateSucceeds(c)
  \/ CreateFails(c)
  \/ \E r \in RunIds :
       \/ ForwardBackwardSucceeds(c, r) \/ ForwardBackwardFails(c, r)
       \/ OptimStepSucceeds(c, r) \/ OptimStepFails(c, r)
       \/ SaveWeightsSucceeds(c, r) \/ SaveWeightsFails(c, r)
       \/ SkipClosed(c, r) \/ ShutdownSucceeds(c, r) \/ ShutdownFails(c, r)

FairSpec == Spec /\ \A c \in Callers : SF_vars(Returns(c))

-----------------------------------------------------------------------------
(* Properties *)

\* "Megatron backend supports one active run per actor" (_ensure_no_active_run),
\* although the check reads the other runs' statuses without their locks and the
\* new run appears only after the slow runtime.create_run.
AtMostOneActiveRun ==
  \A r, s \in RunIds : Active(r) /\ Active(s) => r = s

\* The status a call required when it entered is still the run's status when the
\* runtime answers: no other call, and no close, changes a run under way.
CheckedStatusStillHolds ==
  \A c \in Callers :
    LET r == call[c].run IN
      /\ call[c].op = "forward_backward" => status[r] = "ready"
      /\ call[c].op = "optim_step" => status[r] = "gradients_pending"
      /\ call[c].op = "save_weights" => status[r] = "checkpointing"

\* Every optimizer step consumes exactly one forward_backward: a run is ahead by
\* one gradient in gradients_pending and by none when it is ready or saving, and
\* the checkpoint version always counts the steps.
OneGradientPerStep ==
  \A r \in RunIds :
    /\ checkpoint_version[r] = optimizer_step[r]
    /\ status[r] \in {"ready", "checkpointing"} =>
         gradient_version[r] = optimizer_step[r]
    /\ status[r] = "gradients_pending" =>
         /\ gradient_version[r] = optimizer_step[r] + 1
         /\ grad_batches[r] = 1

\* An artifact labelled checkpoint_version = v holds the weights after exactly v
\* complete optimizer steps: a step that raised half way is never saved.
SavedWeightsMatchLabel ==
  \A a \in saved : a.weights = a.checkpoint_version

\* A failed or closed run never trains again: its status stays among the two and
\* its counters and weights are frozen.
FinalStatusesAreFinal ==
  [][\A r \in RunIds : status[r] \in {"failed", "closed"} =>
       /\ status'[r] \in {"failed", "closed"}
       /\ optimizer_step'[r] = optimizer_step[r]
       /\ model_steps'[r] = model_steps[r]]_vars

\* With the one thread of a Monarch actor, a run that can still train has its
\* process group: shutting down an older, failed run never takes it away except
\* inside the close that is about to shut the active run down too.
ActiveRunHasProcessGroup ==
  (\E c \in Callers : threads = {c} /\ call[c].op # "close") =>
    \A r \in RunIds : Active(r) => process_group

\* No thread is stuck inside the backend: in particular no call keeps a lock that
\* close or create_training_run waits for.
EveryCallReturns ==
  \A c \in Callers : call[c] # Idle ~> call[c] = Idle

-----------------------------------------------------------------------------
(* The lifecycle the callers may rely on.                                   *)

Phase(r) == IF status[r] = "checkpointing" THEN "ready" ELSE status[r]
phaseBar == [r \in RunIds |-> Phase(r)]
publishedBar == {[run |-> a.run, step |-> a.weights] : a \in saved}

Lifecycle == INSTANCE TrainingLifecycle WITH
  phase <- phaseBar, steps <- optimizer_step, published <- publishedBar

\* The backend implements the lifecycle: locks, in-flight runtime calls and the
\* shared process group are invisible to its callers.
ImplementsLifecycle == Lifecycle!Spec
=============================================================================
