------------------------- MODULE DistributedRuntime -------------------------
(***************************************************************************)
(* Distributed jobs on Modal: modal_apps/distributed/infra.py.             *)
(*                                                                         *)
(* A job's controller spawns a trainer and a rollout container, waits for  *)
(* the endpoint each publishes in the registry, attaches to them, runs the *)
(* job, and cleans up.  The registry outlives jobs: its keys name a        *)
(* deployment and a role, and nothing ever removes an entry.               *)
(*                                                                         *)
(* Modal (containers, calls) and Monarch (meshes) are external.            *)
(***************************************************************************)

CONSTANTS
  Jobs,                  \* runs of _run_distributed_job_impl
  Deployments,           \* deployment ids
  Assignments,           \* the ids the jobs may have been started with
  NoJob,
  Faulty                 \* jobs whose calls raise or time out, whose workers exit, and
                         \* whose controller may be killed without cleaning up

ASSUME RuntimeAssumption ==
  /\ Assignments \subseteq [Jobs -> Deployments]
  /\ NoJob \notin Jobs
  /\ Faulty \subseteq Jobs

Roles == {"trainer", "rollout"}

VARIABLES
  deployment,            \* the id each job was started with
  pc,                    \* where each controller is
  outcome,               \* what it returns
  spawned,               \* roles whose call it holds
  worker,                \* state of the containers a job spawned
  registry,              \* the job whose worker an entry points to
  endpoint               \* the job whose worker a job's role is attached to

vars == <<deployment, pc, outcome, spawned, worker, registry, endpoint>>

Starting == {"spawn_trainer", "spawn_rollout", "wait_trainer", "wait_rollout",
             "initialize"}
Stopping == {"stop_meshes", "cancel_trainer", "cancel_rollout"}
Points == {"idle", "running", "ended", "dead"} \cup Starting \cup Stopping

\* A worker is "called" until its endpoint is published, then "ready", and "serving" once
\* it listens too: nothing can tell whether it listens before.
WorkerStates == {"absent", "called", "ready", "serving", "exited"}

TypeOK ==
  /\ deployment \in Assignments
  /\ pc \in [Jobs -> Points]
  /\ outcome \in [Jobs -> {"none", "ok", "unready", "error", "cleanup_error"}]
  /\ spawned \in [Jobs -> SUBSET Roles]
  /\ worker \in [Jobs -> [Roles -> WorkerStates]]
  /\ registry \in [Deployments \X Roles -> Jobs \cup {NoJob}]
  /\ endpoint \in [Jobs -> [Roles -> Jobs \cup {NoJob}]]
  /\ \A key \in Deployments \X Roles :
       registry[key] # NoJob =>
         worker[registry[key]][key[2]] \in {"ready", "serving", "exited"}

Init ==
  /\ deployment \in Assignments
  /\ pc = [j \in Jobs |-> "idle"]
  /\ outcome = [j \in Jobs |-> "none"]
  /\ spawned = [j \in Jobs |-> {}]
  /\ worker = [j \in Jobs |-> [r \in Roles |-> "absent"]]
  /\ registry = [key \in Deployments \X Roles |-> NoJob]
  /\ endpoint = [j \in Jobs |-> [r \in Roles |-> NoJob]]

\* MUTANT of StorageKey: the key does not name the deployment.
StorageKeyOfRole(j, r) == <<CHOOSE d \in Deployments : TRUE, r>>

StorageKey(j, r) == <<deployment[j], r>>

GoTo(j, p) == pc' = [pc EXCEPT ![j] = p]

SetWorker(j, r, state) == worker' = [worker EXCEPT ![j][r] = state]

-----------------------------------------------------------------------------
(* Starting the runtime *)

StartJob(j) ==
  /\ pc[j] = "idle"
  /\ GoTo(j, "spawn_trainer")
  /\ UNCHANGED <<deployment, outcome, spawned, worker, registry, endpoint>>

SpawnWorker(j, r, here, next) ==
  /\ pc[j] = here
  /\ spawned' = [spawned EXCEPT ![j] = @ \cup {r}]
  /\ SetWorker(j, r, "called")
  /\ GoTo(j, next)
  /\ UNCHANGED <<deployment, outcome, registry, endpoint>>

\* The call may have been accepted though spawn raises: nobody holds it.
SpawnRaises(j, r, here) ==
  /\ j \in Faulty
  /\ pc[j] = here
  /\ SetWorker(j, r, "called") \/ UNCHANGED worker
  /\ outcome' = [outcome EXCEPT ![j] = "error"]
  /\ GoTo(j, "stop_meshes")
  /\ UNCHANGED <<deployment, spawned, registry, endpoint>>

Spawn(j) ==
  \/ SpawnWorker(j, "trainer", "spawn_trainer", "spawn_rollout")
  \/ SpawnWorker(j, "rollout", "spawn_rollout", "wait_trainer")
  \/ SpawnRaises(j, "trainer", "spawn_trainer")
  \/ SpawnRaises(j, "rollout", "spawn_rollout")

\* _wait_for_endpoint: any entry that says "ready" will do.
EndpointFound(j, r, here, next) ==
  /\ pc[j] = here
  /\ registry[StorageKey(j, r)] # NoJob
  /\ endpoint' = [endpoint EXCEPT ![j][r] = registry[StorageKey(j, r)]]
  /\ GoTo(j, next)
  /\ UNCHANGED <<deployment, outcome, spawned, worker, registry>>

WaitForEndpoint(j) ==
  \/ EndpointFound(j, "trainer", "wait_trainer", "wait_rollout")
  \/ EndpointFound(j, "rollout", "wait_rollout", "initialize")

AttachedServes(j) ==
  \A r \in Roles : endpoint[j][r] # NoJob /\ worker[endpoint[j][r]][r] = "serving"

\* The actors are spawned on the attached workers and answer within 30 s.
Initialize(j) ==
  /\ pc[j] = "initialize"
  /\ AttachedServes(j)
  /\ GoTo(j, "running")
  /\ UNCHANGED <<deployment, outcome, spawned, worker, registry, endpoint>>

\* They do not: an attached worker has published its endpoint but does not listen yet.
InitializeTooEarly(j) ==
  /\ pc[j] = "initialize"
  /\ \E r \in Roles : endpoint[j][r] # NoJob /\ worker[endpoint[j][r]][r] = "ready"
  /\ outcome' = [outcome EXCEPT ![j] = "unready"]
  /\ GoTo(j, "stop_meshes")
  /\ UNCHANGED <<deployment, spawned, worker, registry, endpoint>>

AttachedIsGone(j) ==
  \E r \in Roles : endpoint[j][r] # NoJob /\ worker[endpoint[j][r]][r] = "exited"

\* MUTANT of StepRaises: no deadline while waiting for an endpoint.
StepRaisesUnlessWaiting(j) ==
  /\ pc[j] \in {"initialize", "running"}
  /\ j \in Faulty \/ AttachedIsGone(j)
  /\ outcome' = [outcome EXCEPT ![j] = "error"]
  /\ GoTo(j, "stop_meshes")
  /\ UNCHANGED <<deployment, spawned, worker, registry, endpoint>>

\* A wait times out, actors on a worker that is gone never answer, the job raises.
StepRaises(j) ==
  /\ \/ pc[j] \in {"wait_trainer", "wait_rollout"} /\ j \in Faulty
     \/ pc[j] \in {"initialize", "running"} /\ (j \in Faulty \/ AttachedIsGone(j))
  /\ outcome' = [outcome EXCEPT ![j] = "error"]
  /\ GoTo(j, "stop_meshes")
  /\ UNCHANGED <<deployment, spawned, worker, registry, endpoint>>

JobReturns(j) ==
  /\ pc[j] = "running"
  /\ AttachedServes(j)
  /\ outcome' = [outcome EXCEPT ![j] = "ok"]
  /\ GoTo(j, "stop_meshes")
  /\ UNCHANGED <<deployment, spawned, worker, registry, endpoint>>

-----------------------------------------------------------------------------
(* stop_distributed_runtime *)

\* MUTANT of StopMeshes: stops whatever worker the registry names for the role.
StopMeshesOfRole(j) ==
  /\ pc[j] = "stop_meshes"
  /\ \E stopped \in SUBSET {r \in Roles : \A q \in Roles : endpoint[j][q] # NoJob} :
       worker' = [k \in Jobs |-> [r \in Roles |->
         IF /\ r \in stopped /\ worker[k][r] = "serving"
            /\ \E d \in Deployments : registry[<<d, r>>] = k
           THEN "exited" ELSE worker[k][r]]]
  /\ GoTo(j, "cancel_trainer")
  /\ UNCHANGED <<deployment, outcome, spawned, registry, endpoint>>

\* Errors are only printed; attached worker loops that serve may end with their meshes.
\* Both endpoints are found before one is attached.
StopMeshes(j) ==
  /\ pc[j] = "stop_meshes"
  /\ \E stopped \in SUBSET {r \in Roles : \A q \in Roles : endpoint[j][q] # NoJob} :
       worker' = [k \in Jobs |-> [r \in Roles |->
         IF r \in stopped /\ endpoint[j][r] = k /\ worker[k][r] = "serving"
           THEN "exited" ELSE worker[k][r]]]
  /\ GoTo(j, "cancel_trainer")
  /\ UNCHANGED <<deployment, outcome, spawned, registry, endpoint>>

\* Containers of calls that were never made are not there to be cancelled.
CancelCall(j, r, here, next) ==
  /\ pc[j] = here
  /\ IF r \in spawned[j] THEN SetWorker(j, r, "exited") ELSE UNCHANGED worker
  /\ GoTo(j, next)
  /\ UNCHANGED <<deployment, outcome, spawned, registry, endpoint>>

\* The exception of cancel replaces the result, and ends the clean-up.
CancelRaises(j) ==
  /\ j \in Faulty
  /\ \/ pc[j] = "cancel_trainer" /\ "trainer" \in spawned[j]
     \/ pc[j] = "cancel_rollout" /\ "rollout" \in spawned[j]
  /\ outcome' = [outcome EXCEPT ![j] = "cleanup_error"]
  /\ GoTo(j, "ended")
  /\ UNCHANGED <<deployment, spawned, worker, registry, endpoint>>

\* MUTANT of CancelCalls: the last call is not cancelled.
CancelTrainerOnly(j) ==
  CancelCall(j, "trainer", "cancel_trainer", "ended") \/ CancelRaises(j)

CancelCalls(j) ==
  \/ CancelCall(j, "trainer", "cancel_trainer", "cancel_rollout")
  \/ CancelCall(j, "rollout", "cancel_rollout", "ended")
  \/ CancelRaises(j)

\* Preemption, the function's own time limit, KeyboardInterrupt while starting.
ControllerDies(j) ==
  /\ j \in Faulty
  /\ pc[j] \notin {"idle", "ended", "dead"}
  /\ GoTo(j, "dead")
  /\ UNCHANGED <<deployment, outcome, spawned, worker, registry, endpoint>>

-----------------------------------------------------------------------------
(* _run_monarch_worker_loop *)

\* Modal finds a container, which starts the worker process and publishes its endpoint
\* two seconds later, if the process is still there, whether or not it listens.
PublishEndpoint(j, r) ==
  /\ worker[j][r] = "called"
  /\ registry' = [registry EXCEPT ![StorageKey(j, r)] = j]
  /\ SetWorker(j, r, "ready")
  /\ UNCHANGED <<deployment, pc, outcome, spawned, endpoint>>

\* run_worker_loop_forever, in the process of the container, listens.
WorkerListens(j, r) ==
  /\ worker[j][r] = "ready"
  /\ SetWorker(j, r, "serving")
  /\ UNCHANGED <<deployment, pc, outcome, spawned, registry, endpoint>>

\* The process exits, also before it is published, or the function's time limit ends the
\* container.  The entry stays.
WorkerExits(j, r) ==
  /\ j \in Faulty
  /\ worker[j][r] \in {"called", "ready", "serving"}
  /\ SetWorker(j, r, "exited")
  /\ UNCHANGED <<deployment, pc, outcome, spawned, registry, endpoint>>

-----------------------------------------------------------------------------
Start(j) ==
  \/ StartJob(j)
  \/ Spawn(j)
  \/ WaitForEndpoint(j)
  \/ Initialize(j)
  \/ InitializeTooEarly(j)

Controller(j) == Start(j) \/ StepRaises(j) \/ JobReturns(j) \/ StopMeshes(j) \/ CancelCalls(j)

Worker(j, r) ==
  \/ PublishEndpoint(j, r)
  \/ WorkerListens(j, r)
  \/ WorkerExits(j, r)

Next ==
  \E j \in Jobs :
    \/ Controller(j)
    \/ ControllerDies(j)
    \/ \E r \in Roles : Worker(j, r)

Spec == Init /\ [][Next]_vars

\* Each controller runs on, Modal finds a container for every call and ends it in time, and
\* a worker is published and gets to listen, unless it exits.  (A worker takes three steps
\* at most: what is fair to the workers together is fair to each.)
FairSpec ==
  /\ Spec
  /\ \A j \in Jobs : WF_vars(Controller(j))
  /\ WF_vars(\E j \in Jobs, r \in Roles : Worker(j, r))

-----------------------------------------------------------------------------
(* Properties *)

\* No other job is started with the same id: the default is a fresh uuid, --deployment-id
\* may name one that was used before.
HasOwnId(j) == \A k \in Jobs : deployment[k] = deployment[j] => k = j

\* A job with an id of its own that runs sends its requests to the workers it spawned,
\* whatever else is in the registry.  (With an id used before it may not: see
\* StaleEndpointsRefuse.)
RunsOnItsOwnWorkers ==
  \A j \in Jobs : HasOwnId(j) /\ pc[j] = "running" => \A r \in Roles : endpoint[j][r] = j

\* Unless cancel itself raised, no container whose call a finished job holds is left,
\* whichever step of the start or of the job failed (except in _start_distributed_runtime,
\* finally in _run_distributed_job_impl), and whosever workers it was attached to.
EndedMeansCleanedUp ==
  \A j \in Jobs :
    pc[j] = "ended" /\ outcome[j] # "cleanup_error" =>
      \A r \in spawned[j] : worker[j][r] = "exited"

\* A controller with an id of its own stops and cancels only what it spawned: it disturbs
\* no other job.
OnlyOwnWorkersStopped ==
  [][\A j, k \in Jobs :
       HasOwnId(j) /\ j # k /\ pc'[j] # pc[j] => worker'[k] = worker[k]]_vars

\* A job that meets no fault and has an id of its own fails for one reason only: a worker
\* of its own was published before it listened, and did not listen in time.  What fails
\* or is left behind in the jobs before or beside it never makes it fail.
OnlyLateWorkersFailAJob ==
  \A j \in Jobs \ Faulty : HasOwnId(j) => outcome[j] \in {"none", "ok", "unready"}

\* A started job ends, whatever its workers do, and no container runs forever, even one
\* no controller remembers.
JobsAndWorkersEnd ==
  /\ \A j \in Jobs : pc[j] # "idle" ~> pc[j] \in {"ended", "dead"}
  /\ <>[](\A j \in Jobs, r \in Roles : worker[j][r] \in {"absent", "exited"})

\* plans/rfc-0008: "Stale endpoints must not accept mutating requests."  A job that runs
\* is not attached to a worker that still serves though the job it was spawned for is over.
StaleEndpointsRefuse ==
  \A j \in Jobs : pc[j] = "running" => \A r \in Roles :
    endpoint[j][r] # j /\ worker[endpoint[j][r]][r] = "serving" =>
      pc[endpoint[j][r]] \notin {"ended", "dead"}
=============================================================================
