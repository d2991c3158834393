---------------------- MODULE DistributedRuntimeProofs ----------------------
(***************************************************************************)
(* Proofs about DistributedRuntime, for any number of jobs and any         *)
(* assignment of ids: a job with an id of its own runs on its own workers  *)
(* and, where it meets no fault, fails only for a worker of its own that   *)
(* listens too late; a job that ends has cancelled the calls it holds.     *)
(***************************************************************************)
EXTENDS DistributedRuntime, TLAPS

Types ==
  /\ deployment \in Assignments /\ deployment \in [Jobs -> Deployments]
  /\ pc \in [Jobs -> Points]
  /\ outcome \in [Jobs -> {"none", "ok", "unready", "error", "cleanup_error"}]
  /\ spawned \in [Jobs -> SUBSET Roles]
  /\ worker \in [Jobs -> [Roles -> WorkerStates]]
  /\ registry \in [Deployments \X Roles -> Jobs \cup {NoJob}]
  /\ endpoint \in [Jobs -> [Roles -> Jobs \cup {NoJob}]]

\* An entry points to a worker of its deployment that was ready once.
EntriesAreOfTheirDeployment ==
  \A d \in Deployments, r \in Roles :
    registry[<<d, r>>] # NoJob =>
      /\ deployment[registry[<<d, r>>]] = d
      /\ worker[registry[<<d, r>>]][r] \in {"ready", "serving", "exited"}

\* A job only looks up entries of its own deployment, both before it runs.
EndpointsAreOfTheirDeployment ==
  \A j \in Jobs, r \in Roles :
    /\ endpoint[j][r] # NoJob => deployment[endpoint[j][r]] = deployment[j]
    /\ pc[j] = "running" => endpoint[j][r] # NoJob

\* How far the clean-up has come, and what it has cancelled.
CancelledSoFar ==
  \A j \in Jobs :
    /\ pc[j] = "cancel_rollout" /\ "trainer" \in spawned[j] => worker[j]["trainer"] = "exited"
    /\ pc[j] = "ended" /\ outcome[j] # "cleanup_error" =>
         \A r \in spawned[j] : worker[j][r] = "exited"

\* A container is there only once its call is made.
NotYetSpawned ==
  \A j \in Jobs :
    /\ pc[j] \in {"idle", "spawn_trainer"} => \A r \in Roles : worker[j][r] = "absent"
    /\ pc[j] = "spawn_rollout" => worker[j]["rollout"] = "absent"

IInv ==
  /\ Types
  /\ EntriesAreOfTheirDeployment
  /\ EndpointsAreOfTheirDeployment
  /\ CancelledSoFar
  /\ NotYetSpawned

LEMMA InitIInv == Init => IInv
BY RuntimeAssumption
DEF Init, IInv, Types, EntriesAreOfTheirDeployment, EndpointsAreOfTheirDeployment, CancelledSoFar,
    NotYetSpawned, Points, Roles, WorkerStates

\* What SetWorker leaves.
LEMMA WorkerAfterSet ==
  ASSUME Types, NEW j \in Jobs, NEW r \in Roles, NEW state \in WorkerStates,
         SetWorker(j, r, state)
  PROVE  /\ worker' \in [Jobs -> [Roles -> WorkerStates]]
         /\ \A k \in Jobs, q \in Roles :
              worker'[k][q] = IF k = j /\ q = r THEN state ELSE worker[k][q]
<1>1. worker' = [worker EXCEPT ![j] = [worker[j] EXCEPT ![r] = state]]
  BY DEF SetWorker
<1>2. worker \in [Jobs -> [Roles -> WorkerStates]] BY DEF Types
<1> DEFINE f == [worker[j] EXCEPT ![r] = state]
<1>3. f \in [Roles -> WorkerStates] /\ \A q \in Roles : f[q] = IF q = r THEN state ELSE worker[j][q]
  BY <1>2
<1> HIDE DEF f
<1>4. worker' = [worker EXCEPT ![j] = f] BY <1>1 DEF f
<1> QED BY <1>2, <1>3, <1>4

\* The steps of the controller that start nothing and stop nothing.
LEMMA QuietStep ==
  ASSUME IInv, NEW j \in Jobs,
         StartJob(j) \/ Initialize(j) \/ InitializeTooEarly(j) \/ StepRaises(j) \/ JobReturns(j) \/ ControllerDies(j)
           \/ CancelRaises(j) \/ UNCHANGED vars
  PROVE  IInv'
<1> USE DEF IInv, Types, Points, Starting, Stopping, GoTo
<1>1. UNCHANGED <<deployment, spawned, worker, registry, endpoint>>
  BY DEF StartJob, Initialize, InitializeTooEarly, StepRaises, JobReturns, ControllerDies, CancelRaises, vars
<1>2. Types'
  BY <1>1 DEF StartJob, Initialize, InitializeTooEarly, StepRaises, JobReturns, ControllerDies, CancelRaises, vars
<1>3. EntriesAreOfTheirDeployment' BY <1>1 DEF EntriesAreOfTheirDeployment
<1>4. EndpointsAreOfTheirDeployment'
  BY <1>1 DEF EndpointsAreOfTheirDeployment, AttachedServes,
     StartJob, Initialize, InitializeTooEarly, StepRaises, JobReturns, ControllerDies, CancelRaises, vars
<1>5. CancelledSoFar'
  BY <1>1 DEF CancelledSoFar,
     StartJob, Initialize, InitializeTooEarly, StepRaises, JobReturns, ControllerDies, CancelRaises, vars
<1>6. NotYetSpawned'
  BY <1>1 DEF NotYetSpawned,
     StartJob, Initialize, InitializeTooEarly, StepRaises, JobReturns, ControllerDies, CancelRaises, vars
<1> QED BY <1>2, <1>3, <1>4, <1>5, <1>6

\* A call is made, and held or lost.
LEMMA SpawnStep == ASSUME IInv, NEW j \in Jobs, Spawn(j) PROVE IInv'
<1> USE DEF IInv, Types, GoTo, Roles
<1>1. PICK r \in Roles, here \in {"spawn_trainer", "spawn_rollout"}, next \in {"spawn_rollout", "wait_trainer"} :
        /\ r = "trainer" <=> here = "spawn_trainer"
        /\ r = "trainer" <=> next = "spawn_rollout"
        /\ SpawnWorker(j, r, here, next) \/ SpawnRaises(j, r, here)
  BY DEF Spawn
<1>2. pc[j] = here /\ worker[j][r] = "absent" /\ UNCHANGED <<deployment, registry, endpoint>>
  BY <1>1 DEF SpawnWorker, SpawnRaises, NotYetSpawned
<1>3. /\ worker' \in [Jobs -> [Roles -> WorkerStates]]
      /\ \A k \in Jobs, q \in Roles :
           worker'[k][q] = worker[k][q] \/ (k = j /\ q = r /\ worker'[k][q] = "called")
  <2>1. CASE UNCHANGED worker BY <2>1
  <2>2. CASE SetWorker(j, r, "called")
    BY <2>2, WorkerAfterSet, "called" \in WorkerStates DEF WorkerStates
  <2> QED BY <1>1, <2>1, <2>2 DEF SpawnWorker, SpawnRaises
<1>4. /\ pc' = [pc EXCEPT ![j] = next] \/ pc' = [pc EXCEPT ![j] = "stop_meshes"]
      /\ spawned' = [spawned EXCEPT ![j] = @ \cup {r}] \/ spawned' = spawned
      /\ outcome' = outcome \/ outcome' = [outcome EXCEPT ![j] = "error"]
  BY <1>1 DEF SpawnWorker, SpawnRaises
<1>5. Types'
  <2>1. pc' \in [Jobs -> Points] BY <1>4 DEF Points, Starting, Stopping
  <2>2. spawned' \in [Jobs -> SUBSET Roles] BY <1>4
  <2>3. outcome' \in [Jobs -> {"none", "ok", "unready", "error", "cleanup_error"}] BY <1>4
  <2> QED BY <1>2, <1>3, <2>1, <2>2, <2>3
<1>6. EntriesAreOfTheirDeployment'
  <2>1. ASSUME NEW d \in Deployments, NEW q \in Roles, registry'[<<d, q>>] # NoJob
        PROVE  /\ deployment'[registry'[<<d, q>>]] = d
               /\ worker'[registry'[<<d, q>>]][q] \in {"ready", "serving", "exited"}
    <3> DEFINE k == registry[<<d, q>>]
    <3>1. k \in Jobs /\ deployment[k] = d /\ worker[k][q] \in {"ready", "serving", "exited"}
      <4>1. registry' = registry /\ k # NoJob BY <1>2, <2>1
      <4>2. k \in Jobs BY <4>1
      <4>3. EntriesAreOfTheirDeployment OBVIOUS
      <4> QED BY <4>1, <4>2, <4>3 DEF EntriesAreOfTheirDeployment
    <3>2. registry'[<<d, q>>] = k /\ deployment' = deployment BY <1>2
    <3> HIDE DEF k
    <3>3. worker'[k][q] = worker[k][q] BY <1>2, <1>3, <3>1
    <3> QED BY <3>1, <3>2, <3>3
  <2> QED BY <2>1 DEF EntriesAreOfTheirDeployment
<1>7. EndpointsAreOfTheirDeployment'
  BY <1>2, <1>4 DEF EndpointsAreOfTheirDeployment
<1>8. CancelledSoFar'
  BY SMTT(30), <1>2, <1>3, <1>4 DEF CancelledSoFar
<1>9. NotYetSpawned'
  BY <1>1, <1>2, <1>3, <1>4 DEF NotYetSpawned
<1> QED BY <1>5, <1>6, <1>7, <1>8, <1>9

\* An entry is looked up.
LEMMA WaitStep == ASSUME IInv, NEW j \in Jobs, WaitForEndpoint(j) PROVE IInv'
<1> USE DEF IInv, Types, GoTo, Roles
<1>1. PICK r \in Roles, next \in {"wait_rollout", "initialize"} :
        /\ registry[StorageKey(j, r)] # NoJob
        /\ endpoint' = [endpoint EXCEPT ![j][r] = registry[StorageKey(j, r)]]
        /\ pc' = [pc EXCEPT ![j] = next]
        /\ UNCHANGED <<deployment, outcome, spawned, worker, registry>>
  BY DEF WaitForEndpoint, EndpointFound
<1> DEFINE k == registry[<<deployment[j], r>>]
<1>2. k \in Jobs /\ k # NoJob /\ deployment[k] = deployment[j]
  <2>1. deployment[j] \in Deployments BY DEF Types
  <2>2. k # NoJob BY <1>1 DEF StorageKey
  <2>3. k \in Jobs \cup {NoJob} BY <2>1
  <2>4. deployment[k] = deployment[j] BY <2>1, <2>2 DEF EntriesAreOfTheirDeployment
  <2> QED BY <2>2, <2>3, <2>4
<1>3. endpoint' = [endpoint EXCEPT ![j] = [endpoint[j] EXCEPT ![r] = k]]
  BY <1>1 DEF StorageKey
<1> HIDE DEF k
<1> DEFINE f == [endpoint[j] EXCEPT ![r] = k]
<1>4. f \in [Roles -> Jobs \cup {NoJob}] /\ \A q \in Roles : f[q] = IF q = r THEN k ELSE endpoint[j][q]
  BY <1>2
<1>5. endpoint' = [endpoint EXCEPT ![j] = f] BY <1>3
<1> HIDE DEF f
<1>6. Types'
  BY <1>1, <1>4, <1>5 DEF Points, Starting, Stopping
<1>7. EntriesAreOfTheirDeployment'
  <2>1. registry' = registry /\ worker' = worker /\ deployment' = deployment BY <1>1
  <2>2. EntriesAreOfTheirDeployment OBVIOUS
  <2> HIDE DEF IInv, Types, GoTo
  <2>3. ASSUME NEW d \in Deployments, NEW q \in Roles, registry'[<<d, q>>] # NoJob
        PROVE  /\ deployment'[registry'[<<d, q>>]] = d
               /\ worker'[registry'[<<d, q>>]][q] \in {"ready", "serving", "exited"}
    <3> DEFINE w == registry[<<d, q>>]
    <3>1. registry'[<<d, q>>] = w /\ worker'[w][q] = worker[w][q] BY <2>1
    <3>2. w # NoJob BY <2>3, <3>1
    <3>3. deployment[w] = d /\ worker[w][q] \in {"ready", "serving", "exited"}
      BY <2>2, <3>2 DEF EntriesAreOfTheirDeployment
    <3> HIDE DEF w
    <3> QED BY <2>1, <3>1, <3>3
  <2> QED BY <2>3 DEF EntriesAreOfTheirDeployment
<1>8. EndpointsAreOfTheirDeployment'
  BY <1>1, <1>2, <1>4, <1>5 DEF EndpointsAreOfTheirDeployment
<1>9. CancelledSoFar' BY <1>1 DEF CancelledSoFar
<1>10. NotYetSpawned' BY <1>1 DEF NotYetSpawned
<1> QED BY <1>6, <1>7, <1>8, <1>9, <1>10

\* Meshes are stopped: workers that served may have exited.
LEMMA StopStep == ASSUME IInv, NEW j \in Jobs, StopMeshes(j) PROVE IInv'
<1> USE DEF IInv, Types, GoTo
<1>1. /\ pc' = [pc EXCEPT ![j] = "cancel_trainer"]
      /\ UNCHANGED <<deployment, outcome, spawned, registry, endpoint>>
  BY DEF StopMeshes
<1>2. PICK stopped \in SUBSET Roles :
        worker' = [k \in Jobs |-> [r \in Roles |->
          IF r \in stopped /\ endpoint[j][r] = k /\ worker[k][r] = "serving"
            THEN "exited" ELSE worker[k][r]]]
  BY DEF StopMeshes
<1>3. \A k \in Jobs, r \in Roles :
        worker'[k][r] = worker[k][r] \/ (worker[k][r] = "serving" /\ worker'[k][r] = "exited")
  BY <1>2
<1>4. worker' \in [Jobs -> [Roles -> WorkerStates]]
  BY <1>2 DEF WorkerStates
<1>5. Types' BY <1>1, <1>4 DEF Points, Stopping
<1>6. EntriesAreOfTheirDeployment' BY <1>1, <1>3 DEF EntriesAreOfTheirDeployment
<1>7. EndpointsAreOfTheirDeployment' BY <1>1 DEF EndpointsAreOfTheirDeployment
<1>8. CancelledSoFar' BY <1>1, <1>3 DEF CancelledSoFar, Roles
<1>9. NotYetSpawned' BY <1>1, <1>3 DEF NotYetSpawned, Roles
<1> QED BY <1>5, <1>6, <1>7, <1>8, <1>9

\* A call is cancelled.
LEMMA CancelStep == ASSUME IInv, NEW j \in Jobs, CancelCalls(j) PROVE IInv'
<1> USE DEF IInv, Types, GoTo, Roles
<1>1. CASE CancelRaises(j) BY <1>1, QuietStep
<1>2. ASSUME NEW r \in Roles, NEW here \in {"cancel_trainer", "cancel_rollout"},
             NEW next \in {"cancel_rollout", "ended"},
             r = "trainer" <=> next = "cancel_rollout", r = "trainer" <=> here = "cancel_trainer",
             CancelCall(j, r, here, next)
      PROVE  IInv'
  <2>1. /\ pc[j] = here /\ pc' = [pc EXCEPT ![j] = next]
        /\ UNCHANGED <<deployment, outcome, spawned, registry, endpoint>>
    BY <1>2 DEF CancelCall
  <2>2. /\ worker' \in [Jobs -> [Roles -> WorkerStates]]
        /\ \A k \in Jobs, q \in Roles :
             worker'[k][q] = IF k = j /\ q = r /\ r \in spawned[j] THEN "exited" ELSE worker[k][q]
    <3>1. CASE r \notin spawned[j] BY <1>2, <3>1 DEF CancelCall
    <3>2. CASE r \in spawned[j]
      BY <1>2, <3>2, WorkerAfterSet, "exited" \in WorkerStates DEF CancelCall, WorkerStates
    <3> QED BY <3>1, <3>2
  <2>3. Types' BY <2>1, <2>2 DEF Points, Stopping
  <2>4. EntriesAreOfTheirDeployment'
    <3>1. ASSUME NEW d \in Deployments, NEW q \in Roles, registry'[<<d, q>>] # NoJob
          PROVE  /\ deployment'[registry'[<<d, q>>]] = d
                 /\ worker'[registry'[<<d, q>>]][q] \in {"ready", "serving", "exited"}
      <4> DEFINE k == registry[<<d, q>>]
      <4>1. k \in Jobs /\ deployment[k] = d /\ worker[k][q] \in {"ready", "serving", "exited"}
        <5>1. registry' = registry /\ k # NoJob BY <2>1, <3>1
        <5>2. k \in Jobs BY <5>1
        <5>3. EntriesAreOfTheirDeployment OBVIOUS
        <5> QED BY <5>1, <5>2, <5>3 DEF EntriesAreOfTheirDeployment
      <4>2. registry'[<<d, q>>] = k /\ deployment' = deployment BY <2>1
      <4> HIDE DEF k
      <4>3. worker'[k][q] \in {worker[k][q], "exited"} BY <2>2, <4>1
      <4> QED BY <4>1, <4>2, <4>3
    <3> QED BY <3>1 DEF EntriesAreOfTheirDeployment
  <2>5. EndpointsAreOfTheirDeployment' BY <2>1 DEF EndpointsAreOfTheirDeployment
  <2>6. CancelledSoFar' BY <1>2, <2>1, <2>2 DEF CancelledSoFar
  <2>7. NotYetSpawned' BY <2>1, <2>2 DEF NotYetSpawned
  <2> QED BY <2>3, <2>4, <2>5, <2>6, <2>7
<1> QED BY <1>1, <1>2 DEF CancelCalls

\* A worker goes on.
LEMMA WorkerStep == ASSUME IInv, NEW j \in Jobs, NEW r \in Roles, Worker(j, r) PROVE IInv'
<1> USE DEF IInv, Types
<1>1. UNCHANGED <<deployment, pc, outcome, spawned, endpoint>>
  BY DEF Worker, PublishEndpoint, WorkerListens, WorkerExits
<1>2. PICK state \in {"ready", "serving", "exited"} :
        /\ SetWorker(j, r, state)
        /\ worker[j][r] \in {"called", "ready", "serving"}
  BY DEF Worker, PublishEndpoint, WorkerListens, WorkerExits
<1>3. state \in WorkerStates BY DEF WorkerStates
<1>4. /\ worker' \in [Jobs -> [Roles -> WorkerStates]]
      /\ \A k \in Jobs, q \in Roles :
           worker'[k][q] = IF k = j /\ q = r THEN state ELSE worker[k][q]
  BY <1>2, <1>3, WorkerAfterSet
<1>5. \/ registry' = registry
      \/ /\ registry' = [registry EXCEPT ![<<deployment[j], r>>] = j]
         /\ SetWorker(j, r, "ready")
  BY DEF Worker, PublishEndpoint, WorkerListens, WorkerExits, StorageKey
<1>6. Types'
  <2>1. deployment[j] \in Deployments BY DEF Types
  <2>2. registry' \in [Deployments \X Roles -> Jobs \cup {NoJob}]
    <3>1. registry \in [Deployments \X Roles -> Jobs \cup {NoJob}] OBVIOUS
    <3> HIDE DEF IInv, Types
    <3> QED BY <1>5, <2>1, <3>1
  <2> QED BY <1>1, <1>4, <2>2
<1>7. EntriesAreOfTheirDeployment'
  <2>1. CASE registry' = registry BY <1>1, <1>2, <1>4, <2>1 DEF EntriesAreOfTheirDeployment
  <2>2. CASE /\ registry' = [registry EXCEPT ![<<deployment[j], r>>] = j]
             /\ SetWorker(j, r, "ready")
    <3>1. \A k \in Jobs, q \in Roles :
            worker'[k][q] = IF k = j /\ q = r THEN "ready" ELSE worker[k][q]
      BY <2>2, WorkerAfterSet, "ready" \in WorkerStates DEF WorkerStates
    <3>2. \A d \in Deployments, q \in Roles :
            registry'[<<d, q>>] = IF d = deployment[j] /\ q = r THEN j ELSE registry[<<d, q>>]
      BY <2>2
    <3>3. j # NoJob BY RuntimeAssumption
    <3> QED BY <1>1, <3>1, <3>2, <3>3 DEF EntriesAreOfTheirDeployment
  <2> QED BY <1>5, <2>1, <2>2
<1>8. EndpointsAreOfTheirDeployment' BY <1>1 DEF EndpointsAreOfTheirDeployment
<1>9. CancelledSoFar'
  BY <1>1, <1>2, <1>4 DEF CancelledSoFar, Roles
<1>10. NotYetSpawned' BY <1>1, <1>2, <1>4 DEF NotYetSpawned, Roles
<1> QED BY <1>6, <1>7, <1>8, <1>9, <1>10

LEMMA StepIInv == ASSUME IInv, [Next]_vars PROVE IInv'
<1>1. ASSUME NEW j \in Jobs, Controller(j) PROVE IInv'
  BY <1>1, QuietStep, SpawnStep, WaitStep, StopStep, CancelStep DEF Controller, Start
<1>2. ASSUME NEW j \in Jobs, ControllerDies(j) PROVE IInv' BY <1>2, QuietStep
<1>3. ASSUME NEW j \in Jobs, NEW r \in Roles, Worker(j, r) PROVE IInv' BY <1>3, WorkerStep
<1>4. CASE UNCHANGED vars
  BY <1>4 DEF vars, IInv, Types, EntriesAreOfTheirDeployment, EndpointsAreOfTheirDeployment,
     CancelledSoFar, NotYetSpawned
<1> QED BY <1>1, <1>2, <1>3, <1>4 DEF Next

LEMMA InductiveInvariant == Spec => []IInv
BY InitIInv, StepIInv, PTL DEF Spec

-----------------------------------------------------------------------------
\* The state of the jobs, their workers and the registry keep their types, and what the
\* registry points to was ready once.
THEOREM TypeCorrect == Spec => []TypeOK
<1>1. IInv => TypeOK
  <2> SUFFICES ASSUME IInv PROVE TypeOK OBVIOUS
  <2>1. ASSUME NEW key \in Deployments \X Roles, registry[key] # NoJob
        PROVE  worker[registry[key]][key[2]] \in {"ready", "serving", "exited"}
    <3>1. PICK d \in Deployments, r \in Roles : key = <<d, r>> OBVIOUS
    <3> QED BY <2>1, <3>1 DEF IInv, EntriesAreOfTheirDeployment
  <2> QED BY <2>1 DEF IInv, Types, TypeOK
<1> QED BY InductiveInvariant, <1>1, PTL

\* Whatever fails, a job that ends has cancelled every call it holds, unless a cancel raised.
THEOREM CleanUpIsComplete == Spec => []EndedMeansCleanedUp
<1>1. IInv => EndedMeansCleanedUp BY DEF IInv, CancelledSoFar, EndedMeansCleanedUp
<1> QED BY InductiveInvariant, <1>1, PTL

\* With an id of its own (the default is a fresh uuid), a job never runs on the workers of
\* another one.
THEOREM OwnIdKeepsJobsApart == Spec => []RunsOnItsOwnWorkers
<1>1. IInv => RunsOnItsOwnWorkers
  BY DEF HasOwnId, IInv, Types, EndpointsAreOfTheirDeployment, RunsOnItsOwnWorkers
<1> QED BY InductiveInvariant, <1>1, PTL

\* A controller leaves jobs with another id, their workers included, as they are.
LEMMA ControllersKeepApart ==
  ASSUME IInv, NEW i \in Jobs, Controller(i) \/ ControllerDies(i),
         NEW k \in Jobs, k # i, HasOwnId(i) \/ HasOwnId(k)
  PROVE  /\ pc'[k] = pc[k] /\ outcome'[k] = outcome[k] /\ endpoint'[k] = endpoint[k]
         /\ worker'[k] = worker[k]
<1>0. Types /\ EndpointsAreOfTheirDeployment BY DEF IInv
<1>1. CASE ControllerDies(i)
  BY <1>0, <1>1 DEF ControllerDies, GoTo, Types
<1>2. CASE StopMeshes(i)
  <2>1. ASSUME NEW r \in Roles PROVE endpoint[i][r] # k
    <3> SUFFICES ASSUME endpoint[i][r] = k PROVE FALSE OBVIOUS
    <3>1. k # NoJob BY RuntimeAssumption
    <3>2. deployment[k] = deployment[i]
      BY <1>0, <3>1 DEF EndpointsAreOfTheirDeployment
    <3> QED BY <3>2 DEF HasOwnId
  <2>2. worker'[k] = [r \in Roles |-> worker[k][r]]
    BY <1>2, <2>1 DEF StopMeshes
  <2>3. worker[k] \in [Roles -> WorkerStates] BY <1>0 DEF Types
  <2>4. pc'[k] = pc[k] /\ UNCHANGED <<outcome, endpoint>>
    BY <1>0, <1>2 DEF StopMeshes, GoTo, Types
  <2> QED BY <2>2, <2>3, <2>4
<1>3. CASE ~StopMeshes(i) /\ Controller(i)
  <2>1. /\ \E p : pc' = [pc EXCEPT ![i] = p]
        /\ outcome' = outcome \/ \E o : outcome' = [outcome EXCEPT ![i] = o]
        /\ endpoint' = endpoint \/ \E r, e : endpoint' = [endpoint EXCEPT ![i][r] = e]
        /\ worker' = worker \/ \E r \in Roles, state \in WorkerStates : SetWorker(i, r, state)
    BY <1>3 DEF Controller, Start, StartJob, Spawn, SpawnWorker, SpawnRaises, WaitForEndpoint,
       EndpointFound, Initialize, InitializeTooEarly, StepRaises, JobReturns, CancelCalls, CancelCall, CancelRaises,
       Roles, WorkerStates, GoTo
  <2>2. pc'[k] = pc[k] BY <1>0, <2>1 DEF Types
  <2>3. outcome'[k] = outcome[k] BY <1>0, <2>1 DEF Types
  <2>4. endpoint'[k] = endpoint[k] BY <1>0, <2>1 DEF Types
  <2>5. worker'[k] = worker[k] BY <1>0, <2>1 DEF SetWorker, Types
  <2> QED BY <2>2, <2>3, <2>4, <2>5
<1> QED BY <1>1, <1>2, <1>3

\* With an id of its own, a job never stops or cancels the workers of another one.
THEOREM OwnIdKeepsWorkersApart == Spec => OnlyOwnWorkersStopped
<1> DEFINE Apart == \A j, k \in Jobs :
                      HasOwnId(j) /\ j # k /\ pc'[j] # pc[j] => worker'[k] = worker[k]
<1>1. ASSUME IInv, [Next]_vars PROVE [Apart]_vars
  <2>1. ASSUME NEW i \in Jobs, Controller(i) \/ ControllerDies(i) PROVE Apart
    <3> SUFFICES ASSUME NEW j \in Jobs, NEW k \in Jobs, HasOwnId(j), j # k, pc'[j] # pc[j]
                 PROVE  worker'[k] = worker[k]
      OBVIOUS
    <3>1. j = i
      <4> SUFFICES ASSUME j # i PROVE FALSE OBVIOUS
      <4>1. pc'[j] = pc[j] BY <1>1, <2>1, ControllersKeepApart
      <4> QED BY <4>1
    <3> QED BY <1>1, <2>1, <3>1, ControllersKeepApart
  <2>2. ASSUME NEW i \in Jobs, NEW r \in Roles, Worker(i, r) PROVE Apart
    BY <2>2 DEF Worker, PublishEndpoint, WorkerListens, WorkerExits
  <2> QED BY <1>1, <2>1, <2>2 DEF Next
<1>2. IInv /\ [Next]_vars => [Apart]_vars BY <1>1
<1> QED BY InductiveInvariant, <1>2, PTL DEF Spec, OnlyOwnWorkersStopped

-----------------------------------------------------------------------------
(* Jobs that meet no fault                                                  *)

Undisturbed == {"idle", "running"} \cup Starting

\* While it has not come to its clean-up, a job without faults has workers that live, and
\* those it has found are its own and published.
HealthyJob(j) ==
  /\ pc[j] # "dead"
  /\ outcome[j] \in {"none", "ok", "unready"}
  /\ pc[j] \in Undisturbed => \A r \in Roles :
       /\ worker[j][r] # "exited"
       /\ endpoint[j][r] # NoJob => endpoint[j][r] = j /\ worker[j][r] \in {"ready", "serving"}
  /\ pc[j] \in {"wait_rollout", "initialize", "running"} => endpoint[j]["trainer"] # NoJob
  /\ pc[j] \in {"initialize", "running"} => endpoint[j]["rollout"] # NoJob

HealthyJobs == \A j \in Jobs \ Faulty : HasOwnId(j) => HealthyJob(j)

\* A step of its controller.
LEMMA HealthyController ==
  ASSUME IInv, NEW j \in Jobs \ Faulty, HasOwnId(j), HealthyJob(j), Controller(j)
  PROVE  HealthyJob(j)'
<1> USE DEF Types, GoTo, Roles, HealthyJob, Undisturbed, Starting, Stopping
<1>0. Types /\ EntriesAreOfTheirDeployment /\ NotYetSpawned /\ j \in Jobs BY DEF IInv
<1>1. CASE StartJob(j) BY <1>0, <1>1 DEF StartJob
<1>2. CASE Spawn(j)
  <2>1. PICK r \in Roles, next \in {"spawn_rollout", "wait_trainer"} :
          /\ pc[j] = (IF r = "trainer" THEN "spawn_trainer" ELSE "spawn_rollout")
          /\ pc' = [pc EXCEPT ![j] = next]
          /\ SetWorker(j, r, "called")
          /\ UNCHANGED <<outcome, endpoint>>
    BY <1>2 DEF Spawn, SpawnWorker, SpawnRaises
  <2>2. \A q \in Roles : worker'[j][q] = IF q = r THEN "called" ELSE worker[j][q]
    BY <1>0, <2>1, WorkerAfterSet, "called" \in WorkerStates DEF WorkerStates
  <2>3. worker[j][r] = "absent" BY <1>0, <2>1 DEF NotYetSpawned
  <2> QED BY <1>0, <2>1, <2>2, <2>3
<1>3. CASE WaitForEndpoint(j)
  <2>1. PICK r \in Roles, next \in {"wait_rollout", "initialize"} :
          /\ pc[j] = (IF r = "trainer" THEN "wait_trainer" ELSE "wait_rollout")
          /\ next = (IF r = "trainer" THEN "wait_rollout" ELSE "initialize")
          /\ registry[StorageKey(j, r)] # NoJob
          /\ endpoint' = [endpoint EXCEPT ![j][r] = registry[StorageKey(j, r)]]
          /\ pc' = [pc EXCEPT ![j] = next]
          /\ UNCHANGED <<outcome, worker>>
    BY <1>3 DEF WaitForEndpoint, EndpointFound
  <2> DEFINE k == registry[<<deployment[j], r>>]
  <2>2. k = j /\ worker[j][r] \in {"ready", "serving", "exited"}
    <3>1. deployment[j] \in Deployments BY <1>0 DEF Types
    <3>2. k # NoJob BY <2>1 DEF StorageKey
    <3>3. k \in Jobs BY <1>0, <3>1, <3>2
    <3>4. deployment[k] = deployment[j] /\ worker[k][r] \in {"ready", "serving", "exited"}
      <4> HIDE DEF Types
      <4>1. r \in Roles OBVIOUS
      <4> QED BY <1>0, <3>1, <3>2, <4>1 DEF EntriesAreOfTheirDeployment
    <3>5. k = j BY <3>3, <3>4 DEF HasOwnId
    <3> QED BY <3>4, <3>5
  <2>3. endpoint'[j] = [endpoint[j] EXCEPT ![r] = j]
    BY <1>0, <2>1, <2>2 DEF StorageKey
  <2>4. \A q \in Roles : endpoint'[j][q] = IF q = r THEN j ELSE endpoint[j][q]
    BY <1>0, <2>3
  <2>5. j # NoJob BY RuntimeAssumption
  <2> QED BY <1>0, <2>1, <2>2, <2>4, <2>5
<1>4. CASE Initialize(j) \/ InitializeTooEarly(j)
  BY <1>0, <1>4 DEF Initialize, InitializeTooEarly
\* Its own workers live, so nothing times out.
<1>5. CASE StepRaises(j)
  <2>1. pc[j] \in {"initialize", "running"} /\ AttachedIsGone(j) BY <1>5 DEF StepRaises
  <2> QED BY <2>1 DEF AttachedIsGone
<1>6. CASE JobReturns(j) BY <1>0, <1>6 DEF JobReturns
<1>7. CASE StopMeshes(j)
  <2>1. pc' = [pc EXCEPT ![j] = "cancel_trainer"] /\ outcome' = outcome BY <1>7 DEF StopMeshes
  <2> QED BY <1>0, <2>1
<1>8. CASE CancelCalls(j)
  <2>1. /\ \E p \in {"cancel_rollout", "ended"} : pc' = [pc EXCEPT ![j] = p]
        /\ outcome' = outcome
    BY <1>8 DEF CancelCalls, CancelCall, CancelRaises
  <2> QED BY <1>0, <2>1
<1> QED BY <1>1, <1>2, <1>3, <1>4, <1>5, <1>6, <1>7, <1>8 DEF Controller, Start

\* A step of one of its workers.
LEMMA HealthyWorker ==
  ASSUME IInv, NEW j \in Jobs \ Faulty, HealthyJob(j), NEW i \in Jobs, NEW r \in Roles, Worker(i, r)
  PROVE  HealthyJob(j)'
<1>0. Types BY DEF IInv
<1>1. UNCHANGED <<pc, outcome, endpoint>>
  BY DEF Worker, PublishEndpoint, WorkerListens, WorkerExits
<1>2. PICK state \in WorkerStates :
        /\ SetWorker(i, r, state)
        /\ i \in Faulty \/ (state = "ready" /\ worker[i][r] = "called")
             \/ (state = "serving" /\ worker[i][r] = "ready")
  BY DEF Worker, PublishEndpoint, WorkerListens, WorkerExits, WorkerStates
<1>3. \A q \in Roles : worker'[j][q] = IF j = i /\ q = r THEN state ELSE worker[j][q]
  BY <1>0, <1>2, WorkerAfterSet
<1> QED BY <1>1, <1>2, <1>3 DEF HealthyJob

LEMMA StepHealthy == ASSUME IInv, HealthyJobs, [Next]_vars PROVE HealthyJobs'
<1>a. UNCHANGED deployment
  BY DEF Next, vars, Controller, Start, StartJob, Spawn, SpawnWorker, SpawnRaises,
     WaitForEndpoint, EndpointFound, Initialize, InitializeTooEarly, StepRaises, JobReturns,
     StopMeshes, CancelCalls, CancelCall, CancelRaises, ControllerDies, Worker,
     PublishEndpoint, WorkerListens, WorkerExits
<1> SUFFICES ASSUME NEW j \in Jobs \ Faulty, HasOwnId(j) PROVE HealthyJob(j)'
  BY <1>a DEF HealthyJobs, HasOwnId
<1>0. HealthyJob(j) BY DEF HealthyJobs
<1>1. ASSUME NEW i \in Jobs, i # j, Controller(i) \/ ControllerDies(i) PROVE HealthyJob(j)'
  <2>1. pc'[j] = pc[j] /\ outcome'[j] = outcome[j] /\ endpoint'[j] = endpoint[j]
        /\ worker'[j] = worker[j]
    BY <1>1, ControllersKeepApart
  <2> QED BY <1>0, <2>1 DEF HealthyJob
<1>2. ASSUME Controller(j) PROVE HealthyJob(j)' BY <1>0, <1>2, HealthyController
<1>3. ~ControllerDies(j) BY DEF ControllerDies
<1>4. ASSUME NEW i \in Jobs, NEW r \in Roles, Worker(i, r) PROVE HealthyJob(j)'
  BY <1>0, <1>4, HealthyWorker
<1>5. CASE UNCHANGED vars BY <1>0, <1>5 DEF vars, HealthyJob
<1> QED BY <1>1, <1>2, <1>3, <1>4, <1>5 DEF Next

\* With an id of its own, a job that meets no fault of its own fails only for a worker that
\* listens too late, whatever other jobs do, however they fail and whatever they leave in the
\* registry.
THEOREM HealthyJobsFailOnlyUnready == Spec => []OnlyLateWorkersFailAJob
<1>1. Init => HealthyJobs
  <2> SUFFICES ASSUME Init, NEW j \in Jobs PROVE HealthyJob(j)
    BY DEF HealthyJobs
  <2>1. pc[j] = "idle" /\ outcome[j] = "none" BY DEF Init
  <2>2. \A r \in Roles : worker[j][r] = "absent" /\ endpoint[j][r] = NoJob BY DEF Init
  <2> QED BY <2>1, <2>2 DEF HealthyJob
<1>2. IInv /\ HealthyJobs /\ [Next]_vars => HealthyJobs' BY StepHealthy
<1>3. HealthyJobs => OnlyLateWorkersFailAJob BY DEF HealthyJobs, HealthyJob, OnlyLateWorkersFailAJob
<1> QED BY InductiveInvariant, <1>1, <1>2, <1>3, PTL DEF Spec
=============================================================================
