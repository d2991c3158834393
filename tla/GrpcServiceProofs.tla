-------------------------- MODULE GrpcServiceProofs --------------------------
(***************************************************************************)
(* Proofs about GrpcService and the mesh behind it, for any calls,          *)
(* requests, results and threads: what a stop leaves behind, that requests  *)
(* arrive as they were made, and that callers are told the truth.           *)
(***************************************************************************)
EXTENDS GrpcService, TLAPS

-----------------------------------------------------------------------------
(* The lists of calls, written out                                          *)

LEMMA LocalStartList ==
  /\ Len(LocalStart) = 9
  /\ LocalStart[1] = [do |-> "spawn_procs", on |-> "procs"]
  /\ \A i \in 2 .. 5 : LocalStart[i].do = "spawn" /\ LocalStart[i].on \in ActorNames
  /\ \A i \in 6 .. 9 : LocalStart[i].do = "initialized"
BY DEF LocalStart, Each, LocalActors, DistributedActors, ActorNames

LEMMA LocalStopList ==
  /\ Len(LocalStop) = 9
  /\ \A i \in 1 .. 8 : LocalStop[i].do \in {"shutdown", "stop"}
  /\ LocalStop[9] = [do |-> "stop_procs", on |-> "procs"]
BY DEF LocalStop, Each, LocalActors

LEMMA DistributedStartList ==
  /\ Len(DistributedStart) = 17
  /\ DistributedStart[1] = [do |-> "start_worker", on |-> "trainer"]
  /\ DistributedStart[2] = [do |-> "start_worker", on |-> "rollout"]
  /\ \A i \in 3 .. 4 : DistributedStart[i].do = "attach" /\ DistributedStart[i].on \in Roles
  /\ \A i \in 5 .. 7 :
       /\ DistributedStart[i].do = "spawn_procs"
       /\ DistributedStart[i].on \in ProcsNames \ {"procs"}
  /\ \A i \in 8 .. 12 :
       DistributedStart[i].do = "spawn" /\ DistributedStart[i].on \in ActorNames
  /\ \A i \in 13 .. 17 : DistributedStart[i].do = "initialized"
BY DEF DistributedStart, Each, DistributedActors, ActorNames, Roles, ProcsNames

LEMMA DistributedStopList ==
  /\ Len(DistributedStop) = 20
  /\ \A i \in 1 .. 10 : DistributedStop[i].do \in {"shutdown", "stop"}
  /\ \A i \in 11 .. 13 : DistributedStop[i].do = "stop_procs"
  /\ \A i \in 14 .. 15 : DistributedStop[i].do = "stop_hosts"
  /\ \A i \in 16 .. 17 : DistributedStop[i].do = "terminate"
  /\ DistributedStop[18] = [do |-> "wait", on |-> "trainer"]
  /\ DistributedStop[19] = [do |-> "wait", on |-> "rollout"]
  /\ DistributedStop[20] = [do |-> "rmtree", on |-> "none"]
BY DEF DistributedStop, Each

-----------------------------------------------------------------------------
(* The inductive invariant of a mesh                                        *)

StepIsOfTheList == Busy => step \in 1 .. Len(Calls)

\* An actor is on processes that run, and these are with a worker that runs.
ActorsHaveProcs == \A a \in actors : ProcsOf(a) \in procs
ProcsHaveWorkers ==
  \A p \in procs : RoleOf(p) \in Roles => worker[RoleOf(p)] \in {"running", "signalled"}

ProcsAreOfTheTopology ==
  /\ topology = "local" => procs \subseteq {"procs"}
  /\ topology = "distributed" => "procs" \notin procs

\* How many calls of its list a mesh is past, where it matters: the two workers are
\* started first, and they are waited for last.
HasStarted(calls) ==
  \/ mesh = "starting" /\ step > calls
  \/ mesh \in {"started", "stopping", "stopped", "stop_failed"}

WorkersCameFirst ==
  topology = "distributed" =>
    /\ HasStarted(1) => worker["trainer"] # "absent"
    /\ HasStarted(2) => worker["rollout"] # "absent"

WorkersWereWaitedFor ==
  topology = "distributed" /\ mesh = "stopping" =>
    /\ step > 18 => worker["trainer"] = "exited"
    /\ step > 19 => worker["rollout"] = "exited"

MInv ==
  /\ MeshTypeOK
  /\ StepIsOfTheList
  /\ ActorsHaveProcs
  /\ ProcsHaveWorkers
  /\ ProcsAreOfTheTopology
  /\ WorkersCameFirst
  /\ WorkersWereWaitedFor
  /\ CleanupIsComplete

\* What call comes next, and on what.
LEMMA NextCall ==
  ASSUME MInv, Busy
  PROVE  /\ Now("start_worker") =>
              /\ topology = "distributed" /\ mesh = "starting"
              /\ (step = 1 /\ On = "trainer") \/ (step = 2 /\ On = "rollout")
         /\ Now("attach") =>
              topology = "distributed" /\ mesh = "starting" /\ step \in 3 .. 4 /\ On \in Roles
         /\ Now("spawn_procs") =>
              /\ mesh = "starting"
              /\ topology = "local" => step = 1 /\ On = "procs"
              /\ topology = "distributed" => step \in 5 .. 7 /\ On \in ProcsNames \ {"procs"}
         /\ Now("spawn") =>
              /\ mesh = "starting" /\ On \in ActorNames
              /\ topology = "local" => step \in 2 .. 5
              /\ topology = "distributed" => step \in 8 .. 12
         /\ Now("initialized") =>
              /\ mesh = "starting"
              /\ topology = "distributed" => step \in 13 .. 17
         /\ Now("shutdown") \/ Now("stop") =>
              /\ mesh = "stopping"
              /\ topology = "local" => step \in 1 .. 8
              /\ topology = "distributed" => step \in 1 .. 10
         /\ Now("stop_procs") =>
              /\ mesh = "stopping"
              /\ topology = "local" => step = 9 /\ On = "procs"
              /\ topology = "distributed" => step \in 11 .. 13
         /\ Now("stop_hosts") =>
              topology = "distributed" /\ mesh = "stopping" /\ step \in 14 .. 15
         /\ Now("terminate") =>
              topology = "distributed" /\ mesh = "stopping" /\ step \in 16 .. 17
         /\ Now("wait") =>
              /\ topology = "distributed" /\ mesh = "stopping"
              /\ (step = 18 /\ On = "trainer") \/ (step = 19 /\ On = "rollout")
         /\ Now("rmtree") =>
              topology = "distributed" /\ mesh = "stopping" /\ step = 20
<1>1. CASE mesh = "starting" /\ topology = "local"
  <2>0. Calls = LocalStart /\ step \in 1 .. 9
    BY <1>1, LocalStartList DEF MInv, StepIsOfTheList, Calls, Busy
  <2>1. CASE step = 1
    BY <1>1, <2>0, <2>1, LocalStartList DEF Now, On
  <2>2. CASE step \in 2 .. 5
    BY <1>1, <2>0, <2>2, LocalStartList DEF Now, On
  <2>3. CASE step \in 6 .. 9
    BY <1>1, <2>0, <2>3, LocalStartList DEF Now, On
  <2> QED BY <2>0, <2>1, <2>2, <2>3
<1>2. CASE mesh = "starting" /\ topology = "distributed"
  <2>0. Calls = DistributedStart /\ step \in 1 .. 17
    BY <1>2, DistributedStartList DEF MInv, StepIsOfTheList, Calls, Busy
  <2>1. CASE step = 1
    BY <1>2, <2>0, <2>1, DistributedStartList DEF Now, On
  <2>2. CASE step = 2
    BY <1>2, <2>0, <2>2, DistributedStartList DEF Now, On
  <2>3. CASE step \in 3 .. 4
    BY <1>2, <2>0, <2>3, DistributedStartList DEF Now, On
  <2>4. CASE step \in 5 .. 7
    BY <1>2, <2>0, <2>4, DistributedStartList DEF Now, On
  <2>5. CASE step \in 8 .. 12
    BY <1>2, <2>0, <2>5, DistributedStartList DEF Now, On
  <2>6. CASE step \in 13 .. 17
    BY <1>2, <2>0, <2>6, DistributedStartList DEF Now, On
  <2> QED BY <2>0, <2>1, <2>2, <2>3, <2>4, <2>5, <2>6
<1>3. CASE mesh = "stopping" /\ topology = "local"
  <2>0. Calls = LocalStop /\ step \in 1 .. 9
    BY <1>3, LocalStopList DEF MInv, StepIsOfTheList, Calls, Busy
  <2>1. CASE step \in 1 .. 8
    BY <1>3, <2>0, <2>1, LocalStopList DEF Now, On
  <2>2. CASE step = 9
    BY <1>3, <2>0, <2>2, LocalStopList DEF Now, On
  <2> QED BY <2>0, <2>1, <2>2
<1>4. CASE mesh = "stopping" /\ topology = "distributed"
  <2>0. Calls = DistributedStop /\ step \in 1 .. 20
    BY <1>4, DistributedStopList DEF MInv, StepIsOfTheList, Calls, Busy
  <2>1. CASE step \in 1 .. 10
    BY <1>4, <2>0, <2>1, DistributedStopList DEF Now, On
  <2>2. CASE step \in 11 .. 13
    BY <1>4, <2>0, <2>2, DistributedStopList DEF Now, On
  <2>3. CASE step \in 14 .. 15
    BY <1>4, <2>0, <2>3, DistributedStopList DEF Now, On
  <2>4. CASE step \in 16 .. 17
    BY <1>4, <2>0, <2>4, DistributedStopList DEF Now, On
  <2>5. CASE step = 18
    BY <1>4, <2>0, <2>5, DistributedStopList DEF Now, On
  <2>6. CASE step = 19
    BY <1>4, <2>0, <2>6, DistributedStopList DEF Now, On
  <2>7. CASE step = 20
    BY <1>4, <2>0, <2>7, DistributedStopList DEF Now, On
  <2> QED BY <2>0, <2>1, <2>2, <2>3, <2>4, <2>5, <2>6, <2>7
<1> QED BY <1>1, <1>2, <1>3, <1>4 DEF MInv, MeshTypeOK, Busy

\* A call that ends is followed by the next of the list, or was the last.
LEMMA Advances ==
  ASSUME MInv, Busy, Advance
  PROVE  /\ topology' = topology /\ stops' = stops
         /\ step' = step + 1 /\ step \in Nat
         /\ StepIsOfTheList'
         /\ topology' \in {"local", "distributed"} /\ mesh' \in Meshes
         /\ step' \in Nat /\ stops' \in 0 .. MaxStops
         /\ \/ mesh' = mesh
            \/ mesh = "starting" /\ mesh' = "started"
               /\ step = (IF topology = "local" THEN 9 ELSE 17)
            \/ mesh = "stopping" /\ mesh' = "stopped"
               /\ step = (IF topology = "local" THEN 9 ELSE 20)
<1>1. step \in 1 .. Len(Calls) /\ Len(Calls) \in Nat
  BY LocalStartList, DistributedStartList, LocalStopList, DistributedStopList
  DEF MInv, StepIsOfTheList, Calls
<1>2. mesh' = mesh /\ topology' = topology => Len(Calls)' = Len(Calls)
  BY DEF Calls
<1>3. Len(Calls) = IF topology = "local" THEN 9 ELSE IF mesh = "starting" THEN 17 ELSE 20
  BY LocalStartList, DistributedStartList, LocalStopList, DistributedStopList DEF Calls
<1>4. /\ topology' = topology /\ stops' = stops /\ step' = step + 1
      /\ mesh' \in Meshes
  BY DEF Advance, Meshes, MInv, MeshTypeOK
<1>5. CASE step < Len(Calls)
  <2>1. mesh' = mesh
    BY <1>5 DEF Advance
  <2>2. step' \in 1 .. Len(Calls)'
    BY <1>1, <1>2, <1>4, <1>5, <2>1
  <2> QED BY <1>1, <1>4, <2>1, <2>2 DEF StepIsOfTheList, MInv, MeshTypeOK
<1>6. CASE step = Len(Calls)
  <2>1. mesh' = IF mesh = "starting" THEN "started" ELSE "stopped"
    BY <1>1, <1>6 DEF Advance
  <2>2. StepIsOfTheList'
    BY <2>1 DEF StepIsOfTheList, Busy
  <2> QED BY <1>1, <1>3, <1>4, <1>6, <2>1, <2>2 DEF Busy, MInv, MeshTypeOK
<1> QED BY <1>1, <1>5, <1>6

\* What is with a worker dies with it, and nothing that was right is wrong afterwards.
LEMMA DiesKeeps ==
  ASSUME MInv, NEW r \in Roles, worker[r] \in {"running", "signalled"}, Dies(r),
         topology' = topology
  PROVE  /\ ActorsHaveProcs' /\ ProcsHaveWorkers' /\ ProcsAreOfTheTopology'
         /\ actors' \subseteq actors /\ procs' \subseteq procs
         /\ worker' = [worker EXCEPT ![r] = "exited"]
         /\ hosts' = hosts /\ tmpdir' = tmpdir
<1>1. /\ procs' = procs \ {p \in procs : RoleOf(p) = r}
      /\ actors' = {a \in actors : ProcsOf(a) \notin {p \in procs : RoleOf(p) = r}}
      /\ worker' = [worker EXCEPT ![r] = "exited"]
      /\ hosts' = hosts /\ tmpdir' = tmpdir
  BY DEF Dies
<1>2. \A a : ProcsOf(a)' = ProcsOf(a)
  BY DEF ProcsOf
<1>3. ActorsHaveProcs'
  BY <1>1, <1>2 DEF MInv, ActorsHaveProcs
<1>4. ProcsHaveWorkers'
  BY <1>1 DEF MInv, ProcsHaveWorkers, MeshTypeOK
<1> QED BY <1>1, <1>3, <1>4 DEF MInv, ProcsAreOfTheTopology

\* One call of the list returns, or raises and is passed over.
LEMMA ReturnKeeps == ASSUME MInv, MeshReturns PROVE MInv'
<1>1. CASE StartWorker
  <2>0. Busy /\ Advance
    BY <1>1 DEF StartWorker, Now
  <2>1. MeshTypeOK'
    BY <1>1, <2>0, NextCall, Advances DEF StartWorker, MInv, MeshTypeOK
  <2>2. ActorsHaveProcs' /\ ProcsHaveWorkers' /\ ProcsAreOfTheTopology'
    BY <1>1, <2>0, NextCall, Advances
    DEF StartWorker, MInv, MeshTypeOK, ActorsHaveProcs, ProcsHaveWorkers,
        ProcsAreOfTheTopology, ProcsOf, RoleOf, Roles
  <2>3. WorkersCameFirst' /\ WorkersWereWaitedFor'
    BY <1>1, <2>0, NextCall, Advances
    DEF StartWorker, MInv, MeshTypeOK, WorkersCameFirst, WorkersWereWaitedFor, HasStarted,
        Roles, Busy
  <2>4. CleanupIsComplete'
    BY <1>1, <2>0, <2>2, NextCall, Advances
    DEF StartWorker, MInv, MeshTypeOK, CleanupIsComplete, WorkersWereWaitedFor, Roles, Busy
  <2> QED BY <2>0, <2>1, <2>2, <2>3, <2>4, Advances DEF MInv
<1>2. CASE Attach
  <2>0. Busy /\ Advance
    BY <1>2 DEF Attach, Now
  <2>1. MeshTypeOK'
    BY <1>2, <2>0, NextCall, Advances DEF Attach, MInv, MeshTypeOK
  <2>2. ActorsHaveProcs' /\ ProcsHaveWorkers' /\ ProcsAreOfTheTopology'
    BY <1>2, <2>0, NextCall, Advances
    DEF Attach, MInv, MeshTypeOK, ActorsHaveProcs, ProcsHaveWorkers,
        ProcsAreOfTheTopology, ProcsOf, RoleOf, Roles
  <2>3. WorkersCameFirst' /\ WorkersWereWaitedFor'
    BY <1>2, <2>0, NextCall, Advances
    DEF Attach, MInv, MeshTypeOK, WorkersCameFirst, WorkersWereWaitedFor, HasStarted,
        Roles, Busy
  <2>4. CleanupIsComplete'
    BY <1>2, <2>0, <2>2, NextCall, Advances
    DEF Attach, MInv, MeshTypeOK, CleanupIsComplete, WorkersWereWaitedFor, Roles, Busy
  <2> QED BY <2>0, <2>1, <2>2, <2>3, <2>4, Advances DEF MInv
<1>3. CASE SpawnProcs
  <2>0. Busy /\ Advance
    BY <1>3 DEF SpawnProcs, Now
  <2>1. MeshTypeOK'
    <3>1. On \in ProcsNames
      BY <1>3, <2>0, NextCall DEF SpawnProcs, MInv, MeshTypeOK, ProcsNames
    <3> QED BY <1>3, <2>0, <3>1, Advances DEF SpawnProcs, MInv, MeshTypeOK
  <2>2. ActorsHaveProcs' /\ ProcsHaveWorkers' /\ ProcsAreOfTheTopology'
    BY <1>3, <2>0, NextCall, Advances
    DEF SpawnProcs, MInv, MeshTypeOK, ActorsHaveProcs, ProcsHaveWorkers,
        ProcsAreOfTheTopology, ProcsOf, RoleOf, Roles
  <2>3. WorkersCameFirst' /\ WorkersWereWaitedFor'
    BY <1>3, <2>0, NextCall, Advances
    DEF SpawnProcs, MInv, MeshTypeOK, WorkersCameFirst, WorkersWereWaitedFor, HasStarted,
        Roles, Busy
  <2>4. CleanupIsComplete'
    BY <1>3, <2>0, <2>2, NextCall, Advances
    DEF SpawnProcs, MInv, MeshTypeOK, CleanupIsComplete, WorkersWereWaitedFor, Roles, Busy
  <2> QED BY <2>0, <2>1, <2>2, <2>3, <2>4, Advances DEF MInv
<1>4. CASE Spawn
  <2>0. Busy /\ Advance
    BY <1>4 DEF Spawn, Now
  <2>1. MeshTypeOK'
    BY <1>4, <2>0, NextCall, Advances DEF Spawn, MInv, MeshTypeOK
  <2>2. ActorsHaveProcs' /\ ProcsHaveWorkers' /\ ProcsAreOfTheTopology'
    BY <1>4, <2>0, NextCall, Advances
    DEF Spawn, MInv, MeshTypeOK, ActorsHaveProcs, ProcsHaveWorkers,
        ProcsAreOfTheTopology, ProcsOf, RoleOf, Roles
  <2>3. WorkersCameFirst' /\ WorkersWereWaitedFor'
    BY <1>4, <2>0, NextCall, Advances
    DEF Spawn, MInv, MeshTypeOK, WorkersCameFirst, WorkersWereWaitedFor, HasStarted,
        Roles, Busy
  <2>4. CleanupIsComplete'
    BY <1>4, <2>0, <2>2, NextCall, Advances
    DEF Spawn, MInv, MeshTypeOK, CleanupIsComplete, WorkersWereWaitedFor, Roles, Busy
  <2> QED BY <2>0, <2>1, <2>2, <2>3, <2>4, Advances DEF MInv
<1>5. CASE Answers
  <2>0. Busy /\ Advance
    BY <1>5 DEF Answers, Now
  <2>1. MeshTypeOK'
    BY <1>5, <2>0, NextCall, Advances DEF Answers, MInv, MeshTypeOK
  <2>2. ActorsHaveProcs' /\ ProcsHaveWorkers' /\ ProcsAreOfTheTopology'
    BY <1>5, <2>0, NextCall, Advances
    DEF Answers, MInv, MeshTypeOK, ActorsHaveProcs, ProcsHaveWorkers,
        ProcsAreOfTheTopology, ProcsOf, RoleOf, Roles
  <2>3. WorkersCameFirst' /\ WorkersWereWaitedFor'
    BY <1>5, <2>0, NextCall, Advances
    DEF Answers, MInv, MeshTypeOK, WorkersCameFirst, WorkersWereWaitedFor, HasStarted,
        Roles, Busy
  <2>4. CleanupIsComplete'
    BY <1>5, <2>0, <2>2, NextCall, Advances
    DEF Answers, MInv, MeshTypeOK, CleanupIsComplete, WorkersWereWaitedFor, Roles, Busy
  <2> QED BY <2>0, <2>1, <2>2, <2>3, <2>4, Advances DEF MInv
<1>6. CASE StopActor
  <2>0. Busy /\ Advance
    BY <1>6 DEF StopActor, Now
  <2>1. MeshTypeOK'
    BY <1>6, <2>0, NextCall, Advances DEF StopActor, MInv, MeshTypeOK
  <2>2. ActorsHaveProcs' /\ ProcsHaveWorkers' /\ ProcsAreOfTheTopology'
    BY <1>6, <2>0, NextCall, Advances
    DEF StopActor, MInv, MeshTypeOK, ActorsHaveProcs, ProcsHaveWorkers,
        ProcsAreOfTheTopology, ProcsOf, RoleOf, Roles
  <2>3. WorkersCameFirst' /\ WorkersWereWaitedFor'
    BY <1>6, <2>0, NextCall, Advances
    DEF StopActor, MInv, MeshTypeOK, WorkersCameFirst, WorkersWereWaitedFor, HasStarted,
        Roles, Busy
  <2>4. CleanupIsComplete'
    BY <1>6, <2>0, <2>2, NextCall, Advances
    DEF StopActor, MInv, MeshTypeOK, CleanupIsComplete, WorkersWereWaitedFor, Roles, Busy
  <2> QED BY <2>0, <2>1, <2>2, <2>3, <2>4, Advances DEF MInv
<1>7. CASE StopProcs
  <2>0. Busy /\ Advance
    BY <1>7 DEF StopProcs, Now
  <2>1. MeshTypeOK'
    BY <1>7, <2>0, NextCall, Advances DEF StopProcs, MInv, MeshTypeOK
  <2>2. ActorsHaveProcs' /\ ProcsHaveWorkers' /\ ProcsAreOfTheTopology'
    BY <1>7, <2>0, NextCall, Advances
    DEF StopProcs, MInv, MeshTypeOK, ActorsHaveProcs, ProcsHaveWorkers,
        ProcsAreOfTheTopology, ProcsOf, RoleOf, Roles
  <2>3. WorkersCameFirst' /\ WorkersWereWaitedFor'
    BY <1>7, <2>0, NextCall, Advances
    DEF StopProcs, MInv, MeshTypeOK, WorkersCameFirst, WorkersWereWaitedFor, HasStarted,
        Roles, Busy
  <2>4. CleanupIsComplete'
    <3>1. /\ mesh = "stopping" /\ topology' = topology
          /\ topology = "local" => On = "procs"
          /\ topology = "distributed" => mesh' = "stopping"
          /\ mesh' \in {"stopping", "stopped"}
      BY <1>7, <2>0, NextCall, Advances DEF StopProcs
    <3>2. topology = "local" => procs' = {}
      BY <1>7, <3>1 DEF StopProcs, MInv, ProcsAreOfTheTopology
    <3>3. topology = "local" => actors' = {}
      BY <2>2, <3>2 DEF ActorsHaveProcs
    <3> QED BY <3>1, <3>2, <3>3 DEF CleanupIsComplete
  <2> QED BY <2>0, <2>1, <2>2, <2>3, <2>4, Advances DEF MInv
<1>8. CASE StopHosts
  <2>0. Busy /\ Advance
    BY <1>8 DEF StopHosts, Now
  <2>1. MeshTypeOK'
    BY <1>8, <2>0, NextCall, Advances DEF StopHosts, MInv, MeshTypeOK
  <2>2. ActorsHaveProcs' /\ ProcsHaveWorkers' /\ ProcsAreOfTheTopology'
    BY <1>8, <2>0, NextCall, Advances
    DEF StopHosts, MInv, MeshTypeOK, ActorsHaveProcs, ProcsHaveWorkers,
        ProcsAreOfTheTopology, ProcsOf, RoleOf, Roles
  <2>3. WorkersCameFirst' /\ WorkersWereWaitedFor'
    BY <1>8, <2>0, NextCall, Advances
    DEF StopHosts, MInv, MeshTypeOK, WorkersCameFirst, WorkersWereWaitedFor, HasStarted,
        Roles, Busy
  <2>4. CleanupIsComplete'
    BY <1>8, <2>0, <2>2, NextCall, Advances
    DEF StopHosts, MInv, MeshTypeOK, CleanupIsComplete, WorkersWereWaitedFor, Roles, Busy
  <2> QED BY <2>0, <2>1, <2>2, <2>3, <2>4, Advances DEF MInv
<1>9. CASE Terminate
  <2>0. Busy /\ Advance
    BY <1>9 DEF Terminate, Now
  <2>1. MeshTypeOK'
    BY <1>9, <2>0, NextCall, Advances DEF Terminate, Signalled, MInv, MeshTypeOK
  <2>2. ActorsHaveProcs' /\ ProcsHaveWorkers' /\ ProcsAreOfTheTopology'
    BY <1>9, <2>0, NextCall, Advances
    DEF Terminate, Signalled, MInv, MeshTypeOK, ActorsHaveProcs, ProcsHaveWorkers,
        ProcsAreOfTheTopology, ProcsOf, RoleOf, Roles
  <2>3. WorkersCameFirst' /\ WorkersWereWaitedFor'
    BY <1>9, <2>0, NextCall, Advances
    DEF Terminate, Signalled, MInv, MeshTypeOK, WorkersCameFirst, WorkersWereWaitedFor,
        HasStarted, Roles, Busy
  <2>4. CleanupIsComplete'
    BY <1>9, <2>0, <2>2, NextCall, Advances
    DEF Terminate, Signalled, MInv, MeshTypeOK, CleanupIsComplete, WorkersWereWaitedFor,
        Roles, Busy
  <2> QED BY <2>0, <2>1, <2>2, <2>3, <2>4, Advances DEF MInv
<1>10. CASE Wait
  <2>0. Busy /\ Advance /\ topology' = topology /\ Now("wait")
    BY <1>10, Advances DEF Wait, Now
  <2>1. /\ topology = "distributed" /\ mesh = "stopping" /\ On \in Roles
        /\ (step = 18 /\ On = "trainer") \/ (step = 19 /\ On = "rollout")
    BY <2>0, NextCall DEF Roles
  <2>2. mesh' = "stopping" /\ step' = step + 1
    BY <2>0, <2>1, Advances
  <2>3. /\ ActorsHaveProcs' /\ ProcsHaveWorkers' /\ ProcsAreOfTheTopology'
        /\ actors' \subseteq actors /\ procs' \subseteq procs
        /\ \/ worker' = [worker EXCEPT ![On] = "exited"]
           \/ worker' = worker /\ worker[On] \in {"absent", "exited"}
        /\ hosts' = hosts /\ tmpdir' = tmpdir
    <3>1. CASE worker[On] \in {"running", "signalled"}
      BY <1>10, <2>0, <2>1, <3>1, DiesKeeps DEF Wait
    <3>2. CASE worker[On] \notin {"running", "signalled"}
      <4>1. UNCHANGED <<actors, procs, hosts, worker, tmpdir>>
        BY <1>10, <3>2 DEF Wait
      <4>2. worker[On] \in {"absent", "exited"}
        BY <2>1, <3>2 DEF MInv, MeshTypeOK
      <4>3. ActorsHaveProcs' /\ ProcsHaveWorkers' /\ ProcsAreOfTheTopology'
        BY <2>0, <4>1
        DEF MInv, ActorsHaveProcs, ProcsHaveWorkers, ProcsAreOfTheTopology, ProcsOf
      <4> QED BY <4>1, <4>2, <4>3
    <3> QED BY <3>1, <3>2
  <2>4. worker[On] # "absent" /\ worker'[On] = "exited"
    BY <2>1, <2>3 DEF MInv, MeshTypeOK, WorkersCameFirst, HasStarted
  <2>5. \A r \in Roles : r # On => worker'[r] = worker[r]
    BY <2>3 DEF MInv, MeshTypeOK
  <2>6. MeshTypeOK'
    <3>1. worker' \in [Roles -> {"absent", "running", "signalled", "exited"}]
      BY <2>3 DEF MInv, MeshTypeOK
    <3> QED BY <2>0, <2>3, <3>1, Advances DEF MInv, MeshTypeOK
  <2>7. WorkersCameFirst' /\ WorkersWereWaitedFor'
    BY <2>0, <2>1, <2>2, <2>4, <2>5
    DEF MInv, WorkersCameFirst, WorkersWereWaitedFor, HasStarted, Roles
  <2>8. CleanupIsComplete'
    BY <2>2 DEF CleanupIsComplete
  <2> QED BY <2>0, <2>3, <2>6, <2>7, <2>8, Advances DEF MInv
<1>11. CASE RemoveTmpdir
  <2>0. Busy /\ Advance
    BY <1>11 DEF RemoveTmpdir, Now
  <2>1. MeshTypeOK'
    BY <1>11, <2>0, NextCall, Advances DEF RemoveTmpdir, MInv, MeshTypeOK
  <2>2. ActorsHaveProcs' /\ ProcsHaveWorkers' /\ ProcsAreOfTheTopology'
    BY <1>11, <2>0, NextCall, Advances
    DEF RemoveTmpdir, MInv, MeshTypeOK, ActorsHaveProcs, ProcsHaveWorkers,
        ProcsAreOfTheTopology, ProcsOf, RoleOf, Roles
  <2>3. WorkersCameFirst' /\ WorkersWereWaitedFor'
    BY <1>11, <2>0, NextCall, Advances
    DEF RemoveTmpdir, MInv, MeshTypeOK, WorkersCameFirst, WorkersWereWaitedFor, HasStarted,
        Roles, Busy
  <2>4. CleanupIsComplete'
    <3>1. /\ mesh = "stopping" /\ topology = "distributed" /\ step = 20
          /\ topology' = topology /\ mesh' \in {"stopping", "stopped"}
      BY <1>11, <2>0, NextCall, Advances DEF RemoveTmpdir
    <3>2. \A r \in Roles : worker'[r] = "exited"
      BY <1>11, <3>1 DEF RemoveTmpdir, MInv, WorkersWereWaitedFor, Roles
    <3>3. procs' \subseteq {"controller_procs"}
      BY <2>1, <2>2, <3>1, <3>2
      DEF ProcsHaveWorkers, ProcsAreOfTheTopology, MeshTypeOK, ProcsNames, RoleOf, Roles
    <3>4. \A a \in actors' : ProcsOf(a)' = "controller_procs"
      BY <2>2, <3>3 DEF ActorsHaveProcs
    <3>5. ~tmpdir'
      BY <1>11 DEF RemoveTmpdir
    <3> QED BY <3>1, <3>2, <3>3, <3>4, <3>5 DEF CleanupIsComplete
  <2> QED BY <2>0, <2>1, <2>2, <2>3, <2>4, Advances DEF MInv
<1> QED BY <1>1, <1>2, <1>3, <1>4, <1>5, <1>6, <1>7, <1>8, <1>9, <1>10, <1>11 DEF MeshReturns

\* A call that times out may have stopped its actor.
LEMMA HappensKeeps ==
  ASSUME MInv, Happens, UNCHANGED <<topology, hosts, worker, tmpdir>>
  PROVE  /\ ActorsHaveProcs' /\ ProcsHaveWorkers' /\ ProcsAreOfTheTopology'
         /\ actors' \subseteq actors /\ procs' = procs
<1>1. actors' \subseteq actors /\ procs' = procs
  BY DEF Happens
<1>2. \A a : ProcsOf(a)' = ProcsOf(a)
  BY DEF ProcsOf
<1> QED BY <1>1, <1>2
      DEF MInv, ActorsHaveProcs, ProcsHaveWorkers, ProcsAreOfTheTopology

LEMMA RaiseKeeps == ASSUME MInv, MeshRaises PROVE MInv'
<1>1. CASE StartFails
  <2>1. /\ MeshTypeOK'
        /\ \A r \in Roles : /\ worker'[r] # "running"
                            /\ worker[r] \in {"running", "signalled"} =>
                                 worker'[r] \in {"running", "signalled"}
    BY <1>1 DEF StartFails, Signalled, MInv, MeshTypeOK, Meshes
  <2>2. ActorsHaveProcs' /\ ProcsHaveWorkers' /\ ProcsAreOfTheTopology'
    BY <1>1, <2>1
    DEF StartFails, MInv, ActorsHaveProcs, ProcsHaveWorkers, ProcsAreOfTheTopology, ProcsOf
  <2>3. StepIsOfTheList' /\ WorkersCameFirst' /\ WorkersWereWaitedFor'
    BY <1>1 DEF StartFails, StepIsOfTheList, Busy, WorkersCameFirst, WorkersWereWaitedFor,
                HasStarted
  <2>4. CleanupIsComplete'
    BY <1>1, <2>1 DEF StartFails, CleanupIsComplete
  <2> QED BY <2>1, <2>2, <2>3, <2>4 DEF MInv
<1>2. CASE LocalStopFails
  <2>1. /\ ActorsHaveProcs' /\ ProcsHaveWorkers' /\ ProcsAreOfTheTopology'
        /\ actors' \subseteq actors /\ procs' = procs
    BY <1>2, HappensKeeps DEF LocalStopFails
  <2>2. MeshTypeOK'
    BY <1>2, <2>1 DEF LocalStopFails, MInv, MeshTypeOK, Meshes
  <2>3. StepIsOfTheList' /\ WorkersCameFirst' /\ WorkersWereWaitedFor' /\ CleanupIsComplete'
    BY <1>2 DEF LocalStopFails, StepIsOfTheList, Busy, WorkersCameFirst, WorkersWereWaitedFor,
                CleanupIsComplete
  <2> QED BY <2>1, <2>2, <2>3 DEF MInv
<1>3. CASE CallSkipped
  <2>1. Busy /\ Advance /\ topology' = topology /\ topology = "distributed"
    BY <1>3, Advances DEF CallSkipped, Busy
  <2>2. step \in 1 .. 15 /\ mesh = "stopping"
    BY <1>3, <2>1, NextCall DEF CallSkipped, Raising, Now
  <2>3. mesh' = "stopping" /\ step' = step + 1
    BY <2>1, <2>2, Advances
  <2>4. /\ ActorsHaveProcs' /\ ProcsHaveWorkers' /\ ProcsAreOfTheTopology'
        /\ actors' \subseteq actors /\ procs' = procs
    BY <1>3, <2>1, HappensKeeps DEF CallSkipped
  <2>5. MeshTypeOK' /\ StepIsOfTheList'
    BY <1>3, <2>1, <2>4, Advances DEF CallSkipped, MInv, MeshTypeOK
  <2>6. WorkersCameFirst' /\ WorkersWereWaitedFor' /\ CleanupIsComplete'
    BY <1>3, <2>2, <2>3 DEF CallSkipped, MInv, WorkersCameFirst, WorkersWereWaitedFor,
                           HasStarted, CleanupIsComplete
  <2> QED BY <2>4, <2>5, <2>6 DEF MInv
<1> QED BY <1>1, <1>2, <1>3 DEF MeshRaises

LEMMA StopKeeps == ASSUME MInv, BeginMeshStop PROVE MInv'
<1>1. MeshTypeOK'
  BY MaxStopsAssumption DEF BeginMeshStop, MInv, MeshTypeOK, Meshes
<1>2. StepIsOfTheList'
  <2>1. Len(Calls)' \in {9, 20} /\ step' = 1
    BY LocalStopList, DistributedStopList DEF BeginMeshStop, Calls
  <2> QED BY <2>1 DEF StepIsOfTheList
<1>3. ActorsHaveProcs' /\ ProcsHaveWorkers' /\ ProcsAreOfTheTopology'
  BY DEF BeginMeshStop, MInv, ActorsHaveProcs, ProcsHaveWorkers, ProcsAreOfTheTopology, ProcsOf
<1>4. WorkersCameFirst' /\ WorkersWereWaitedFor' /\ CleanupIsComplete'
  BY DEF BeginMeshStop, MInv, WorkersCameFirst, WorkersWereWaitedFor, HasStarted,
         CleanupIsComplete
<1> QED BY <1>1, <1>2, <1>3, <1>4 DEF MInv

LEMMA ExitKeeps == ASSUME MInv, NEW r \in Roles, WorkerExits(r) PROVE MInv'
<1>1. /\ ActorsHaveProcs' /\ ProcsHaveWorkers' /\ ProcsAreOfTheTopology'
      /\ actors' \subseteq actors /\ procs' \subseteq procs
      /\ worker' = [worker EXCEPT ![r] = "exited"]
      /\ UNCHANGED <<topology, mesh, step, stops, hosts, tmpdir>>
  BY DiesKeeps DEF WorkerExits
<1>2. MeshTypeOK' /\ StepIsOfTheList'
  BY <1>1 DEF MInv, MeshTypeOK, StepIsOfTheList, Busy, Calls
<1>3. WorkersCameFirst' /\ WorkersWereWaitedFor'
  BY <1>1 DEF MInv, MeshTypeOK, WorkersCameFirst, WorkersWereWaitedFor, HasStarted, Roles
<1>4. CleanupIsComplete'
  <2>1. \A a : ProcsOf(a)' = ProcsOf(a)
    BY <1>1 DEF ProcsOf
  <2>2. \A x \in Roles : /\ worker[x] = "exited" => worker'[x] = "exited"
                        /\ worker'[x] = "running" => worker[x] = "running"
    BY <1>1 DEF MInv, MeshTypeOK
  <2> QED BY <1>1, <2>1, <2>2 DEF MInv, CleanupIsComplete
<1> QED BY <1>1, <1>2, <1>3, <1>4 DEF MInv

\* What may happen to the mesh.
MeshStep ==
  MeshMoves \/ (\E r \in Roles : WorkerExits(r)) \/ BeginMeshStop \/ UNCHANGED meshVars

LEMMA MeshStepKeeps == ASSUME MInv, MeshStep PROVE MInv'
<1>1. CASE UNCHANGED meshVars
  <2> USE <1>1 DEF meshVars
  <2>1. MeshTypeOK' /\ StepIsOfTheList'
    BY DEF MInv, MeshTypeOK, StepIsOfTheList, Busy, Calls
  <2>2. ActorsHaveProcs' /\ ProcsHaveWorkers' /\ ProcsAreOfTheTopology'
    BY DEF MInv, ActorsHaveProcs, ProcsHaveWorkers, ProcsAreOfTheTopology, ProcsOf
  <2>3. WorkersCameFirst' /\ WorkersWereWaitedFor' /\ CleanupIsComplete'
    BY DEF MInv, WorkersCameFirst, WorkersWereWaitedFor, HasStarted, CleanupIsComplete, ProcsOf
  <2> QED BY <2>1, <2>2, <2>3 DEF MInv
<1> QED BY <1>1, ReturnKeeps, RaiseKeeps, StopKeeps, ExitKeeps DEF MeshStep, MeshMoves

\* Once a mesh was started, its actors can only go.
LEMMA ActorsOnlyLeave ==
  ASSUME MInv, MeshStep, mesh # "starting"
  PROVE  actors' \subseteq actors /\ mesh' # "starting"
<1>1. CASE MeshReturns
  <2>1. Busy /\ Advance /\ mesh' # "starting" /\ ~Now("spawn")
    BY <1>1, NextCall, Advances
    DEF MeshReturns, StartWorker, Attach, SpawnProcs, Spawn, Answers, StopActor, StopProcs,
        StopHosts, Terminate, Wait, RemoveTmpdir, Now
  <2>2. CASE Wait
    <3>1. On \in Roles /\ topology' = topology
      BY <2>1, <2>2, NextCall, Advances DEF Wait, Roles
    <3> QED BY <2>1, <2>2, <3>1, DiesKeeps DEF Wait
  <2> QED BY <1>1, <2>1, <2>2
          DEF MeshReturns, StartWorker, Attach, SpawnProcs, Spawn, Answers, StopActor,
              StopProcs, StopHosts, Terminate, RemoveTmpdir
<1>2. CASE MeshRaises
  BY <1>2 DEF MeshRaises, StartFails, LocalStopFails, CallSkipped, Happens, Advance
<1>3. ASSUME NEW r \in Roles, WorkerExits(r) PROVE actors' \subseteq actors /\ mesh' = mesh
  BY <1>3, DiesKeeps DEF WorkerExits
<1>4. CASE BeginMeshStop
  BY <1>4 DEF BeginMeshStop
<1>5. CASE UNCHANGED meshVars
  BY <1>5 DEF meshVars
<1> QED BY <1>1, <1>2, <1>3, <1>4, <1>5 DEF MeshStep, MeshMoves

LEMMA MeshInitInv == MeshInit => MInv
<1> SUFFICES ASSUME MeshInit PROVE MInv
  OBVIOUS
<1>1. MeshTypeOK
  BY MaxStopsAssumption DEF MeshInit, MeshTypeOK, Meshes
<1>2. StepIsOfTheList
  <2>1. Len(Calls) \in {9, 17} /\ step = 1
    BY LocalStartList, DistributedStartList DEF MeshInit, Calls
  <2> QED BY <2>1 DEF StepIsOfTheList
<1>3. ActorsHaveProcs /\ ProcsHaveWorkers /\ ProcsAreOfTheTopology
  BY DEF MeshInit, ActorsHaveProcs, ProcsHaveWorkers, ProcsAreOfTheTopology
<1>4. WorkersCameFirst /\ WorkersWereWaitedFor /\ CleanupIsComplete
  BY DEF MeshInit, WorkersCameFirst, WorkersWereWaitedFor, HasStarted, CleanupIsComplete
<1> QED BY <1>1, <1>2, <1>3, <1>4 DEF MInv

\* Whatever clients, handlers and the server do, the mesh makes a step of its own, or none.
LEMMA ServiceMovesMesh == ASSUME [Next]_vars PROVE MeshStep
BY DEF Next, vars, MeshSteps, MeshStep, Bind, BeginStop, GraceEnds, Drained, Close,
       ClientGivesUp, Handle, DropAbandoned, StartHandler, HandlerReturns, HandlerTimesOut,
       Execute, Call

THEOREM MeshInvariance == Spec => []MInv
<1>1. Init => MInv
  BY MeshInitInv DEF Init
<1>2. MInv /\ [Next]_vars => MInv'
  BY ServiceMovesMesh, MeshStepKeeps
<1> QED BY <1>1, <1>2, PTL DEF Spec

\* A local stop() that returns has stopped every actor and process, and the distributed one
\* always gets to its end and leaves no worker and nothing a worker ran, whichever calls
\* raise or time out and whenever workers exit; a start that raised leaves no worker without
\* a signal (orchestration.py).
THEOREM StopsCleanUp == Spec => []CleanupIsComplete
<1>1. MInv => CleanupIsComplete
  BY DEF MInv
<1> QED BY <1>1, MeshInvariance, PTL

-----------------------------------------------------------------------------
(* The conversions                                                          *)

\* A list is a sequence of what it holds.
LEMMA ListIsSequence ==
  ASSUME NEW s, IsList(s)
  PROVE  s = [i \in 1 .. Len(s) |-> s[i]] /\ Len(s) \in Nat /\ DOMAIN s = 1 .. Len(s)
BY DEF IsList

\* Requests other than batches and samples arrive with every field they had.
LEMMA PlainRequestsAreKept ==
  ASSUME NEW op \in Ops \ {"forward_backward", "sample"}, NEW v, IsRequest(op, v)
  PROVE  Request(op, v) = v
<1>1. Context(v.context) = v.context
  BY DEF IsRequest, IsContext, Context
<1>2. CASE op = "create_training_run"
  BY <1>1, <1>2 DEF IsRequest, Request, CreateTrainingRunRequest
<1>3. CASE op = "optim_step"
  BY <1>1, <1>3 DEF IsRequest, Request, OptimStepRequest, IsAdamParams, AdamParams
<1>4. CASE op = "save_weights"
  BY <1>1, <1>4 DEF IsRequest, Request, SaveWeightsRequest
<1>5. CASE op = "refresh_weights"
  <2>1. \A a \in v.artifact : WeightArtifact(a) = a
    BY <1>5 DEF IsRequest, IsWeightArtifact, WeightArtifact
  <2>2. {WeightArtifact(a) : a \in v.artifact} = v.artifact
    BY <2>1
  <2> QED BY <1>1, <1>5, <2>2 DEF IsRequest, Request, RefreshWeightsRequest
<1>6. CASE op = "get_telemetry_summary"
  BY <1>1, <1>6 DEF IsRequest, Request, GetTelemetrySummaryRequest
<1>7. CASE op = "download_artifact_file"
  <2>1. WeightArtifact(v.artifact) = v.artifact
    BY <1>7 DEF IsRequest, IsWeightArtifact, WeightArtifact
  <2> QED BY <1>1, <1>7, <2>1 DEF IsRequest, Request, DownloadArtifactFileRequest
<1> QED BY <1>2, <1>3, <1>4, <1>5, <1>6, <1>7 DEF Ops

\* Tensors arrive as floats, and floats as themselves.
LEMMA TensorsArriveAsFloats ==
  ASSUME NEW v, IsTensors(v, Items)
  PROVE  /\ Tensors(v) = [name \in DOMAIN v |-> [values |-> Floats(v[name].values)]]
         /\ IsTensors(Tensors(v), FloatItems) /\ IsTensors(Tensors(v), Items)
         /\ DOMAIN Tensors(v) = DOMAIN v
         /\ \A name \in DOMAIN v : Len(Tensors(v)[name].values) = Len(v[name].values)
<1>1. Tensors(v) = [name \in DOMAIN v |-> [values |-> Floats(v[name].values)]]
  BY DEF Tensors, TensorData, AsFloat, Floats
<1>2. ASSUME NEW name \in DOMAIN v
      PROVE  Floats(v[name].values) \in Seq(FloatItems)
             /\ Len(Floats(v[name].values)) = Len(v[name].values)
  <2> DEFINE s == v[name].values
  <2>1. s \in Seq(Items)
    BY DEF IsTensors
  <2>2. \A i \in 1 .. Len(s) : [s[i] EXCEPT !.type = "float"] \in FloatItems
    <3>1. \A x \in Items : /\ [x EXCEPT !.type = "float"] \in Items
                          /\ [x EXCEPT !.type = "float"].type = "float"
      BY DEF Items
    <3>2. \A x \in Items : [x EXCEPT !.type = "float"] \in FloatItems
      BY <3>1 DEF FloatItems
    <3>3. \A i \in 1 .. Len(s) : s[i] \in Items
      BY <2>1
    <3> HIDE DEF s
    <3> QED BY <3>2, <3>3
  <2> HIDE DEF s
  <2>3. Floats(s) = [i \in 1 .. Len(s) |-> [s[i] EXCEPT !.type = "float"]]
    BY <2>1 DEF Floats
  <2> QED BY <2>1, <2>2, <2>3 DEF s
<1>3. FloatItems \subseteq Items
  BY DEF FloatItems
<1>4. Tensors(v) \in [DOMAIN v -> [values : Seq(FloatItems)]]
  BY <1>1, <1>2
<1>5. \A s \in Seq(FloatItems) : s \in Seq(Items)
  BY <1>3
<1>6. Tensors(v) \in [DOMAIN v -> [values : Seq(Items)]]
  BY <1>4, <1>5
<1> QED BY <1>1, <1>2, <1>4, <1>6 DEF IsTensors

LEMMA FloatsStay ==
  ASSUME NEW v, IsTensors(v, FloatItems)
  PROVE  Tensors(v) = v
<1>1. \A name \in DOMAIN v : v[name] = [values |-> v[name].values]
                             /\ v[name].values \in Seq(FloatItems)
  BY DEF IsTensors
<1>2. ASSUME NEW name \in DOMAIN v PROVE TensorData(v[name]) = v[name]
  <2> DEFINE s == v[name].values
  <2>1. s \in Seq(FloatItems)
    BY <1>1
  <2>2. \A i \in 1 .. Len(s) : AsFloat(s[i]) = s[i]
    BY <2>1 DEF AsFloat, FloatItems, Items
  <2> HIDE DEF s
  <2>3. [i \in DOMAIN s |-> AsFloat(s[i])] = s
    BY <2>1, <2>2
  <2> QED BY <1>1, <2>3 DEF TensorData, s
<1>3. v = [name \in DOMAIN v |-> v[name]]
  BY DEF IsTensors
<1> QED BY <1>2, <1>3 DEF Tensors
\* A batch arrives with the items of its tensors as floats.
LEMMA BatchesArriveAsFloats ==
  ASSUME NEW v, IsRequest("forward_backward", v)
  PROVE  /\ Request("forward_backward", v) = AsMade("forward_backward", v)
         /\ IsRequest("forward_backward", AsMade("forward_backward", v))
<1> DEFINE w == AsMade("forward_backward", v)
<1>1. /\ v = [context |-> v.context, run_id |-> v.run_id, data |-> v.data,
              loss_fn |-> v.loss_fn, loss_fn_config |-> v.loss_fn_config]
      /\ IsContext(v.context) /\ IsList(v.data)
      /\ \A i \in DOMAIN v.data : IsDatum(v.data[i])
  BY DEF IsRequest
<1>2. ASSUME NEW i \in DOMAIN v.data
      PROVE  /\ Datum(v.data[i]) =
                  [v.data[i] EXCEPT !.loss_fn_inputs =
                     [name \in DOMAIN @ |-> [values |-> Floats(@[name].values)]]]
             /\ IsDatum(Datum(v.data[i]))
  <2> DEFINE d == v.data[i]
  <2>1. /\ d = [model_input |-> d.model_input, loss_fn_inputs |-> d.loss_fn_inputs]
        /\ IsModelInput(d.model_input) /\ IsTensors(d.loss_fn_inputs, Items)
    BY <1>1 DEF IsDatum
  <2> HIDE DEF d
  <2>2. ModelInput(d.model_input) = d.model_input
    BY <2>1 DEF IsModelInput, ModelInput
  <2>3. Datum(d) = [model_input |-> d.model_input, loss_fn_inputs |-> Tensors(d.loss_fn_inputs)]
    BY <2>2 DEF Datum
  <2>4. Datum(d) = [d EXCEPT !.loss_fn_inputs = Tensors(d.loss_fn_inputs)]
    BY <2>1, <2>3
  <2>5. Tensors(d.loss_fn_inputs) =
          [name \in DOMAIN d.loss_fn_inputs |->
             [values |-> Floats(d.loss_fn_inputs[name].values)]]
    BY <2>1, TensorsArriveAsFloats
  <2>6. IsDatum(Datum(d))
    BY <2>1, <2>3, TensorsArriveAsFloats DEF IsDatum
  <2>7. Datum(d) = [d EXCEPT !.loss_fn_inputs =
                     [name \in DOMAIN @ |-> [values |-> Floats(@[name].values)]]]
    BY <2>4, <2>5
  <2> QED BY <2>6, <2>7 DEF d
<1> DEFINE data == [i \in DOMAIN v.data |-> Datum(v.data[i])]
<1>3. w = [v EXCEPT !.data = data]
  BY <1>2 DEF AsMade
<1>4. Context(v.context) = v.context
  BY <1>1 DEF IsContext, Context
<1>5. Request("forward_backward", v) = [v EXCEPT !.data = data]
  BY <1>1, <1>4 DEF Request, ForwardBackwardRequest
<1>6. IsList(data) /\ \A i \in DOMAIN data : IsDatum(data[i])
  <2>1. DOMAIN v.data = 1 .. Len(v.data) /\ Len(v.data) \in Nat
    BY <1>1, ListIsSequence
  <2>2. data = [i \in 1 .. Len(v.data) |-> data[i]]
    BY <2>1
  <2>3. data \in Seq({data[i] : i \in DOMAIN data})
    <3> HIDE DEF data
    <3> QED BY <2>1, <2>2
  <2> QED BY <1>2, <2>3 DEF IsList
<1> HIDE DEF data
<1>7. IsRequest("forward_backward", [v EXCEPT !.data = data])
  BY <1>1, <1>6 DEF IsRequest
<1> QED BY <1>3, <1>5, <1>7

LEMMA FloatsOfFloats ==
  ASSUME NEW v, IsRequest("forward_backward", v)
  PROVE  AsMade("forward_backward", AsMade("forward_backward", v)) =
           AsMade("forward_backward", v)
<1> DEFINE w == AsMade("forward_backward", v)
<1>1. IsRequest("forward_backward", w) /\ w = Request("forward_backward", v)
  BY BatchesArriveAsFloats
<1>2. AsMade("forward_backward", w) = Request("forward_backward", w)
  BY <1>1, BatchesArriveAsFloats
<1> HIDE DEF w
<1>3. DOMAIN w.data = DOMAIN v.data
  BY <1>1 DEF Request, ForwardBackwardRequest
<1>4. ASSUME NEW i \in DOMAIN v.data PROVE Datum(w.data[i]) = w.data[i]
  <2>1. IsDatum(v.data[i]) /\ IsDatum(w.data[i])
    BY <1>1, <1>3 DEF IsRequest
  <2>2. w.data[i] = Datum(v.data[i])
    BY <1>1 DEF Request, ForwardBackwardRequest
  <2>3. w.data[i].loss_fn_inputs = Tensors(v.data[i].loss_fn_inputs)
    BY <2>2 DEF Datum
  <2>4. IsTensors(w.data[i].loss_fn_inputs, FloatItems)
    BY <2>1, <2>3, TensorsArriveAsFloats DEF IsDatum
  <2>5. Tensors(w.data[i].loss_fn_inputs) = w.data[i].loss_fn_inputs
    BY <2>4, FloatsStay
  <2>6. ModelInput(w.data[i].model_input) = w.data[i].model_input
    BY <2>1 DEF IsDatum, IsModelInput, ModelInput
  <2> QED BY <2>1, <2>5, <2>6 DEF Datum, IsDatum
<1>5. w = [context |-> w.context, run_id |-> w.run_id, data |-> w.data,
           loss_fn |-> w.loss_fn, loss_fn_config |-> w.loss_fn_config]
      /\ Context(w.context) = w.context
  BY <1>1 DEF IsRequest, IsContext, Context
<1>6. w.data = [i \in DOMAIN v.data |-> w.data[i]]
  BY <1>1 DEF Request, ForwardBackwardRequest
<1>7. [i \in DOMAIN w.data |-> Datum(w.data[i])] = w.data
  BY <1>3, <1>4, <1>6
<1> QED BY <1>2, <1>5, <1>7 DEF Request, ForwardBackwardRequest, w

\* A sample request arrives as it was made, but for a top_p of 0.
LEMMA SamplesArrive ==
  ASSUME NEW v, IsRequest("sample", v)
  PROVE  /\ SampleRequestToProto(v) = v
         /\ v.sampling_params.top_p # 0 => SampleRequestFromProto(v) = v
         /\ v.sampling_params.top_p = 0 =>
              SampleRequestFromProto(v) = [v EXCEPT !.sampling_params.top_p = One]
<1> DEFINE p == v.sampling_params
<1>1. /\ v = [context |-> v.context, run_id |-> v.run_id, prompt |-> v.prompt,
              sampling_params |-> p, num_samples |-> v.num_samples]
      /\ Context(v.context) = v.context /\ ModelInput(v.prompt) = v.prompt
      /\ p = [max_tokens |-> p.max_tokens, temperature |-> p.temperature,
              stop |-> p.stop, top_p |-> p.top_p]
  BY DEF IsRequest, IsContext, Context, IsModelInput, ModelInput, IsSamplingParams
<1> HIDE DEF p
<1>2. SamplingParamsToProto(p) = p
  BY <1>1 DEF SamplingParamsToProto
<1>3. SamplingParamsFromProto(p) = IF p.top_p = 0 THEN [p EXCEPT !.top_p = One] ELSE p
  BY <1>1 DEF SamplingParamsFromProto
<1>4. \A x : SampleRequest(v, x) = [v EXCEPT !.sampling_params = x]
  BY <1>1 DEF SampleRequest
<1>5. SampleRequestToProto(v) = SampleRequest(v, SamplingParamsToProto(p))
      /\ SampleRequestFromProto(v) = SampleRequest(v, SamplingParamsFromProto(p))
  BY DEF SampleRequestToProto, SampleRequestFromProto, p
<1>6. [v EXCEPT !.sampling_params = p] = v
  BY <1>1
<1>7. [v EXCEPT !.sampling_params.top_p = One] =
        [v EXCEPT !.sampling_params = [p EXCEPT !.top_p = One]]
  BY DEF p
<1> QED BY <1>2, <1>3, <1>4, <1>5, <1>6, <1>7 DEF p

LEMMA AsMadeFields ==
  ASSUME NEW v, IsRequest("forward_backward", v)
  PROVE  LET w == AsMade("forward_backward", v) IN
         /\ w.run_id = v.run_id /\ w.loss_fn = v.loss_fn
         /\ DOMAIN w.data = DOMAIN v.data
         /\ w.data = <<>> <=> v.data = <<>>
         /\ \A i \in DOMAIN v.data :
              w.data[i] = Datum(v.data[i]) /\ IsDatum(v.data[i])
<1> DEFINE w == AsMade("forward_backward", v)
<1>1. w = Request("forward_backward", v)
  BY BatchesArriveAsFloats
<1>2. w.data = [i \in DOMAIN v.data |-> Datum(v.data[i])]
  BY <1>1 DEF Request, ForwardBackwardRequest
<1>3. w.run_id = v.run_id /\ w.loss_fn = v.loss_fn
  BY <1>1 DEF Request, ForwardBackwardRequest
<1>4. IsList(v.data) /\ \A i \in DOMAIN v.data : IsDatum(v.data[i])
  BY DEF IsRequest
<1>5. IsList(w.data)
  BY BatchesArriveAsFloats DEF IsRequest
<1>6. w.data = <<>> <=> v.data = <<>>
  <2>1. \A s : IsList(s) => (s = <<>> <=> DOMAIN s = {})
    BY DEF IsList
  <2> QED BY <1>2, <1>4, <1>5, <2>1
<1> HIDE DEF w
<1> QED BY <1>2, <1>3, <1>4, <1>6 DEF w

LEMMA DatumRefusedAlike ==
  ASSUME NEW d, NEW n, IsDatum(d)
  PROVE  DatumRefused(Datum(d), n) = DatumRefused(d, n)
<1> DEFINE e == Datum(d)
<1>1. ModelInput(d.model_input) = d.model_input /\ IsTensors(d.loss_fn_inputs, Items)
  BY DEF IsDatum, IsModelInput, ModelInput
<1>2. e.model_input = d.model_input /\ e.loss_fn_inputs = Tensors(d.loss_fn_inputs)
  BY <1>1 DEF Datum
<1>3. /\ DOMAIN e.loss_fn_inputs = DOMAIN d.loss_fn_inputs
      /\ \A name \in DOMAIN d.loss_fn_inputs : Len(Tensor(e, name)) = Len(Tensor(d, name))
  BY <1>1, <1>2, TensorsArriveAsFloats DEF Tensor
<1> HIDE DEF e
<1>4. \A tokens :
        (\E name \in {"target_tokens", "weights"} :
           name \notin DOMAIN e.loss_fn_inputs \/ Len(Tensor(e, name)) # tokens) <=>
        (\E name \in {"target_tokens", "weights"} :
           name \notin DOMAIN d.loss_fn_inputs \/ Len(Tensor(d, name)) # tokens)
  BY <1>3
<1>5. DatumRefused(e, n) = DatumRefused(d, n)
  BY <1>2, <1>4, Zenon DEF DatumRefused
<1> QED BY <1>5 DEF e

\* The first complaint of those there are about data.
FirstOf(data, complaints) ==
  LET bad == {i \in data : complaints[i] # {}} IN
  UNION {complaints[i] : i \in {j \in bad : \A k \in bad : j <= k}}

\* Batches of floats are refused like the batches they were made from.
LEMMA BatchRefusedAlike ==
  ASSUME NEW v, IsRequest("forward_backward", v)
  PROVE  Refusals("forward_backward", AsMade("forward_backward", v)) =
           Refusals("forward_backward", v)
<1> DEFINE w == AsMade("forward_backward", v)
           C(u) == [i \in DOMAIN u.data |->
                     DatumRefused(u.data[i], Len(u.data[1].model_input.token_ids))]
<1>1. /\ w.run_id = v.run_id /\ w.loss_fn = v.loss_fn
      /\ DOMAIN w.data = DOMAIN v.data
      /\ w.data = <<>> <=> v.data = <<>>
      /\ \A i \in DOMAIN v.data : w.data[i] = Datum(v.data[i]) /\ IsDatum(v.data[i])
  BY AsMadeFields
<1> HIDE DEF w
<1>2. \A u : BatchRefused(u) =
        IF u.loss_fn # "cross_entropy" \/ u.data = <<>>
        THEN {Error("InvalidRequestError", FALSE)} ELSE FirstOf(DOMAIN u.data, C(u))
  BY DEF BatchRefused, FirstOf
<1>3. ASSUME v.data # <<>> PROVE C(w) = C(v)
  <2>1. 1 \in DOMAIN v.data
    BY <1>3, ListIsSequence DEF IsRequest, IsList
  <2>2. w.data[1].model_input = v.data[1].model_input
    <3>1. w.data[1] = Datum(v.data[1]) /\ IsModelInput(v.data[1].model_input)
      BY <1>1, <2>1 DEF IsDatum
    <3> QED BY <3>1 DEF Datum, IsModelInput, ModelInput
  <2>3. \A i \in DOMAIN v.data : \A n : DatumRefused(w.data[i], n) = DatumRefused(v.data[i], n)
    BY <1>1, DatumRefusedAlike
  <2> QED BY <1>1, <2>2, <2>3
<1> HIDE DEF C
<1>4. BatchRefused(w) = BatchRefused(v)
  BY <1>1, <1>2, <1>3
<1>5. Refusals("forward_backward", w) = Refusals("forward_backward", v)
  BY <1>1, <1>4 DEF Refusals
<1> QED BY <1>5 DEF w

\* An actor refuses a request with one of two errors.
LEMMA RefusalsAreErrors ==
  ASSUME NEW op \in Ops \ {"download_artifact_file"}, NEW v
  PROVE  \A e \in Refusals(op, v) :
           \E kind \in {"InvalidRequestError", "NotFoundError"}, quoted \in BOOLEAN :
             e = Error(kind, quoted)
<1> DEFINE Fine(s) == \A e \in s :
           \E kind \in {"InvalidRequestError", "NotFoundError"}, quoted \in BOOLEAN :
             e = Error(kind, quoted)
<1>1. /\ Fine({}) /\ Fine({Error("InvalidRequestError", FALSE)})
      /\ Fine({Error("InvalidRequestError", TRUE)}) /\ Fine({Error("NotFoundError", FALSE)})
  OBVIOUS
<1>2. \A d, n : Fine(DatumRefused(d, n))
  BY <1>1 DEF DatumRefused
<1>3. \A id : Fine(RunRefused(id))
  BY <1>1 DEF RunRefused
<1>4. Fine(BatchRefused(v))
  <2> DEFINE C == [i \in DOMAIN v.data |->
                    DatumRefused(v.data[i], Len(v.data[1].model_input.token_ids))]
  <2>1. BatchRefused(v) =
          IF v.loss_fn # "cross_entropy" \/ v.data = <<>>
          THEN {Error("InvalidRequestError", FALSE)} ELSE FirstOf(DOMAIN v.data, C)
    BY DEF BatchRefused, FirstOf
  <2>2. \A i \in DOMAIN v.data : Fine(C[i])
    BY <1>2
  <2>3. Fine(FirstOf(DOMAIN v.data, C))
    <3> HIDE DEF C
    <3> QED BY <2>2 DEF FirstOf
  <2> QED BY <1>1, <2>1, <2>3
<1>5. Fine(SampleRefused(v))
  BY <1>1 DEF SampleRefused
<1> HIDE DEF Fine
<1>6. Fine(Refusals(op, v))
  BY <1>1, <1>3, <1>4, <1>5 DEF Refusals, Ops
<1> QED BY <1>6 DEF Fine

\* What the caller made is what arrives, from the client of this repository or any other.
Arrives(r, got) ==
  /\ ~Unsupported(r.op, got)
  /\ r.op = "sample" /\ r.body.sampling_params.top_p = 0 =>
       got = [r.body EXCEPT !.sampling_params.top_p = One]
  /\ ~(r.op = "sample" /\ r.body.sampling_params.top_p = 0) =>
       got = AsMade(r.op, r.body) /\ Refusals(r.op, got) = Refusals(r.op, r.body)

LEMMA MessagesArrive ==
  ASSUME NEW q \in CallIds, NEW r \in Requests[q], ~Unsupported(r.op, Message(r))
  PROVE  /\ Arrives(r, RequestFromProto(r.op, Message(r)))
         /\ r.op = "download_artifact_file" => RequestFromProto(r.op, Message(r)) = r.body
<1> DEFINE op == r.op
           v == r.body
           m == RequestFromProto(r.op, Message(r))
<1>1. op \in Ops /\ IsRequest(op, v) /\ r.raw \in BOOLEAN
  BY RequestsAssumption
<1>2. CASE op = "forward_backward"
  <2>1. Message(r) \in {v, AsMade(op, v)}
    BY <1>1, <1>2, BatchesArriveAsFloats DEF Message, RequestToProto
  <2>2. \A w \in {v, AsMade(op, v)} : Request(op, w) = AsMade(op, v)
    BY <1>1, <1>2, BatchesArriveAsFloats, FloatsOfFloats
  <2>3. m = AsMade(op, v)
    BY <1>2, <2>1, <2>2 DEF RequestFromProto
  <2>4. Refusals(op, m) = Refusals(op, v)
    BY <1>1, <1>2, <2>3, BatchRefusedAlike
  <2>5. ~Unsupported(op, m)
    BY <1>2 DEF Unsupported
  <2> QED BY <1>2, <2>3, <2>4, <2>5 DEF Arrives
<1>3. CASE op = "sample"
  <2>1. Message(r) = v
    BY <1>1, <1>3, SamplesArrive DEF Message, RequestToProto
  <2>2. m = SampleRequestFromProto(v)
    BY <1>3, <2>1 DEF RequestFromProto
  <2>3. ~Unsupported(op, m) /\ AsMade(op, v) = v
    BY <1>3 DEF Unsupported, AsMade
  <2> QED BY <1>1, <1>3, <2>2, <2>3, SamplesArrive DEF Arrives
<1>4. CASE op \notin {"forward_backward", "sample"}
  <2>1. Request(op, v) = v
    BY <1>1, <1>4, PlainRequestsAreKept
  <2>2. Message(r) = v
    BY <1>1, <1>4, <2>1 DEF Message, RequestToProto
  <2>3. m = v /\ AsMade(op, v) = v
    BY <1>4, <2>1, <2>2 DEF RequestFromProto, AsMade
  <2> QED BY <1>4, <2>2, <2>3 DEF Arrives
<1> QED BY <1>2, <1>3, <1>4

\* A response goes through both conversions with every field it had.
LEMMA ResponsesAreKept ==
  ASSUME NEW op \in Ops \ {"download_artifact_file"}, NEW v, IsResponse(op, v)
  PROVE  Response(op, v) = v
<1>1. CASE op = "create_training_run"
  BY <1>1 DEF IsResponse, Response, CreateTrainingRunResponse, IsTrainingRun, TrainingRun
<1>2. CASE op = "forward_backward"
  <2>1. Usage(v.usage) = v.usage
    BY <1>2 DEF IsResponse, IsUsage, Usage
  <2> DEFINE o == v.output
  <2>2. IsForwardBackwardOutput(o)
    BY <1>2 DEF IsResponse
  <2> HIDE DEF o
  <2>3. \A i \in DOMAIN o.loss_fn_outputs : Tensors(o.loss_fn_outputs[i]) = o.loss_fn_outputs[i]
    BY <2>2, FloatsStay DEF IsForwardBackwardOutput
  <2>4. [i \in DOMAIN o.loss_fn_outputs |-> Tensors(o.loss_fn_outputs[i])] = o.loss_fn_outputs
    BY <2>2, <2>3 DEF IsForwardBackwardOutput, IsMap
  <2>5. ForwardBackwardOutput(o) = o
    BY <2>2, <2>4 DEF IsForwardBackwardOutput, ForwardBackwardOutput
  <2> QED BY <1>2, <2>1, <2>5 DEF IsResponse, Response, ForwardBackwardResponse, o
<1>3. CASE op = "optim_step"
  BY <1>3 DEF IsResponse, Response, OptimStepResponse, IsUsage, Usage
<1>4. CASE op = "save_weights"
  BY <1>4 DEF IsResponse, Response, SaveWeightsResponse, IsWeightArtifact, WeightArtifact
<1>5. CASE op = "refresh_weights"
  BY <1>5 DEF IsResponse, Response, RefreshWeightsResponse, IsWeightArtifact, WeightArtifact
<1>6. CASE op = "sample"
  <2>1. Usage(v.usage) = v.usage /\ WeightArtifact(v.artifact) = v.artifact
    BY <1>6 DEF IsResponse, IsUsage, Usage, IsWeightArtifact, WeightArtifact
  <2>2. \A i \in DOMAIN v.sequences : SampledSequence(v.sequences[i]) = v.sequences[i]
    BY <1>6 DEF IsResponse, IsSampledSequence, SampledSequence
  <2>3. [i \in DOMAIN v.sequences |-> SampledSequence(v.sequences[i])] = v.sequences
    BY <1>6, <2>2 DEF IsResponse, IsMap
  <2> QED BY <1>6, <2>1, <2>3 DEF IsResponse, Response, SampleResponse
<1>7. CASE op = "get_telemetry_summary"
  <2> DEFINE s == v.summary
  <2>1. IsTelemetrySummary(s)
    BY <1>7 DEF IsResponse
  <2> HIDE DEF s
  <2>2. Usage(s.total) = s.total
    BY <2>1 DEF IsTelemetrySummary, IsUsage, Usage
  <2>3. \A i \in DOMAIN s.by_source : UsageBySource(s.by_source[i]) = s.by_source[i]
    BY <2>1 DEF IsTelemetrySummary, IsUsageBySource, UsageBySource, IsUsage, Usage
  <2>4. [i \in DOMAIN s.by_source |-> UsageBySource(s.by_source[i])] = s.by_source
    BY <2>1, <2>3 DEF IsTelemetrySummary, IsMap
  <2>5. TelemetrySummary(s) = s
    BY <2>1, <2>2, <2>4 DEF IsTelemetrySummary, TelemetrySummary
  <2> QED BY <1>7, <2>5 DEF IsResponse, Response, GetTelemetrySummaryResponse, s
<1> QED BY <1>1, <1>2, <1>3, <1>4, <1>5, <1>6, <1>7 DEF Ops

-----------------------------------------------------------------------------
(* The three lives of a call                                                *)

IsCall(c) ==
  /\ c = [request |-> c.request, at |-> c.at, work |-> c.work, received |-> c.received,
          result |-> c.result, outcome |-> c.outcome, answer |-> c.answer]
  /\ c.at \in {"idle", "pool", "handling", "ended"}
  /\ c.work \in {"none", "queued", "done"}
  /\ c.outcome \in Outcomes

\* A message at the actors is the request as it arrives, and what they make of it is a
\* refusal of the request or one of their results.
WorkIsOnTheRequest(c) ==
  /\ c.work = "none" => c.received = Nothing /\ c.result = NoResult
  /\ c.work # "none" =>
       /\ c.request.op # "download_artifact_file"
       /\ ~Unsupported(c.request.op, Message(c.request))
       /\ c.received = RequestFromProto(c.request.op, Message(c.request))
  /\ c.work = "queued" => c.result = NoResult
  /\ c.work = "done" =>
       c.result \in Refusals(c.request.op, c.received) \cup Results[c.request.op]

\* While a call waits for a thread or has one, only its deadline or the end of the grace
\* period has ended it for the client.
LivesGoTogether(c) ==
  /\ c.at = "pool" => c.work = "none"
  /\ c.at = "handling" => c.work # "none"
  /\ c.at \in {"pool", "handling"} =>
       c.outcome \in {"waiting", "DEADLINE_EXCEEDED", "CANCELLED", "BackendUnavailableError"}
  /\ c.at = "ended" => c.outcome # "waiting"

\* What a client is told holds for good: what it is told while its message is queued is told
\* by nobody who carried it out, and the actors it waits for are gone.
OutcomeHolds(c, running, serving) ==
  /\ c.outcome = "ok" =>
       IF c.request.op = "download_artifact_file"
       THEN c.answer.contents = PathOf(c.request.body)
       ELSE c.work = "done" /\ c.result.status = "ok" /\ c.answer = c.result.response
  /\ c.outcome \in {"InvalidRequestError", "NotFoundError"} =>
       c.work = "none" \/ (c.work = "done" /\ c.result.status = c.outcome)
  /\ c.outcome = "BackendUnavailableError" =>
       ~serving \/ (c.work = "done" /\ c.result.status = c.outcome)
  /\ c.outcome = "INTERNAL" =>
       \/ c.work = "none"
       \/ c.work = "queued" /\ ~(ActorsOf(c.request.op) \subseteq running)
       \/ c.work = "done" /\ c.result.status # "ok"
          /\ (c.result.status = "other" \/ c.result.quoted)

CallFine(q, c, running, serving) ==
  /\ IsCall(c)
  /\ IF c.at = "idle" THEN c = NoCall ELSE c.request \in Requests[q]
  /\ WorkIsOnTheRequest(c)
  /\ LivesGoTogether(c)
  /\ OutcomeHolds(c, running, serving)

CallsAreFine ==
  /\ call = [q \in CallIds |-> call[q]]
  /\ \A q \in CallIds : CallFine(q, call[q], actors, server = "serving")

\* A call is made to a server that is there, and the server has a mesh that was started.
ServerCameFirst ==
  /\ server \in {"absent", "serving", "draining", "down", "bind_failed"}
  /\ server # "absent" => mesh # "starting"
  /\ \A q \in CallIds : call[q].at # "idle" => server \in {"serving", "draining", "down"}

\* One call changes, the server and the mesh do not.
LEMMA OneCallChanges ==
  ASSUME CallsAreFine, ServerCameFirst, NEW q \in CallIds, NEW new, Set(q, new),
         CallFine(q, new, actors, server = "serving"),
         server \in {"serving", "draining", "down"}, UNCHANGED <<meshVars, server>>
  PROVE  CallsAreFine' /\ ServerCameFirst'
<1>1. /\ call' = [call EXCEPT ![q] = new]
      /\ call'[q] = new /\ \A p \in CallIds : p # q => call'[p] = call[p]
      /\ call' = [p \in CallIds |-> call'[p]]
  BY DEF Set, CallsAreFine
<1>2. actors' = actors /\ mesh' = mesh /\ server' = server
  BY DEF meshVars
<1>3. \A p \in CallIds : CallFine(p, call'[p], actors', server' = "serving")
  BY <1>1, <1>2 DEF CallsAreFine
<1> QED BY <1>1, <1>2, <1>3 DEF CallsAreFine, ServerCameFirst

\* Actors that go, and a server that ends, leave every outcome as true as it was.
LEMMA CallsStayFine ==
  ASSUME NEW q, NEW c, NEW running, NEW left, NEW serving \in BOOLEAN, NEW still \in BOOLEAN,
         CallFine(q, c, running, serving),
         c.at # "idle" => left \subseteq running /\ (still => serving)
  PROVE  CallFine(q, c, left, still)
<1>1. OutcomeHolds(c, left, still)
  BY DEF CallFine, OutcomeHolds, NoCall
<1> QED BY <1>1 DEF CallFine

LEMMA CallIsTold ==
  ASSUME NEW c, NEW at, NEW outcome,
         c = [request |-> c.request, at |-> c.at, work |-> c.work, received |-> c.received,
              result |-> c.result, outcome |-> c.outcome, answer |-> c.answer]
  PROVE  [c EXCEPT !.at = at, !.outcome = outcome] =
           [request |-> c.request, at |-> at, work |-> c.work, received |-> c.received,
            result |-> c.result, outcome |-> outcome, answer |-> c.answer]
<1> DEFINE d == [c EXCEPT !.at = at]
<1>1. d = [request |-> c.request, at |-> at, work |-> c.work, received |-> c.received,
           result |-> c.result, outcome |-> c.outcome, answer |-> c.answer]
  OBVIOUS
<1>2. [d EXCEPT !.outcome = outcome] =
        [request |-> c.request, at |-> at, work |-> c.work, received |-> c.received,
         result |-> c.result, outcome |-> outcome, answer |-> c.answer]
  <2> HIDE DEF d
  <2> QED BY <1>1
<1> QED BY <1>2, Zenon

\* A call ends with a status that says what became of its message.
LEMMA EndedIsFine ==
  ASSUME NEW q \in CallIds, NEW c, NEW running, NEW serving \in BOOLEAN,
         CallFine(q, c, running, serving), c.at \in {"pool", "handling"},
         NEW code \in {"UNAUTHENTICATED", "INVALID_ARGUMENT", "NOT_FOUND", "UNAVAILABLE",
                       "INTERNAL", "DEADLINE_EXCEEDED", "RESOURCE_EXHAUSTED"},
         code \in {"INVALID_ARGUMENT", "NOT_FOUND"} =>
           c.work = "none" \/ (c.work = "done" /\ c.result.status = MapRpcError(code)),
         code = "UNAVAILABLE" => c.work = "done" /\ c.result.status = MapRpcError(code),
         code = "INTERNAL" =>
           \/ c.work = "none"
           \/ c.work = "queued" /\ ~(ActorsOf(c.request.op) \subseteq running)
           \/ c.work = "done" /\ c.result.status # "ok"
              /\ (c.result.status = "other" \/ c.result.quoted)
  PROVE  CallFine(q, Ended(c, code), running, serving)
<1> DEFINE new == Ended(c, code)
           o == IF c.outcome = "waiting" THEN MapRpcError(code) ELSE c.outcome
<1>1. /\ c = [request |-> c.request, at |-> c.at, work |-> c.work, received |-> c.received,
              result |-> c.result, outcome |-> c.outcome, answer |-> c.answer]
      /\ c.outcome \in Outcomes /\ c.at # "idle" /\ c.request \in Requests[q]
      /\ c.work \in {"none", "queued", "done"}
  BY DEF CallFine, IsCall
<1>2. new = [request |-> c.request, at |-> "ended", work |-> c.work, received |-> c.received,
             result |-> c.result, outcome |-> o, answer |-> c.answer]
  BY <1>1 DEF Ended
<1>3. MapRpcError(code) \in Outcomes \ {"none", "waiting", "ok"}
  BY DEF MapRpcError, Outcomes, DomainErrors, TransportErrors
<1>4. c.outcome # "waiting" =>
        c.outcome \in {"DEADLINE_EXCEEDED", "CANCELLED", "BackendUnavailableError"}
  BY DEF CallFine, LivesGoTogether
<1>5. OutcomeHolds(new, running, serving)
  <2>1. CASE c.outcome = "waiting"
    <3>1. o = MapRpcError(code)
      BY <2>1
    <3>2. /\ o \in {"InvalidRequestError", "NotFoundError"} =>
               code \in {"INVALID_ARGUMENT", "NOT_FOUND"}
          /\ o = "BackendUnavailableError" => code = "UNAVAILABLE"
          /\ o = "INTERNAL" => code = "INTERNAL"
          /\ o # "ok"
      BY <3>1 DEF MapRpcError
    <3> HIDE DEF o
    <3> QED BY <1>2, <3>1, <3>2 DEF OutcomeHolds
  <2>2. CASE c.outcome # "waiting"
    <3>1. o = c.outcome
      BY <2>2
    <3> QED BY <1>2, <1>4, <2>2, <3>1 DEF CallFine, OutcomeHolds
  <2> QED BY <2>1, <2>2
<1>6. IsCall(new) /\ new.at = "ended" /\ LivesGoTogether(new)
  BY <1>1, <1>2, <1>3 DEF IsCall, LivesGoTogether
<1>7. WorkIsOnTheRequest(new)
  BY <1>2 DEF CallFine, WorkIsOnTheRequest
<1> QED BY <1>1, <1>2, <1>5, <1>6, <1>7 DEF CallFine

\* A call that is answered has the answer of the actors, or the file.
LEMMA AnsweredIsFine ==
  ASSUME NEW q \in CallIds, NEW c, NEW running, NEW serving \in BOOLEAN, NEW response,
         CallFine(q, c, running, serving), c.at \in {"pool", "handling"},
         c.request.op = "download_artifact_file" => response.contents = PathOf(c.request.body),
         c.request.op # "download_artifact_file" =>
           /\ c.work = "done" /\ c.result.status = "ok" /\ c.result.response = response
           /\ IsResponse(c.request.op, response)
  PROVE  CallFine(q, Answered(c, response), running, serving)
<1> DEFINE op == c.request.op
           answer == Response(op, Response(op, response))
           told == [c EXCEPT !.at = "ended", !.outcome = "ok", !.answer = answer]
           quiet == [c EXCEPT !.at = "ended"]
<1>1. /\ c = [request |-> c.request, at |-> c.at, work |-> c.work, received |-> c.received,
              result |-> c.result, outcome |-> c.outcome, answer |-> c.answer]
      /\ c.outcome \in Outcomes /\ c.at # "idle" /\ c.request \in Requests[q]
      /\ c.work \in {"none", "queued", "done"}
  BY DEF CallFine, IsCall
<1>2. op \in Ops
  BY <1>1, RequestsAssumption
<1>3. CASE c.outcome # "waiting"
  <2>1. Answered(c, response) = Ended(c, "DEADLINE_EXCEEDED")
    BY <1>3 DEF Answered, Ended
  <2> QED BY <2>1, EndedIsFine
<1>4. CASE c.outcome = "waiting" /\ op = "download_artifact_file" /\ response.contents = "large"
  <2>1. Answered(c, response) = Ended(c, "RESOURCE_EXHAUSTED")
    BY <1>4 DEF Answered
  <2> QED BY <2>1, EndedIsFine
<1>5. CASE /\ c.outcome = "waiting"
           /\ ~(op = "download_artifact_file" /\ response.contents = "large")
  <2>1. Answered(c, response) = told
    BY <1>5 DEF Answered
  <2>2. told = [request |-> c.request, at |-> "ended", work |-> c.work,
                received |-> c.received, result |-> c.result, outcome |-> "ok",
                answer |-> answer]
    <3> DEFINE d == [c EXCEPT !.at = "ended"]
    <3>1. told = [d EXCEPT !.outcome = "ok", !.answer = answer]
      BY Zenon
    <3>2. d = [request |-> c.request, at |-> "ended", work |-> c.work,
               received |-> c.received, result |-> c.result, outcome |-> c.outcome,
               answer |-> c.answer]
      BY <1>1
    <3> HIDE DEF answer, d, told
    <3> QED BY <3>1, <3>2
  <2>3. op = "download_artifact_file" => answer.contents = response.contents
    BY DEF Response, DownloadArtifactFileResponse
  <2>4. op # "download_artifact_file" => answer = response
    BY <1>2, ResponsesAreKept
  <2> HIDE DEF answer, told
  <2>5. OutcomeHolds(told, running, serving)
    BY <2>2, <2>3, <2>4 DEF OutcomeHolds
  <2>6. IsCall(told) /\ told.at = "ended" /\ LivesGoTogether(told)
    BY <1>1, <2>2 DEF IsCall, LivesGoTogether, Outcomes
  <2>7. WorkIsOnTheRequest(told)
    BY <2>2 DEF CallFine, WorkIsOnTheRequest
  <2> QED BY <1>1, <2>1, <2>2, <2>5, <2>6, <2>7 DEF CallFine
<1> QED BY <1>3, <1>4, <1>5

\* A client calls.
LEMMA CallKeeps ==
  ASSUME CallsAreFine, ServerCameFirst, NEW q \in CallIds, NEW r \in Requests[q], Call(q, r)
  PROVE  CallsAreFine' /\ ServerCameFirst'
<1> DEFINE Record(at, outcome) ==
      [request |-> r, at |-> at, work |-> "none", received |-> Nothing,
       result |-> NoResult, outcome |-> outcome, answer |-> Nothing]
<1>0. Made(r) = Record("idle", "none")
  BY DEF Made, NoCall
<1>1. PICK new : /\ Set(q, new)
                 /\ \/ new = Record("ended", "InvalidRequestError")
                    \/ new = Record("pool", "waiting") /\ server = "serving"
                    \/ new = Record("ended", "BackendUnavailableError") /\ server # "serving"
  <2>1. ASSUME NEW at, NEW outcome
        PROVE  [Made(r) EXCEPT !.at = at, !.outcome = outcome] = Record(at, outcome)
    <3> DEFINE c == Made(r)
    <3>1. /\ c.request = r /\ c.work = "none" /\ c.received = Nothing
          /\ c.result = NoResult /\ c.answer = Nothing
          /\ c = [request |-> c.request, at |-> c.at, work |-> c.work,
                  received |-> c.received, result |-> c.result, outcome |-> c.outcome,
                  answer |-> c.answer]
      BY <1>0
    <3> HIDE DEF c
    <3>2. [c EXCEPT !.at = at, !.outcome = outcome] =
            [request |-> c.request, at |-> at, work |-> c.work, received |-> c.received,
             result |-> c.result, outcome |-> outcome, answer |-> c.answer]
      BY <3>1, CallIsTold, Zenon
    <3>3. [request |-> c.request, at |-> at, work |-> c.work, received |-> c.received,
           result |-> c.result, outcome |-> outcome, answer |-> c.answer] = Record(at, outcome)
      BY <3>1
    <3> QED BY <3>2, <3>3, Zenon DEF c
  <2> HIDE DEF Record
  <2> QED BY <2>1 DEF Call
<1>2. CallFine(q, new, actors, server = "serving")
  BY <1>1 DEF CallFine, IsCall, WorkIsOnTheRequest, LivesGoTogether, OutcomeHolds, Outcomes,
              DomainErrors, TransportErrors
<1> QED BY <1>1, <1>2, OneCallChanges DEF Call

LEMMA GivesUpKeeps ==
  ASSUME CallsAreFine, ServerCameFirst, NEW q \in CallIds, ClientGivesUp(q)
  PROVE  CallsAreFine' /\ ServerCameFirst'
<1> DEFINE c == call[q]
           new == [c EXCEPT !.outcome = "DEADLINE_EXCEEDED"]
<1>1. CallFine(q, c, actors, server = "serving") /\ c.outcome = "waiting"
  BY DEF CallsAreFine, ClientGivesUp, Waiting
<1> HIDE DEF c
<1>2. c.at \in {"pool", "handling"}
  BY <1>1 DEF CallFine, IsCall, LivesGoTogether, NoCall
<1>3. new = [request |-> c.request, at |-> c.at, work |-> c.work, received |-> c.received,
             result |-> c.result, outcome |-> "DEADLINE_EXCEEDED", answer |-> c.answer]
  BY <1>1 DEF CallFine, IsCall
<1> HIDE DEF new
<1>4. CallFine(q, new, actors, server = "serving")
  BY <1>1, <1>2, <1>3 DEF CallFine, IsCall, WorkIsOnTheRequest, LivesGoTogether, OutcomeHolds,
                          Outcomes, TransportErrors
<1>5. server \in {"serving", "draining", "down"}
  BY <1>2 DEF ServerCameFirst, c
<1>6. Set(q, new)
  BY DEF ClientGivesUp, new, c
<1> QED BY <1>4, <1>5, <1>6, OneCallChanges DEF ClientGivesUp

LEMMA DropKeeps ==
  ASSUME CallsAreFine, ServerCameFirst, NEW q \in CallIds, DropAbandoned(q)
  PROVE  CallsAreFine' /\ ServerCameFirst'
<1> DEFINE c == call[q]
<1>1. CallFine(q, c, actors, server = "serving") /\ c.outcome # "waiting" /\ c.at = "pool"
  BY DEF CallsAreFine, DropAbandoned, Waiting
<1>2. Set(q, Ended(c, "DEADLINE_EXCEEDED"))
  BY <1>1 DEF DropAbandoned, Ended
<1>3. CallFine(q, Ended(c, "DEADLINE_EXCEEDED"), actors, server = "serving")
  BY <1>1, EndedIsFine
<1>4. server \in {"serving", "draining", "down"}
  BY <1>1 DEF ServerCameFirst
<1> QED BY <1>2, <1>3, <1>4, OneCallChanges DEF DropAbandoned

\* What the actors made of a message.
LEMMA ResultsAreAnswers ==
  ASSUME NEW q \in CallIds, NEW c, NEW running, NEW serving, CallFine(q, c, running, serving),
         c.work = "done"
  PROVE  /\ c.request.op \in Ops \ {"download_artifact_file"}
         /\ \/ c.result.status = "ok" /\ IsResponse(c.request.op, c.result.response)
            \/ c.result.status \in DomainErrors \cup {"other"} /\ c.result.quoted \in BOOLEAN
<1>1. /\ c.at # "idle" /\ c.request \in Requests[q]
      /\ c.request.op # "download_artifact_file"
      /\ c.result \in Refusals(c.request.op, c.received) \cup Results[c.request.op]
  BY DEF CallFine, NoCall, WorkIsOnTheRequest
<1>2. c.request.op \in Ops \ {"download_artifact_file"}
  BY <1>1, RequestsAssumption
<1>3. CASE c.result \in Results[c.request.op]
  BY <1>2, <1>3, ResultsAssumption DEF Ok, Error
<1>4. CASE c.result \in Refusals(c.request.op, c.received)
  BY <1>2, <1>4, RefusalsAreErrors DEF Error, DomainErrors
<1> QED BY <1>1, <1>2, <1>3, <1>4

\* A thread takes a call: it ends at once, or its message goes to the actors.
LEMMA StartKeeps ==
  ASSUME CallsAreFine, ServerCameFirst, NEW q \in CallIds, StartHandler(q)
  PROVE  CallsAreFine' /\ ServerCameFirst'
<1> DEFINE c == call[q]
           r == c.request
           message == Message(r)
           m == RequestFromProto(r.op, message)
           sent == [c EXCEPT !.at = "handling", !.work = "queued", !.received = m]
<1>1. CallFine(q, c, actors, server = "serving") /\ c.outcome = "waiting" /\ c.at = "pool"
  BY DEF CallsAreFine, StartHandler, Waiting
<1>2. server \in {"serving", "draining", "down"} /\ UNCHANGED <<meshVars, server>>
  BY <1>1 DEF ServerCameFirst, StartHandler
<1>3. r \in Requests[q] /\ r.op \in Ops /\ r.authorized \in BOOLEAN
  BY <1>1, RequestsAssumption DEF CallFine
<1>4. c.work = "none"
  BY <1>1 DEF CallFine, LivesGoTogether
<1> SUFFICES ASSUME NEW new, Set(q, new),
                    new = CASE ~r.authorized -> Ended(c, "UNAUTHENTICATED")
                            [] r.authorized /\ Unsupported(r.op, message) ->
                                 Ended(c, "INVALID_ARGUMENT")
                            [] r.authorized /\ ~Unsupported(r.op, message) ->
                                 IF r.op = "download_artifact_file" THEN Download(c, m)
                                 ELSE sent
             PROVE  CallFine(q, new, actors, server = "serving")
  BY <1>2, OneCallChanges DEF StartHandler, Op
<1> HIDE DEF c
<1> DEFINE Fine(x) == CallFine(q, x, actors, server = "serving")
<1>9. /\ Fine(Ended(c, "UNAUTHENTICATED")) /\ Fine(Ended(c, "INVALID_ARGUMENT"))
      /\ Fine(Ended(c, "NOT_FOUND")) /\ Fine(Ended(c, "INTERNAL"))
  BY <1>1, <1>4, EndedIsFine
<1>5. CASE ~r.authorized
  <2>1. new = Ended(c, "UNAUTHENTICATED")
    BY <1>5
  <2> QED BY <1>9, <2>1
<1>6. CASE r.authorized /\ Unsupported(r.op, message)
  <2>1. new = Ended(c, "INVALID_ARGUMENT")
    BY <1>6
  <2> QED BY <1>9, <2>1
<1>7. CASE r.authorized /\ ~Unsupported(r.op, message) /\ r.op = "download_artifact_file"
  <2>1. new = Download(c, m)
    BY <1>7
  <2>2. m = r.body
    BY <1>3, <1>7, MessagesArrive
  <2>3. PathOf(m) \in Places
    BY <1>3, <1>7, <2>2, RequestsAssumption DEF PathOf
  <2> HIDE DEF m
  <2>4. CASE PathOf(m) = "missing"
    <3>1. new = Ended(c, "NOT_FOUND")
      BY <2>1, <2>4 DEF Download
    <3> QED BY <1>9, <3>1
  <2>5. CASE PathOf(m) = "outside"
    <3>1. new = Ended(c, "INVALID_ARGUMENT")
      BY <2>1, <2>5 DEF Download
    <3> QED BY <1>9, <3>1
  <2>6. CASE PathOf(m) = "directory"
    <3>1. new = Ended(c, "INTERNAL")
      BY <2>1, <2>6 DEF Download
    <3> QED BY <1>9, <3>1
  <2>7. CASE PathOf(m) \in {"small", "large"}
    <3> DEFINE file == [request_id |-> m.context.request_id, artifact |-> m.artifact,
                        file_kind |-> m.file_kind, path |-> PathOf(m),
                        contents |-> PathOf(m)]
    <3>1. new = Answered(c, file)
      BY <2>1, <2>7 DEF Download
    <3>2. file.contents = PathOf(c.request.body)
      BY <2>2
    <3>3. c.request.op = "download_artifact_file"
      BY <1>7
    <3> HIDE DEF file
    <3>4. CallFine(q, Answered(c, file), actors, server = "serving")
      BY <1>1, <3>2, <3>3, AnsweredIsFine
    <3> QED BY <3>1, <3>4
  <2> QED BY <2>3, <2>4, <2>5, <2>6, <2>7 DEF Places
<1>8. CASE r.authorized /\ ~Unsupported(r.op, message) /\ r.op # "download_artifact_file"
  <2>1. new = sent
    BY <1>8
  <2> HIDE DEF m
  <2>2. c = [request |-> c.request, at |-> c.at, work |-> c.work, received |-> c.received,
             result |-> c.result, outcome |-> c.outcome, answer |-> c.answer]
    BY <1>1 DEF CallFine, IsCall
  <2>3. sent = [request |-> c.request, at |-> "handling", work |-> "queued", received |-> m,
                result |-> c.result, outcome |-> c.outcome, answer |-> c.answer]
    <3> DEFINE d == [c EXCEPT !.at = "handling"]
    <3>1. sent = [d EXCEPT !.work = "queued", !.received = m]
      BY Zenon
    <3>2. d = [request |-> c.request, at |-> "handling", work |-> c.work,
               received |-> c.received, result |-> c.result, outcome |-> c.outcome,
               answer |-> c.answer]
      BY <2>2
    <3> HIDE DEF d, sent
    <3> QED BY <3>1, <3>2
  <2> HIDE DEF sent
  <2>4. c.result = NoResult
    BY <1>1, <1>4 DEF CallFine, WorkIsOnTheRequest
  <2>5. WorkIsOnTheRequest(sent)
    BY <1>8, <2>3, <2>4 DEF WorkIsOnTheRequest, m
  <2>6. IsCall(sent) /\ LivesGoTogether(sent) /\ OutcomeHolds(sent, actors, server = "serving")
    BY <1>1, <2>3 DEF IsCall, LivesGoTogether, OutcomeHolds, Outcomes
  <2> QED BY <1>3, <2>1, <2>3, <2>5, <2>6 DEF CallFine
<1> QED BY <1>3, <1>5, <1>6, <1>7, <1>8

LEMMA ReturnsKeeps ==
  ASSUME CallsAreFine, ServerCameFirst, NEW q \in CallIds, HandlerReturns(q)
  PROVE  CallsAreFine' /\ ServerCameFirst'
<1> DEFINE c == call[q]
           new == IF c.result.status = "ok" THEN Answered(c, c.result.response)
                  ELSE Ended(c, StatusCode(c.result))
<1>1. CallFine(q, c, actors, server = "serving") /\ c.at = "handling" /\ c.work = "done"
  BY DEF CallsAreFine, HandlerReturns
<1>2. /\ server \in {"serving", "draining", "down"} /\ UNCHANGED <<meshVars, server>>
      /\ Set(q, new)
  BY <1>1 DEF ServerCameFirst, HandlerReturns
<1> HIDE DEF c
<1>3. CASE c.result.status = "ok"
  <2>1. /\ c.request.op # "download_artifact_file"
        /\ IsResponse(c.request.op, c.result.response)
    BY <1>1, <1>3, ResultsAreAnswers DEF DomainErrors
  <2>2. CallFine(q, Answered(c, c.result.response), actors, server = "serving")
    BY <1>1, <1>3, <2>1, AnsweredIsFine
  <2> QED BY <1>2, <1>3, <2>2, OneCallChanges
<1>4. CASE c.result.status # "ok"
  <2> DEFINE code == StatusCode(c.result)
  <2>1. c.result.status \in DomainErrors \cup {"other"} /\ c.result.quoted \in BOOLEAN
    BY <1>1, <1>4, ResultsAreAnswers
  <2>2. /\ code \in {"INTERNAL", "INVALID_ARGUMENT", "NOT_FOUND", "UNAVAILABLE"}
        /\ code # "INTERNAL" => MapRpcError(code) = c.result.status
        /\ code = "INTERNAL" => c.result.status = "other" \/ c.result.quoted
    BY <2>1 DEF StatusCode, DomainErrors, MapRpcError
  <2>3. CallFine(q, Ended(c, code), actors, server = "serving")
    <3> HIDE DEF code
    <3> QED BY <1>1, <1>4, <2>2, EndedIsFine
  <2> QED BY <1>2, <1>4, <2>3, OneCallChanges
<1> QED BY <1>3, <1>4

LEMMA TimesOutKeeps ==
  ASSUME CallsAreFine, ServerCameFirst, NEW q \in CallIds, HandlerTimesOut(q)
  PROVE  CallsAreFine' /\ ServerCameFirst'
<1> DEFINE c == call[q]
<1>1. CallFine(q, c, actors, server = "serving") /\ c.at = "handling"
  BY DEF CallsAreFine, HandlerTimesOut
<1>2. server \in {"serving", "draining", "down"} /\ UNCHANGED <<meshVars, server>>
  BY <1>1 DEF ServerCameFirst, HandlerTimesOut
<1>3. c.work \in {"queued", "done"}
  BY <1>1 DEF CallFine, IsCall, LivesGoTogether
<1>4. CASE Set(q, Ended(c, "DEADLINE_EXCEEDED"))
  <2>1. CallFine(q, Ended(c, "DEADLINE_EXCEEDED"), actors, server = "serving")
    BY <1>1, EndedIsFine
  <2> QED BY <1>2, <1>4, <2>1, OneCallChanges
<1>5. CASE /\ c.work # "done" /\ ~(ActorsOf(c.request.op) \subseteq actors)
           /\ Set(q, Ended(c, "INTERNAL"))
  <2>1. CallFine(q, Ended(c, "INTERNAL"), actors, server = "serving")
    BY <1>1, <1>3, <1>5, EndedIsFine
  <2> QED BY <1>2, <1>5, <2>1, OneCallChanges
<1> QED BY <1>4, <1>5 DEF HandlerTimesOut, Op

\* The actors take a message, whether or not its client has been told anything.
LEMMA ExecuteKeeps ==
  ASSUME CallsAreFine, ServerCameFirst, NEW q \in CallIds, Execute(q)
  PROVE  CallsAreFine' /\ ServerCameFirst'
<1> DEFINE c == call[q]
<1>1. /\ CallFine(q, c, actors, server = "serving") /\ c.work = "queued"
      /\ ActorsOf(c.request.op) \subseteq actors
  BY DEF CallsAreFine, Execute, Op
<1>2. PICK result \in Refusals(c.request.op, c.received) \cup Results[c.request.op] :
        Set(q, [c EXCEPT !.work = "done", !.result = result])
  BY DEF Execute, Op
<1> DEFINE new == [c EXCEPT !.work = "done", !.result = result]
<1>3. UNCHANGED <<meshVars, server>> /\ c.at # "idle"
  BY <1>1 DEF Execute, CallFine, NoCall
<1>4. server \in {"serving", "draining", "down"}
  BY <1>3 DEF ServerCameFirst
<1> HIDE DEF c
<1>5. c = [request |-> c.request, at |-> c.at, work |-> c.work, received |-> c.received,
           result |-> c.result, outcome |-> c.outcome, answer |-> c.answer]
  BY <1>1 DEF CallFine, IsCall
<1>6. new = [request |-> c.request, at |-> c.at, work |-> "done", received |-> c.received,
             result |-> result, outcome |-> c.outcome, answer |-> c.answer]
  <2> DEFINE d == [c EXCEPT !.work = "done"]
  <2>1. new = [d EXCEPT !.result = result]
    BY Zenon
  <2>2. d = [request |-> c.request, at |-> c.at, work |-> "done", received |-> c.received,
             result |-> c.result, outcome |-> c.outcome, answer |-> c.answer]
    BY <1>5
  <2> HIDE DEF d, new
  <2> QED BY <2>1, <2>2
<1> HIDE DEF new
<1>7. OutcomeHolds(new, actors, server = "serving")
  BY <1>1, <1>6 DEF CallFine, OutcomeHolds, WorkIsOnTheRequest
<1>8. WorkIsOnTheRequest(new)
  BY <1>1, <1>2, <1>6 DEF CallFine, WorkIsOnTheRequest
<1>9. CallFine(q, new, actors, server = "serving")
  BY <1>1, <1>3, <1>6, <1>7, <1>8 DEF CallFine, IsCall, LivesGoTogether
<1>10. Set(q, new)
  BY <1>2 DEF new
<1> QED BY <1>3, <1>4, <1>9, <1>10, OneCallChanges

\* The grace period is over: the calls under way end for their clients only.
LEMMA GraceKeeps ==
  ASSUME CallsAreFine, ServerCameFirst, GraceEnds
  PROVE  CallsAreFine' /\ ServerCameFirst'
<1>1. PICK code \in {"CANCELLED", "UNAVAILABLE"} :
        call' = [q \in CallIds |->
          IF Active(q) THEN [call[q] EXCEPT !.outcome = MapRpcError(code)] ELSE call[q]]
  BY DEF GraceEnds
<1>2. server = "draining" /\ server' = server /\ actors' = actors /\ mesh' = mesh
  BY DEF GraceEnds, meshVars
<1> DEFINE o == MapRpcError(code)
<1>3. o \in {"CANCELLED", "BackendUnavailableError"}
  BY DEF MapRpcError
<1>4. ASSUME NEW q \in CallIds
      PROVE  CallFine(q, call'[q], actors, FALSE) /\ call'[q].at = call[q].at
  <2> DEFINE c == call[q]
  <2>1. CallFine(q, c, actors, FALSE)
    BY <1>2 DEF CallsAreFine
  <2>2. CASE ~Active(q)
    <3>1. call'[q] = c
      BY <1>1, <2>2
    <3> QED BY <2>1, <3>1
  <2>3. CASE Active(q)
    <3>1. c.at \in {"pool", "handling"}
      BY <2>3 DEF Active
    <3>2. call'[q] = [c EXCEPT !.outcome = o]
      BY <1>1, <2>3
    <3> HIDE DEF c, o
    <3>3. call'[q] = [request |-> c.request, at |-> c.at, work |-> c.work,
                      received |-> c.received, result |-> c.result, outcome |-> o,
                      answer |-> c.answer]
      BY <2>1, <3>2 DEF CallFine, IsCall
    <3>4. CallFine(q, call'[q], actors, FALSE)
      BY <1>3, <2>1, <3>1, <3>3
      DEF CallFine, IsCall, WorkIsOnTheRequest, LivesGoTogether, OutcomeHolds, Outcomes,
          DomainErrors, TransportErrors
    <3>5. call'[q].at = c.at
      BY <3>3
    <3> QED BY <3>4, <3>5 DEF c
  <2> QED BY <2>2, <2>3
<1>5. call' = [q \in CallIds |-> call'[q]]
  BY <1>1
<1>6. (server = "serving")' = FALSE
  BY <1>2
<1> QED BY <1>2, <1>4, <1>5 DEF CallsAreFine, ServerCameFirst

\* The server and the mesh go on, the calls stay as they are.
LEMMA ServerKeeps ==
  ASSUME MInv, CallsAreFine, ServerCameFirst, MeshStep, call' = call,
         \/ server' = server
         \/ server = "absent" /\ mesh = "started" /\ server' \in {"serving", "bind_failed"}
         \/ server = "serving" /\ server' = "draining"
         \/ server = "draining" /\ server' = "down"
  PROVE  CallsAreFine' /\ ServerCameFirst'
<1>1. server # "absent" \/ mesh = "started" => actors' \subseteq actors /\ mesh' # "starting"
  BY ActorsOnlyLeave DEF ServerCameFirst
<1>2. ServerCameFirst'
  BY <1>1 DEF ServerCameFirst
<1>3. ASSUME NEW q \in CallIds PROVE CallFine(q, call'[q], actors', server' = "serving")
  <2>1. CallFine(q, call[q], actors, server = "serving")
    BY DEF CallsAreFine
  <2>2. call[q].at # "idle" =>
          actors' \subseteq actors /\ (server' = "serving" => server = "serving")
    BY <1>1 DEF ServerCameFirst
  <2> QED BY <2>1, <2>2, CallsStayFine
<1> QED BY <1>2, <1>3 DEF CallsAreFine

-----------------------------------------------------------------------------
(* The service                                                              *)

GInv == MInv /\ CallsAreFine /\ ServerCameFirst

LEMMA InitGInv == Init => GInv
<1> SUFFICES ASSUME Init PROVE GInv
  OBVIOUS
<1>1. NoCall.at = "idle"
  BY DEF NoCall
<1>2. \A q : CallFine(q, NoCall, actors, server = "serving")
  BY DEF NoCall, CallFine, IsCall, WorkIsOnTheRequest, LivesGoTogether, OutcomeHolds, Outcomes
<1> QED BY <1>1, <1>2, MeshInitInv DEF Init, GInv, CallsAreFine, ServerCameFirst

LEMMA StepGInv == ASSUME GInv, [Next]_vars PROVE GInv'
<1>1. MeshStep /\ MInv'
  BY ServiceMovesMesh, MeshStepKeeps DEF GInv
<1> USE DEF GInv
<1>2. CASE UNCHANGED vars
  BY <1>1, <1>2, ServerKeeps DEF vars
<1>3. CASE MeshSteps
  BY <1>1, <1>3, ServerKeeps DEF MeshSteps
<1>4. CASE Bind
  BY <1>1, <1>4, ServerKeeps DEF Bind
<1>5. CASE BeginStop
  BY <1>1, <1>5, ServerKeeps DEF BeginStop
<1>6. CASE GraceEnds
  BY <1>1, <1>6, GraceKeeps
<1>7. CASE Drained
  BY <1>1, <1>7, ServerKeeps DEF Drained
<1>8. CASE Close
  BY <1>1, <1>8, ServerKeeps DEF Close
<1>9. ASSUME NEW q \in CallIds, ClientGivesUp(q) PROVE GInv'
  BY <1>1, <1>9, GivesUpKeeps
<1>10. ASSUME NEW q \in CallIds, Handle(q) PROVE GInv'
  BY <1>1, <1>10, DropKeeps, StartKeeps, ReturnsKeeps, TimesOutKeeps DEF Handle
<1>11. ASSUME NEW q \in CallIds, Execute(q) PROVE GInv'
  BY <1>1, <1>11, ExecuteKeeps
<1>12. ASSUME NEW q \in CallIds, NEW r \in Requests[q], Call(q, r) PROVE GInv'
  BY <1>1, <1>12, CallKeeps
<1> QED BY <1>2, <1>3, <1>4, <1>5, <1>6, <1>7, <1>8, <1>9, <1>10, <1>11, <1>12 DEF Next

THEOREM ServiceInvariance == Spec => []GInv
<1>1. GInv /\ [Next]_vars => GInv'
  BY StepGInv
<1> QED BY InitGInv, <1>1, PTL DEF Spec

\* Server, calls and mesh keep their types, for any calls, requests, results and threads.
THEOREM TypeCorrect == Spec => [](GrpcTypeOK /\ MeshTypeOK)
<1>1. GInv => GrpcTypeOK /\ MeshTypeOK
  BY DEF GInv, MInv, CallsAreFine, ServerCameFirst, CallFine, IsCall, NoCall, GrpcTypeOK
<1> QED BY <1>1, ServiceInvariance, PTL

\* conversion.py, server.py and client.py: an actor gets what the caller made, with the items
\* of tensors as floats and a top_p of 0 as 1; it refuses what it would refuse of a local
\* caller; and no number that is not an enum's arrives, from any client.  For any requests
\* with the fields of their dataclass.
THEOREM ConversionsAreFaithful == Spec => []RequestsArriveAsMade
<1>1. GInv => RequestsArriveAsMade
  <2> SUFFICES ASSUME GInv, NEW q \in CallIds, call[q].received # Nothing
               PROVE  Arrives(call[q].request, call[q].received)
    BY DEF RequestsArriveAsMade, Arrives, Op, Body
  <2> DEFINE c == call[q]
  <2>1. CallFine(q, c, actors, server = "serving") /\ c.received # Nothing
    BY DEF GInv, CallsAreFine
  <2>2. /\ c.work # "none" /\ c.at # "idle" /\ c.request \in Requests[q]
        /\ ~Unsupported(c.request.op, Message(c.request))
        /\ c.received = RequestFromProto(c.request.op, Message(c.request))
    BY <2>1 DEF CallFine, IsCall, NoCall, WorkIsOnTheRequest
  <2> QED BY <2>2, MessagesArrive
<1> QED BY <1>1, ServiceInvariance, PTL

\* server.py and client.py: a client that is told its request was invalid or named something
\* unknown knows that no actor carried it out, success is what the actors answered, and an
\* error keeps its class where its text can be read, whatever deadlines, timeouts, exits and
\* stops run beside the call.
THEOREM ClientsAreToldTheTruth == Spec => []OutcomesAreTrue
<1>1. GInv => OutcomesAreTrue
  <2> SUFFICES ASSUME GInv, NEW q \in CallIds
               PROVE  LET c == call[q] IN
                      /\ c.outcome = "ok" /\ Op(q) # "download_artifact_file" =>
                           c.result.status = "ok" /\ c.answer = c.result.response
                      /\ c.outcome = "ok" /\ Op(q) = "download_artifact_file" =>
                           c.answer.contents = PathOf(Body(q))
                      /\ c.outcome \in {"InvalidRequestError", "NotFoundError"} =>
                           c.result.status # "ok"
                      /\ c.outcome = "INTERNAL" /\ c.work = "done" =>
                           \/ c.result.status = "other"
                           \/ c.result.status # "ok" /\ c.result.quoted
                      /\ c.outcome \in DomainErrors /\ c.work = "done"
                         /\ server \in {"serving"} => c.outcome = c.result.status
    BY DEF OutcomesAreTrue
  <2> DEFINE c == call[q]
  <2>1. CallFine(q, c, actors, server = "serving")
    BY DEF GInv, CallsAreFine
  <2>2. OutcomeHolds(c, actors, server = "serving") /\ WorkIsOnTheRequest(c)
    BY <2>1 DEF CallFine
  <2>3. Op(q) = c.request.op /\ Body(q) = c.request.body
    BY DEF Op, Body
  <2> HIDE DEF c
  <2>4. c.outcome \in {"InvalidRequestError", "NotFoundError"} => c.result.status # "ok"
    BY <2>2 DEF OutcomeHolds, WorkIsOnTheRequest, NoResult
  <2>5. c.outcome \in DomainErrors /\ c.work = "done" /\ server = "serving" =>
          c.outcome = c.result.status
    BY <2>2 DEF OutcomeHolds, DomainErrors
  <2> QED BY <2>2, <2>3, <2>4, <2>5 DEF OutcomeHolds, c
<1> QED BY <1>1, ServiceInvariance, PTL
\* client.py: what a client was told, and the answer it got, it was told once: no late answer
\* of a handler or of the actors changes it, nor does the end of the server.
AnswersAreFinal ==
  [][\A q \in CallIds :
       call[q].outcome \notin {"none", "waiting"} =>
         call'[q].outcome = call[q].outcome /\ call'[q].answer = call[q].answer]_vars

THEOREM OneAnswerForACall == Spec => AnswersAreFinal
<1> DEFINE Kept(q) == call'[q].outcome = call[q].outcome /\ call'[q].answer = call[q].answer
<1>1. ASSUME GInv, Next, NEW q \in CallIds, call[q].outcome \notin {"none", "waiting"}
      PROVE  Kept(q)
  <2>1. CallFine(q, call[q], actors, server = "serving") /\ call = [p \in CallIds |-> call[p]]
    BY <1>1 DEF GInv, CallsAreFine
  <2>2. /\ call[q].at # "idle" /\ call[q].outcome # "waiting"
        /\ call[q] = [request |-> call[q].request, at |-> call[q].at, work |-> call[q].work,
                      received |-> call[q].received, result |-> call[q].result,
                      outcome |-> call[q].outcome, answer |-> call[q].answer]
    BY <1>1, <2>1 DEF CallFine, IsCall, NoCall
  <2>3. ASSUME NEW p \in CallIds, NEW new, Set(p, new), p # q PROVE Kept(q)
    BY <2>1, <2>3 DEF Set
  <2>4. ASSUME NEW new, Set(q, new),
               new.outcome = call[q].outcome /\ new.answer = call[q].answer
        PROVE  Kept(q)
    BY <2>1, <2>4 DEF Set
  <2>5. CASE call' = call
    BY <2>5
  <2>6. CASE GraceEnds
    BY <1>1, <2>6 DEF GraceEnds, Active, Waiting
  <2>7. ASSUME NEW code PROVE LET new == Ended(call[q], code) IN
                              new.outcome = call[q].outcome /\ new.answer = call[q].answer
    BY <2>2 DEF Ended
  <2>8. ASSUME NEW v PROVE LET new == Answered(call[q], v) IN
                           new.outcome = call[q].outcome /\ new.answer = call[q].answer
    BY <2>2 DEF Answered
  <2>9. ASSUME NEW p \in CallIds, ClientGivesUp(p) PROVE Kept(q)
    BY <2>2, <2>3, <2>9 DEF ClientGivesUp, Waiting
  <2>10. ASSUME NEW p \in CallIds, DropAbandoned(p) PROVE Kept(q)
    <3>1. CASE p = q
      <4>1. Set(q, Ended(call[q], "CANCELLED"))
        BY <2>2, <2>10, <3>1 DEF DropAbandoned, Ended
      <4> QED BY <2>4, <2>7, <4>1
    <3> QED BY <2>3, <2>10, <3>1 DEF DropAbandoned
  <2>11. ASSUME NEW p \in CallIds, StartHandler(p) PROVE Kept(q)
    BY <2>2, <2>3, <2>11 DEF StartHandler, Waiting
  <2>12. ASSUME NEW p \in CallIds, HandlerReturns(p) PROVE Kept(q)
    BY <2>3, <2>4, <2>7, <2>8, <2>12 DEF HandlerReturns
  <2>13. ASSUME NEW p \in CallIds, HandlerTimesOut(p) PROVE Kept(q)
    BY <2>3, <2>4, <2>7, <2>13 DEF HandlerTimesOut
  <2>14. ASSUME NEW p \in CallIds, Execute(p) PROVE Kept(q)
    <3>1. PICK result : Set(p, [call[p] EXCEPT !.work = "done", !.result = result])
      BY <2>14 DEF Execute
    <3>2. CASE p = q
      <4> DEFINE c == call[q]
                 d == [c EXCEPT !.work = "done"]
                 new == [d EXCEPT !.result = result]
      <4>1. d.outcome = c.outcome /\ d.answer = c.answer /\ DOMAIN d = DOMAIN c
        BY <2>2
      <4>2. new.outcome = c.outcome /\ new.answer = c.answer
        <5> HIDE DEF d
        <5> QED BY <4>1, <2>2
      <4>3. Set(q, new)
        BY <3>1, <3>2, Zenon
      <4> HIDE DEF new
      <4> QED BY <2>4, <4>2, <4>3
    <3> QED BY <2>3, <3>1, <3>2
  <2>15. ASSUME NEW p \in CallIds, NEW r \in Requests[p], Call(p, r) PROVE Kept(q)
    BY <2>2, <2>3, <2>15 DEF Call
  <2>16. CASE MeshSteps \/ Bind \/ BeginStop \/ Drained \/ Close
    BY <2>5, <2>16 DEF MeshSteps, Bind, BeginStop, Drained, Close
  <2> HIDE DEF Kept
  <2> QED BY <1>1, <2>6, <2>9, <2>10, <2>11, <2>12, <2>13, <2>14, <2>15, <2>16 DEF Next, Handle
<1>2. GInv /\ [Next]_vars =>
        [\A q \in CallIds :
           call[q].outcome \notin {"none", "waiting"} =>
             call'[q].outcome = call[q].outcome /\ call'[q].answer = call[q].answer]_vars
  BY <1>1
<1> QED BY <1>2, ServiceInvariance, PTL DEF Spec, AnswersAreFinal

=============================================================================
