------------------------------ MODULE LocalMesh ------------------------------
(***************************************************************************)
(* src/ganker/orchestration.py: the actors of a process, started and        *)
(* stopped by a list of calls, each of which may raise or time out.         *)
(*                                                                         *)
(* The local topology keeps its actors in one mesh of processes.  The       *)
(* distributed one keeps the trainer and the rollout with two workers,      *)
(* subprocesses that may exit at any moment and need not obey SIGTERM.      *)
(***************************************************************************)
EXTENDS Integers, Sequences, FiniteSets

CONSTANT MaxStops        \* bound on the stops of one mesh: a stop that raised is repeated

ASSUME MaxStopsAssumption == MaxStops \in Nat

VARIABLES
  topology,      \* "local" or "distributed"
  mesh,          \* what is being done with the mesh, or was
  step,          \* the call of the list that comes next
  stops,
  actors,        \* the actors that run
  procs,         \* the meshes of processes that run
  hosts,         \* the workers the controller is attached to
  worker,        \* worker[r]: the subprocess of a role
  tmpdir         \* worker_tmpdir exists

meshVars == <<topology, mesh, step, stops, actors, procs, hosts, worker, tmpdir>>

Roles == {"trainer", "rollout"}
Meshes == {"starting", "started", "start_failed", "stopping", "stopped", "stop_failed"}

LocalActors == <<"training", "rollout", "telemetry", "proxy">>
DistributedActors == <<"training", "rollout", "telemetry", "controller", "proxy">>
ActorNames == {DistributedActors[i] : i \in DOMAIN DistributedActors}
ProcsNames == {"procs", "trainer_procs", "rollout_procs", "controller_procs"}

\* The processes an actor is spawned on, and the worker these are with.
ProcsOf(a) ==
  CASE topology = "local" -> "procs"
    [] a = "training" -> "trainer_procs"
    [] a = "rollout" -> "rollout_procs"
    [] OTHER -> "controller_procs"
RoleOf(p) ==
  CASE p = "trainer_procs" -> "trainer" [] p = "rollout_procs" -> "rollout" [] OTHER -> "none"

MeshTypeOK ==
  /\ topology \in {"local", "distributed"}
  /\ mesh \in Meshes
  /\ step \in Nat
  /\ stops \in 0 .. MaxStops
  /\ actors \subseteq ActorNames
  /\ procs \subseteq ProcsNames
  /\ hosts \subseteq Roles
  /\ worker \in [Roles -> {"absent", "running", "signalled", "exited"}]
  /\ tmpdir \in BOOLEAN

-----------------------------------------------------------------------------
(* The lists of calls *)

Each(do, names) == [i \in DOMAIN names |-> [do |-> do, on |-> names[i]]]

LocalStart ==
  <<[do |-> "spawn_procs", on |-> "procs"]>> \o
  Each("spawn", LocalActors) \o Each("initialized", LocalActors)

DistributedStart ==
  <<[do |-> "start_worker", on |-> "trainer"], [do |-> "start_worker", on |-> "rollout"]>> \o
  Each("attach", <<"trainer", "rollout">>) \o
  Each("spawn_procs", <<"trainer_procs", "rollout_procs", "controller_procs">>) \o
  Each("spawn", DistributedActors) \o Each("initialized", DistributedActors)

LocalStop ==
  Each("shutdown", LocalActors) \o
  Each("stop", <<"proxy", "training", "rollout", "telemetry">>) \o
  Each("stop_procs", <<"procs">>)

DistributedStop ==
  LET order == <<"proxy", "controller", "training", "rollout", "telemetry">> IN
  Each("shutdown", order) \o Each("stop", order) \o
  Each("stop_procs", <<"trainer_procs", "rollout_procs", "controller_procs">>) \o
  Each("stop_hosts", <<"trainer", "rollout">>) \o
  Each("terminate", <<"trainer", "rollout">>) \o
  Each("wait", <<"trainer", "rollout">>) \o
  <<[do |-> "rmtree", on |-> "none"]>>

Calls ==
  IF mesh = "starting"
  THEN IF topology = "local" THEN LocalStart ELSE DistributedStart
  ELSE IF topology = "local" THEN LocalStop ELSE DistributedStop

Busy == mesh \in {"starting", "stopping"}
Now(do) == Busy /\ Calls[step].do = do
On == Calls[step].on

Advance ==
  /\ step' = step + 1
  /\ mesh' = IF step < Len(Calls) THEN mesh
             ELSE IF mesh = "starting" THEN "started" ELSE "stopped"
  /\ UNCHANGED <<topology, stops>>

-----------------------------------------------------------------------------
(* The calls that return *)

MeshInit ==
  /\ topology \in {"local", "distributed"}
  /\ mesh = "starting"
  /\ step = 1
  /\ stops = 0
  /\ actors = {} /\ procs = {} /\ hosts = {}
  /\ worker = [r \in Roles |-> "absent"]
  /\ tmpdir = (topology = "distributed")

\* The worker's endpoint is published as "ready" at once.
StartWorker ==
  /\ Now("start_worker") /\ Advance
  /\ worker' = [worker EXCEPT ![On] = "running"]
  /\ UNCHANGED <<actors, procs, hosts, tmpdir>>

Attach ==
  /\ Now("attach") /\ Advance
  /\ worker[On] = "running"
  /\ hosts' = hosts \cup {On}
  /\ UNCHANGED <<actors, procs, worker, tmpdir>>

SpawnProcs ==
  /\ Now("spawn_procs") /\ Advance
  /\ RoleOf(On) \in Roles => worker[RoleOf(On)] = "running"
  /\ procs' = procs \cup {On}
  /\ UNCHANGED <<actors, hosts, worker, tmpdir>>

Spawn ==
  /\ Now("spawn") /\ Advance
  /\ ProcsOf(On) \in procs
  /\ actors' = actors \cup {On}
  /\ UNCHANGED <<procs, hosts, worker, tmpdir>>

\* actor.initialized or shutdown(): the actor runs, and answers in ten seconds.
Answers ==
  /\ Now("initialized") \/ Now("shutdown")
  /\ Advance
  /\ On \in actors
  /\ UNCHANGED <<actors, procs, hosts, worker, tmpdir>>

StopActor ==
  /\ Now("stop") /\ Advance
  /\ On \in actors
  /\ actors' = actors \ {On}
  /\ UNCHANGED <<procs, hosts, worker, tmpdir>>

StopProcs ==
  /\ Now("stop_procs") /\ Advance
  /\ On \in procs
  /\ procs' = procs \ {On}
  /\ actors' = {a \in actors : ProcsOf(a) # On}
  /\ UNCHANGED <<hosts, worker, tmpdir>>

StopHosts ==
  /\ Now("stop_hosts") /\ Advance
  /\ hosts' = hosts \ {On}
  /\ UNCHANGED <<actors, procs, worker, tmpdir>>

\* SIGTERM, if the worker has not exited.
Signalled(r) == IF worker[r] = "running" THEN "signalled" ELSE worker[r]

Terminate ==
  /\ Now("terminate") /\ Advance
  /\ worker' = [worker EXCEPT ![On] = Signalled(On)]
  /\ UNCHANGED <<actors, procs, hosts, tmpdir>>

\* What dies with the worker of role r.
Dies(r) ==
  LET lost == {p \in procs : RoleOf(p) = r} IN
  /\ worker' = [worker EXCEPT ![r] = "exited"]
  /\ procs' = procs \ lost
  /\ actors' = {a \in actors : ProcsOf(a) \notin lost}
  /\ UNCHANGED <<hosts, tmpdir>>

\* Mutant: a worker that does not exit in ten seconds is given up.
WaitNoKill ==
  /\ Now("wait") /\ Advance
  /\ UNCHANGED <<actors, procs, hosts, worker, tmpdir>>

\* The worker has exited, or is killed after ten seconds, and SIGKILL ends it.
Wait ==
  /\ Now("wait") /\ Advance
  /\ IF worker[On] \in {"running", "signalled"} THEN Dies(On)
     ELSE UNCHANGED <<actors, procs, hosts, worker, tmpdir>>

RemoveTmpdir ==
  /\ Now("rmtree") /\ Advance
  /\ tmpdir' = FALSE
  /\ UNCHANGED <<actors, procs, hosts, worker>>

-----------------------------------------------------------------------------
(* The calls that raise or time out *)

\* The actors of the local mesh stay, with nobody who holds them; the workers of the
\* distributed one get SIGTERM, and nobody waits for them.
StartFails ==
  /\ mesh = "starting"
  /\ mesh' = "start_failed"
  /\ worker' = [r \in Roles |-> Signalled(r)]
  /\ tmpdir' = FALSE
  /\ UNCHANGED <<topology, step, stops, actors, procs, hosts>>

\* What timed out may still happen.
Happens ==
  \/ UNCHANGED <<actors, procs>>
  \/ Calls[step].do = "stop" /\ actors' = actors \ {On} /\ UNCHANGED procs

Raising == {"shutdown", "stop", "stop_procs", "stop_hosts"}

\* The local stop ends at the first call that raises.
LocalStopFails ==
  /\ topology = "local" /\ mesh = "stopping"
  /\ mesh' = "stop_failed"
  /\ Happens
  /\ UNCHANGED <<topology, step, stops, hosts, worker, tmpdir>>

\* The distributed stop passes over it.
CallSkipped ==
  /\ topology = "distributed" /\ mesh = "stopping"
  /\ Calls[step].do \in Raising
  /\ Advance
  /\ Happens
  /\ UNCHANGED <<hosts, worker, tmpdir>>

-----------------------------------------------------------------------------
\* stop(), for the first time or again after it raised.
BeginMeshStop ==
  /\ mesh \in {"started", "stop_failed"}
  /\ stops < MaxStops
  /\ stops' = stops + 1
  /\ mesh' = "stopping"
  /\ step' = 1
  /\ UNCHANGED <<topology, actors, procs, hosts, worker, tmpdir>>

WorkerExits(r) ==
  /\ worker[r] \in {"running", "signalled"}
  /\ Dies(r)
  /\ UNCHANGED <<topology, mesh, step, stops>>

MeshReturns ==
  \/ StartWorker \/ Attach \/ SpawnProcs \/ Spawn \/ Answers
  \/ StopActor \/ StopProcs \/ StopHosts \/ Terminate \/ Wait \/ RemoveTmpdir

MeshRaises == StartFails \/ LocalStopFails \/ CallSkipped

MeshMoves == MeshReturns \/ MeshRaises

\* A call ends, if only by its timeout, and a worker obeys SIGTERM, sooner or later.
MeshFairness ==
  /\ WF_meshVars(MeshMoves)
  /\ \A r \in Roles : WF_meshVars(worker[r] = "signalled" /\ WorkerExits(r))

-----------------------------------------------------------------------------
(* Properties *)

\* A local stop() that returns has stopped every actor and process.  The distributed one
\* always gets to its end, and then no worker and nothing a worker ran is left; a start that
\* raised leaves no worker without a signal.
CleanupIsComplete ==
  /\ mesh = "stopped" /\ topology = "local" => actors = {} /\ procs = {}
  /\ mesh = "stopped" /\ topology = "distributed" =>
       /\ \A r \in Roles : worker[r] = "exited"
       /\ procs \subseteq {"controller_procs"}
       /\ \A a \in actors : ProcsOf(a) = "controller_procs"
       /\ ~tmpdir
  /\ mesh = "stop_failed" => topology = "local"
  /\ mesh = "start_failed" => ~tmpdir /\ \A r \in Roles : worker[r] # "running"
=============================================================================
