---------------------------- MODULE SGLangRollout ----------------------------
(***************************************************************************)
(* SGLangInferenceBackend over SGLangHTTPRuntime                           *)
(* (src/ganker/backends/sglang.py): one rollout actor, the SGLang server   *)
(* process it launches or attaches to, and what the actor believes of it.  *)
(*                                                                         *)
(* The actor takes one call at a time, but the server is another process:  *)
(* it may become healthy, or exit, between any two requests of a call.     *)
(* What the server really holds (server, server_loras) and what the        *)
(* runtime remembers (active_model, loaded_loras, cache) are kept apart.   *)
(***************************************************************************)
EXTENDS Naturals

CONSTANTS
  Artifacts,             \* weight artifacts that have been saved
  RunOf,                 \* RunOf[a]: the run that saved a
  ModelPath,             \* ModelPath[a]: a's full checkpoint, or a LoRA's base model
  Loras,                 \* the artifacts in the LoRA adapter format
  Nothing                \* no artifact, no model

ASSUME RolloutAssumption ==
  /\ Nothing \notin Artifacts
  /\ Loras \subseteq Artifacts

Runs == {RunOf[a] : a \in Artifacts}
Models == {ModelPath[a] : a \in Artifacts}

VARIABLES
  server,                \* the server process the runtime launches, or "attached"
  active_model,          \* _active_model_path: what the server was launched with
  server_loras,          \* adapters the server holds
  loaded_loras,          \* _loaded_loras
  cache,                 \* _loaded_artifacts of the backend
  call,                  \* the call the actor is in
  sampled                \* the last generation: its artifact and the weights used

serverVars == <<server, active_model, server_loras>>
vars == <<serverVars, loaded_loras, cache, call, sampled>>

NoCall == [op |-> "none", artifact |-> Nothing, at |-> "idle"]
NotSampled == [artifact |-> Nothing, model |-> Nothing, lora |-> Nothing]
Points == {"ensure_server", "wait_for_health", "load_lora", "loaded", "generate"}

TypeOK ==
  /\ server \in {"none", "starting", "ready", "exited", "attached"}
  /\ active_model \in Models \cup {Nothing}
  /\ server_loras \in SUBSET Loras
  /\ loaded_loras \in SUBSET Loras
  /\ cache \in [Runs -> Artifacts \cup {Nothing}]
  /\ call \in {NoCall} \cup
       [op : {"refresh_weights", "sample"}, artifact : Artifacts, at : Points]
  /\ sampled \in [artifact : Artifacts \cup {Nothing}, model : Models \cup {Nothing},
                  lora : Loras \cup {Nothing}]

\* config.launch_server: otherwise the runtime attaches to a server that is there from
\* the start, and never launches or terminates it.
LaunchServer == server # "attached"
Ready == server \in {"ready", "attached"}

Init ==
  /\ server \in {"none", "attached"}
  /\ active_model = Nothing
  /\ server_loras = {}
  /\ loaded_loras = {}
  /\ cache = [r \in Runs |-> Nothing]
  /\ call = NoCall
  /\ sampled = NotSampled

-----------------------------------------------------------------------------
(* The server process *)

BecomesHealthy ==
  /\ server = "starting"
  /\ server' = "ready"
  /\ UNCHANGED <<active_model, server_loras, loaded_loras, cache, call, sampled>>

Exits ==
  /\ server \in {"starting", "ready"}
  /\ server' = "exited"
  /\ server_loras' = {}
  /\ UNCHANGED <<active_model, loaded_loras, cache, call, sampled>>

\* A server that was attached to is restarted by whoever runs it.
RestartsElsewhere ==
  /\ ~LaunchServer
  /\ server_loras # {}
  /\ server_loras' = {}
  /\ UNCHANGED <<server, active_model, loaded_loras, cache, call, sampled>>

-----------------------------------------------------------------------------
(* Calls *)

\* The artifact is given, or the run's latest: any of the run's artifacts.
BeginRefresh(a) ==
  /\ call = NoCall
  /\ call' = [op |-> "refresh_weights", artifact |-> a, at |-> "ensure_server"]
  /\ UNCHANGED <<serverVars, loaded_loras, cache, sampled>>

\* A sample loads the latest artifact only when the run has none loaded.
BeginSample(r) ==
  /\ call = NoCall
  /\ \/ /\ cache[r] # Nothing
        /\ call' = [op |-> "sample", artifact |-> cache[r], at |-> "generate"]
     \/ /\ cache[r] = Nothing
        /\ \E a \in Artifacts :
             /\ RunOf[a] = r
             /\ call' = [op |-> "sample", artifact |-> a, at |-> "ensure_server"]
  /\ UNCHANGED <<serverVars, loaded_loras, cache, sampled>>

GoTo(point) == call' = [call EXCEPT !.at = point]

\* An exception: the call ends, everything else stays as it is.
Fail ==
  /\ call' = NoCall
  /\ UNCHANGED <<serverVars, loaded_loras, cache, sampled>>

WithServer == IF call.artifact \in Loras THEN "load_lora" ELSE "loaded"

\* MUTANT of KeepServer: any living server will do.
KeepServerAnyModel ==
  /\ call.at = "ensure_server"
  /\ server \in {"starting", "ready"}
  /\ GoTo(WithServer)
  /\ UNCHANGED <<serverVars, loaded_loras, cache, sampled>>

\* _ensure_server keeps a server that runs the right model, healthy or not, and
\* one it only attached to.
KeepServer ==
  /\ call.at = "ensure_server"
  /\ \/ ~LaunchServer
     \/ server \in {"starting", "ready"} /\ active_model = ModelPath[call.artifact]
  /\ GoTo(WithServer)
  /\ UNCHANGED <<serverVars, loaded_loras, cache, sampled>>

\* MUTANT of LaunchAnother: _loaded_loras is not cleared.
LaunchAnotherRemembers ==
  /\ call.at = "ensure_server"
  /\ LaunchServer
  /\ server \in {"none", "exited"} \/ active_model # ModelPath[call.artifact]
  /\ server' = "starting"
  /\ active_model' = ModelPath[call.artifact]
  /\ server_loras' = {}
  /\ GoTo("wait_for_health")
  /\ UNCHANGED <<loaded_loras, cache, sampled>>

\* Otherwise it terminates what is there and launches another server.
LaunchAnother ==
  /\ call.at = "ensure_server"
  /\ LaunchServer
  /\ server \in {"none", "exited"} \/ active_model # ModelPath[call.artifact]
  /\ server' = "starting"
  /\ active_model' = ModelPath[call.artifact]
  /\ server_loras' = {}
  /\ loaded_loras' = {}
  /\ GoTo("wait_for_health")
  /\ UNCHANGED <<cache, sampled>>

\* One of the repeated GETs of /health is answered.
Healthy ==
  /\ call.at = "wait_for_health"
  /\ server = "ready"
  /\ GoTo(WithServer)
  /\ UNCHANGED <<serverVars, loaded_loras, cache, sampled>>

\* MUTANT of NotHealthy: no startup_timeout.
NotHealthyExited ==
  /\ call.at = "wait_for_health"
  /\ server = "exited"
  /\ Fail

\* The process exited, or startup_timeout passed: the process is left alone.
NotHealthy ==
  /\ call.at = "wait_for_health"
  /\ Fail

AlreadyLoaded ==
  /\ call.at = "load_lora"
  /\ call.artifact \in loaded_loras
  /\ GoTo("loaded")
  /\ UNCHANGED <<serverVars, loaded_loras, cache, sampled>>

LoadLora ==
  /\ call.at = "load_lora"
  /\ call.artifact \notin loaded_loras
  /\ Ready
  /\ server_loras' = server_loras \cup {call.artifact}
  /\ loaded_loras' = loaded_loras \cup {call.artifact}
  /\ GoTo("loaded")
  /\ UNCHANGED <<server, active_model, cache, sampled>>

\* MUTANT of LoadLoraFails: _loaded_loras is written before the request.
LoadLoraFailsRemembered ==
  /\ call.at = "load_lora"
  /\ call.artifact \notin loaded_loras
  /\ loaded_loras' = loaded_loras \cup {call.artifact}
  /\ call' = NoCall
  /\ UNCHANGED <<serverVars, cache, sampled>>

\* The request was refused or lost, or its answer was lost.
LoadLoraFails ==
  /\ call.at = "load_lora"
  /\ call.artifact \notin loaded_loras
  /\ server_loras' \in {server_loras} \cup
       (IF Ready THEN {server_loras \cup {call.artifact}} ELSE {})
  /\ call' = NoCall
  /\ UNCHANGED <<server, active_model, loaded_loras, cache, sampled>>

\* The backend remembers the artifact; a sample goes on to generate.
Loaded ==
  /\ call.at = "loaded"
  /\ cache' = [cache EXCEPT ![RunOf[call.artifact]] = call.artifact]
  /\ call' = IF call.op = "sample" THEN [call EXCEPT !.at = "generate"] ELSE NoCall
  /\ UNCHANGED <<serverVars, loaded_loras, sampled>>

\* /generate names an adapter or none; the server rejects an unknown adapter.
Generate ==
  /\ call.at = "generate"
  /\ Ready
  /\ call.artifact \in Loras => call.artifact \in server_loras
  /\ sampled' = [artifact |-> call.artifact, model |-> active_model,
                 lora |-> IF call.artifact \in Loras THEN call.artifact ELSE Nothing]
  /\ call' = NoCall
  /\ UNCHANGED <<serverVars, loaded_loras, cache>>

GenerateFails ==
  /\ call.at = "generate"
  /\ Fail

\* RolloutActor.shutdown: the server is terminated, the runtime's memory stays.
Close ==
  /\ call = NoCall
  /\ server \in {"starting", "ready"}
  /\ server' = "exited"
  /\ server_loras' = {}
  /\ UNCHANGED <<active_model, loaded_loras, cache, call, sampled>>

-----------------------------------------------------------------------------
Goes ==
  \/ KeepServer
  \/ LaunchAnother
  \/ Healthy
  \/ NotHealthy
  \/ AlreadyLoaded
  \/ LoadLora
  \/ LoadLoraFails
  \/ Loaded
  \/ Generate
  \/ GenerateFails

Next ==
  \/ BecomesHealthy
  \/ Exits
  \/ RestartsElsewhere
  \/ \E a \in Artifacts : BeginRefresh(a)
  \/ \E r \in Runs : BeginSample(r)
  \/ Goes
  \/ Close

Spec == Init /\ [][Next]_vars

\* The actor goes on with its call: every wait in it has a timeout.
FairSpec == Spec /\ WF_vars(Goes)

-----------------------------------------------------------------------------
(* Properties *)

\* What the runtime remembers of a launched server is true as long as that server
\* lives: it holds every adapter the runtime will not load again, and only adapters
\* of the base model it was launched with.
MemoryIsTrue ==
  server \in {"starting", "ready"} =>
    /\ loaded_loras \subseteq server_loras
    /\ \A a \in server_loras : ModelPath[a] = active_model

\* A sample answered with artifact a was generated with a's weights, although a
\* sample never looks at which model the server runs.
SamplesUseTheirArtifact ==
  sampled.artifact # Nothing =>
    /\ LaunchServer => sampled.model = ModelPath[sampled.artifact]
    /\ sampled.artifact \in Loras => sampled.lora = sampled.artifact

\* The same for LoRA artifacts only, whatever else the server is launched with.
LoraSamplesUseTheirArtifact ==
  sampled.artifact \in Loras => SamplesUseTheirArtifact

\* plans/rfc-0008: "`refresh_weights` does not become visible until SGLang reports
\* the expected artifact version loaded", for adapters on a server the runtime launches:
\* when a call is about to remember its adapter, the server is up with it, unless it has
\* just exited, although a server that only starts up is kept without a health check.
VisibleOnlyWhenLoaded ==
  call.at = "loaded" /\ call.artifact \in Loras /\ LaunchServer /\ server # "exited" =>
    server = "ready" /\ call.artifact \in server_loras

\* No call waits for ever for a server that does not come up.
EveryCallReturns == call # NoCall ~> call = NoCall
=============================================================================
