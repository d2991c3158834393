------------------------- MODULE SGLangRolloutProofs -------------------------
(***************************************************************************)
(* Proofs about SGLangRollout: what the runtime remembers of a server it   *)
(* launched, and the weights that LoRA samples are generated with.         *)
(***************************************************************************)
EXTENDS SGLangRollout, TLAPS

Alive == server \in {"starting", "ready"}

\* Once past _ensure_server, a call that still finds the server alive finds it
\* running the model its artifact needs.
ServerFitsCall ==
  Alive /\ call.at \in {"wait_for_health", "load_lora"} =>
    active_model = ModelPath[call.artifact]

\* Only adapters are loaded.
OnlyLorasLoad == call.at = "load_lora" => call.artifact \in Loras

\* Nothing is believed of a server before it has answered anything.
StartsEmpty == server \in {"none", "starting"} => loaded_loras = {}

IInv ==
  /\ TypeOK
  /\ MemoryIsTrue
  /\ VisibleOnlyWhenLoaded
  /\ StartsEmpty
  /\ LoraSamplesUseTheirArtifact
  /\ ServerFitsCall
  /\ OnlyLorasLoad

\* A call under way is about an artifact.
LEMMA CallTypes ==
  ASSUME TypeOK, call # NoCall
  PROVE  /\ call.artifact \in Artifacts
         /\ call.op \in {"refresh_weights", "sample"}
         /\ call.at \in Points
         /\ ModelPath[call.artifact] \in Models
         /\ RunOf[call.artifact] \in Runs
BY DEF TypeOK, Models, Runs

\* Nothing is running, remembered or sampled at first.
LEMMA InitIInv == Init => IInv
BY RolloutAssumption
DEF Init, IInv, TypeOK, MemoryIsTrue, LoraSamplesUseTheirArtifact, SamplesUseTheirArtifact,
    ServerFitsCall, OnlyLorasLoad, VisibleOnlyWhenLoaded, StartsEmpty, NoCall, NotSampled,
    Runs, Models, Alive

\* Each step keeps the types.
LEMMA TypeStep == ASSUME TypeOK, OnlyLorasLoad, [Next]_vars PROVE TypeOK'
<1> USE RolloutAssumption
<1> USE DEF TypeOK, serverVars
<1>1. CASE BecomesHealthy BY <1>1 DEF BecomesHealthy
<1>2. CASE Exits BY <1>2 DEF Exits
<1>3. CASE RestartsElsewhere BY <1>3 DEF RestartsElsewhere
<1>4. ASSUME NEW a \in Artifacts, BeginRefresh(a) PROVE TypeOK'
  BY <1>4 DEF BeginRefresh, Points
<1>5. ASSUME NEW r \in Runs, BeginSample(r) PROVE TypeOK'
  BY <1>5 DEF BeginSample, Points
<1>6. CASE KeepServer
  <2>1. call # NoCall BY <1>6 DEF KeepServer, NoCall
  <2>2. call' \in [op : {"refresh_weights", "sample"}, artifact : Artifacts, at : Points]
    BY <1>6, <2>1 DEF KeepServer, GoTo, WithServer, Points
  <2> QED BY <1>6, <2>2 DEF KeepServer
<1>7. CASE LaunchAnother
  <2>1. call # NoCall BY <1>7 DEF LaunchAnother, NoCall
  <2>2. call' \in [op : {"refresh_weights", "sample"}, artifact : Artifacts, at : Points]
    BY <1>7, <2>1 DEF LaunchAnother, GoTo, Points
  <2>3. ModelPath[call.artifact] \in Models BY <2>1, CallTypes
  <2> QED BY <1>7, <2>2, <2>3 DEF LaunchAnother
<1>8. CASE Healthy
  <2>1. call # NoCall BY <1>8 DEF Healthy, NoCall
  <2>2. call' \in [op : {"refresh_weights", "sample"}, artifact : Artifacts, at : Points]
    BY <1>8, <2>1 DEF Healthy, GoTo, WithServer, Points
  <2> QED BY <1>8, <2>2 DEF Healthy
<1>9. CASE NotHealthy BY <1>9 DEF NotHealthy, Fail
<1>10. CASE AlreadyLoaded
  <2>1. call # NoCall BY <1>10 DEF AlreadyLoaded, NoCall
  <2>2. call' \in [op : {"refresh_weights", "sample"}, artifact : Artifacts, at : Points]
    BY <1>10, <2>1 DEF AlreadyLoaded, GoTo, Points
  <2> QED BY <1>10, <2>2 DEF AlreadyLoaded
<1>11. CASE LoadLora
  <2>1. call # NoCall BY <1>11 DEF LoadLora, NoCall
  <2>2. call' \in [op : {"refresh_weights", "sample"}, artifact : Artifacts, at : Points]
    BY <1>11, <2>1 DEF LoadLora, GoTo, Points
  <2>3. call.artifact \in Loras BY <1>11 DEF LoadLora, OnlyLorasLoad
  <2> QED BY <1>11, <2>2, <2>3 DEF LoadLora
<1>12. CASE LoadLoraFails
  <2>1. call.artifact \in Loras BY <1>12 DEF LoadLoraFails, OnlyLorasLoad
  <2> QED BY <1>12, <2>1 DEF LoadLoraFails
<1>13. CASE Loaded
  <2>1. call # NoCall BY <1>13 DEF Loaded, NoCall
  <2>2. call' \in {NoCall} \cup
          [op : {"refresh_weights", "sample"}, artifact : Artifacts, at : Points]
    BY <1>13, <2>1 DEF Loaded, Points
  <2>3. cache' \in [Runs -> Artifacts \cup {Nothing}]
    BY <1>13, <2>1, CallTypes DEF Loaded
  <2> QED BY <1>13, <2>2, <2>3 DEF Loaded
<1>14. CASE Generate
  <2>1. call # NoCall BY <1>14 DEF Generate, NoCall
  <2>2. call.artifact \in Artifacts BY <2>1, CallTypes
  <2> QED BY <1>14, <2>2 DEF Generate
<1>15. CASE GenerateFails BY <1>15 DEF GenerateFails, Fail
<1>16. CASE Close BY <1>16 DEF Close
<1>17. CASE UNCHANGED vars BY <1>17 DEF vars
<1> QED BY <1>1, <1>2, <1>3, <1>4, <1>5, <1>6, <1>7, <1>8, <1>9, <1>10, <1>11, <1>12,
  <1>13, <1>14, <1>15, <1>16, <1>17 DEF Next, Goes

\* Each step keeps the rest of the invariant.
LEMMA ServerStep ==
  ASSUME IInv, TypeOK', [Next]_vars
  PROVE  /\ MemoryIsTrue' /\ ServerFitsCall' /\ OnlyLorasLoad'
         /\ VisibleOnlyWhenLoaded' /\ StartsEmpty'
<1> USE RolloutAssumption
<1> USE DEF IInv, MemoryIsTrue, ServerFitsCall, OnlyLorasLoad, VisibleOnlyWhenLoaded,
        StartsEmpty, Alive, LaunchServer, Ready, serverVars
<1> DEFINE Goal == /\ MemoryIsTrue' /\ ServerFitsCall' /\ OnlyLorasLoad'
                   /\ VisibleOnlyWhenLoaded' /\ StartsEmpty'
<1>1. CASE BecomesHealthy BY <1>1 DEF BecomesHealthy
<1>2. CASE Exits BY <1>2 DEF Exits
<1>3. CASE RestartsElsewhere BY <1>3 DEF RestartsElsewhere
<1>4. ASSUME NEW a \in Artifacts, BeginRefresh(a) PROVE Goal
  BY <1>4 DEF BeginRefresh
<1>5. ASSUME NEW r \in Runs, BeginSample(r) PROVE Goal
  BY <1>5 DEF BeginSample
<1>6. CASE KeepServer
  <2>1. call # NoCall BY <1>6 DEF KeepServer, NoCall
  <2>2. /\ call' = [call EXCEPT !.at = WithServer]
        /\ call'.at = WithServer
        /\ call'.artifact = call.artifact
    BY <1>6, <2>1 DEF KeepServer, GoTo, TypeOK
  <2> QED BY <1>6, <2>2 DEF KeepServer, WithServer
<1>7. CASE LaunchAnother
  <2>1. call # NoCall BY <1>7 DEF LaunchAnother, NoCall
  <2>2. call'.at = "wait_for_health" /\ call'.artifact = call.artifact
    BY <1>7, <2>1 DEF LaunchAnother, GoTo, TypeOK
  <2> QED BY <1>7, <2>2 DEF LaunchAnother
<1>8. CASE Healthy
  <2>1. call # NoCall BY <1>8 DEF Healthy, NoCall
  <2>2. call'.at = WithServer /\ call'.artifact = call.artifact
    BY <1>8, <2>1 DEF Healthy, GoTo, TypeOK
  <2> QED BY <1>8, <2>2 DEF Healthy, WithServer
<1>9. CASE NotHealthy BY <1>9 DEF NotHealthy, Fail, NoCall
<1>10. CASE AlreadyLoaded
  <2>1. call # NoCall BY <1>10 DEF AlreadyLoaded, NoCall
  <2>2. call'.at = "loaded" /\ call'.artifact = call.artifact
    BY <1>10, <2>1 DEF AlreadyLoaded, GoTo, TypeOK
  <2>3. server \in {"none", "starting", "ready", "exited", "attached"} BY DEF TypeOK
  <2> QED BY <1>10, <2>2, <2>3 DEF AlreadyLoaded
<1>11. CASE LoadLora
  <2>1. call # NoCall BY <1>11 DEF LoadLora, NoCall
  <2>2. call'.at = "loaded" /\ call'.artifact = call.artifact
    BY <1>11, <2>1 DEF LoadLora, GoTo, TypeOK
  <2>3. server \in {"none", "starting", "ready", "exited", "attached"} BY DEF TypeOK
  <2> QED BY <1>11, <2>2, <2>3 DEF LoadLora
<1>12. CASE LoadLoraFails BY <1>12 DEF LoadLoraFails, NoCall
<1>13. CASE Loaded
  <2>1. call # NoCall BY <1>13 DEF Loaded, NoCall
  <2>2. call'.at \in {"generate", "idle"} BY <1>13, <2>1 DEF Loaded, TypeOK, NoCall
  <2> QED BY <1>13, <2>2 DEF Loaded
<1>14. CASE Generate BY <1>14 DEF Generate, NoCall
<1>15. CASE GenerateFails BY <1>15 DEF GenerateFails, Fail, NoCall
<1>16. CASE Close BY <1>16 DEF Close
<1>17. CASE UNCHANGED vars BY <1>17 DEF vars
<1> QED BY <1>1, <1>2, <1>3, <1>4, <1>5, <1>6, <1>7, <1>8, <1>9, <1>10, <1>11, <1>12,
  <1>13, <1>14, <1>15, <1>16, <1>17 DEF Next, Goes

\* The runtime keeps to launching its server or to attaching to one.
LEMMA AttachedStaysAttached ==
  ASSUME [Next]_vars PROVE LaunchServer' = LaunchServer
BY DEF LaunchServer, serverVars, Next, Goes, vars, BecomesHealthy, Exits, RestartsElsewhere,
   BeginRefresh, BeginSample, KeepServer, LaunchAnother, Healthy, NotHealthy, AlreadyLoaded,
   LoadLora, LoadLoraFails, Loaded, Generate, GenerateFails, Fail, Close

\* Only Generate answers a sample; a LoRA sample then finds its adapter in a server
\* that runs the adapter's base model.
LEMMA SampleStep == ASSUME IInv, [Next]_vars PROVE LoraSamplesUseTheirArtifact'
<1> USE RolloutAssumption
<1> USE DEF LoraSamplesUseTheirArtifact, SamplesUseTheirArtifact, serverVars
<1>1. CASE Generate
  <2>1. sampled' = [artifact |-> call.artifact, model |-> active_model,
                    lora |-> IF call.artifact \in Loras THEN call.artifact ELSE Nothing]
    BY <1>1 DEF Generate
  <2>2. ASSUME call.artifact \in Loras, LaunchServer'
        PROVE active_model = ModelPath[call.artifact]
    BY <1>1, <2>2 DEF Generate, IInv, MemoryIsTrue, LaunchServer, Ready
  <2> QED BY <2>1, <2>2
<1>2. ASSUME sampled' = sampled PROVE LoraSamplesUseTheirArtifact'
  BY <1>2, AttachedStaysAttached DEF IInv
<1>3. Generate \/ sampled' = sampled
  BY DEF Next, Goes, vars, BecomesHealthy, Exits, RestartsElsewhere, BeginRefresh, BeginSample,
     KeepServer, LaunchAnother, Healthy, NotHealthy, AlreadyLoaded, LoadLora, LoadLoraFails,
     Loaded, GenerateFails, Fail, Close
<1> QED BY <1>1, <1>2, <1>3

LEMMA InductiveInvariant == Spec => []IInv
<1>1. IInv /\ [Next]_vars => IInv'
  <2> SUFFICES ASSUME IInv, [Next]_vars PROVE IInv'
    OBVIOUS
  <2>1. TypeOK' BY TypeStep DEF IInv
  <2> QED BY <2>1, ServerStep, SampleStep DEF IInv
<1> QED BY InitIInv, <1>1, PTL DEF Spec

-----------------------------------------------------------------------------
\* The server, the runtime's memory and the actor's call keep their types, whatever
\* requests fail and whenever the server exits (SGLangHTTPRuntime).
THEOREM TypeCorrect == Spec => []TypeOK
<1>1. IInv => TypeOK BY DEF IInv
<1> QED BY InductiveInvariant, <1>1, PTL

\* _loaded_loras and _active_model_path are right about a living server the runtime
\* launched, after any sequence of refreshes, failed requests, exits and relaunches.
THEOREM RuntimeMemoryIsTrue == Spec => []MemoryIsTrue
<1>1. IInv => MemoryIsTrue BY DEF IInv
<1> QED BY InductiveInvariant, <1>1, PTL

\* A sample answered with a LoRA artifact was generated with that adapter, on its
\* base model, although sample() does not look at the server.
THEOREM LoraSamplesAreRight == Spec => []LoraSamplesUseTheirArtifact
<1>1. IInv => LoraSamplesUseTheirArtifact BY DEF IInv
<1> QED BY InductiveInvariant, <1>1, PTL

\* An adapter becomes visible only when a launched server is up and holds it, although
\* _ensure_server keeps a server whose health was never checked.
THEOREM AdaptersAreVisibleWhenLoaded == Spec => []VisibleOnlyWhenLoaded
<1>1. IInv => VisibleOnlyWhenLoaded BY DEF IInv
<1> QED BY InductiveInvariant, <1>1, PTL
=============================================================================
