----------------------------- MODULE ProxyService -----------------------------
(***************************************************************************)
(* The request path of one training run (src/ganker/client.py, transport,  *)
(* actors, components): clients call the ProxyActor, which forwards each   *)
(* request to the TrainingActor or the RolloutActor, awaits the answer,    *)
(* records its usage at the TelemetryActor, awaits that too, and replies.  *)
(*                                                                         *)
(* The actors are processes: trainer and rollout take their messages one   *)
(* at a time, the proxy's endpoints are coroutines that overlap at every   *)
(* await.  A client waits at most its timeout; the request goes on.        *)
(*                                                                         *)
(* The trainer is TrainingLifecycle, which MegatronBackend implements, or  *)
(* the fake backend, which has no status machine.                          *)
(***************************************************************************)
EXTENDS Integers, Sequences, FiniteSets

CONSTANTS
  Run,                   \* the run
  Scenarios,             \* who calls, how often, over which transport and trainer
  MaxRequests            \* bound on the calls of the clients, over all scenarios

ASSUME ScenariosAssumption ==
  /\ MaxRequests \in Nat
  /\ \A s \in Scenarios :
       /\ s.clients # {}       \* threads holding a TrainingClient of the run
       /\ s.backend \in {"megatron", "fake"}
       /\ s.in_order \in BOOLEAN \* requests reach the actors in the order of the calls
                                \* (Monarch), or not (the gRPC server's thread pool)
       /\ s.max_calls \in [{"forward_backward", "optim_step", "save_weights",
                            "refresh_weights", "sample"} -> Nat]
       /\ s.max_requests \in 0 .. MaxRequests
       /\ s.max_in_flight \in Nat \* bound on the calls not yet answered, abandoned ones too

VARIABLES
  scenario,
  next_request,
  request,               \* request[q]: its call, how far it is, and its result
  trainer_queue,         \* messages of the TrainingActor
  rollout_queue,         \* messages of the RolloutActor
  phase, steps, published, \* the trainer, as in TrainingLifecycle
  loaded,                \* version of the rollout backend's _loaded_artifacts[run]
  events,                \* TelemetryLedger._events: the request of each event
  waiting,               \* waiting[c]: the request client c is blocked in, or 0
  saved,                 \* saved[c]: the artifact c last got from save_weights
  sampler,               \* sampler[c]: the artifact of c's SamplingClient
  timed_out,             \* timed_out[c]: the operation of c's last call, if it timed out
  optim_calls            \* optim_step calls that do not repeat a timed out one

requests == <<scenario, next_request, request>>
queues == <<trainer_queue, rollout_queue>>
trainer == <<phase, steps, published>>
clients == <<waiting, saved, sampler, timed_out, optim_calls>>
vars == <<requests, queues, trainer, loaded, events, clients>>

Clients == scenario.clients
Backend == scenario.backend
InOrder == scenario.in_order

Trainer == INSTANCE TrainingLifecycle WITH RunIds <- {Run}

TrainerOps == {"forward_backward", "optim_step", "save_weights"}
RolloutOps == {"refresh_weights", "sample"}
Ops == TrainerOps \cup RolloutOps
Metered == {"forward_backward", "optim_step", "sample"}

RequestIds == 1 .. MaxRequests
NoArtifact == -1
Versions == 0 .. MaxRequests
MaybeArtifact == Nat \cup {NoArtifact}
Stages == {"unused", "sent", "queued", "executed", "recorded", "replied"}

TypeOK ==
  /\ scenario \in Scenarios
  /\ next_request \in 1 .. MaxRequests + 1
  /\ request \in [RequestIds ->
       [client : Clients, op : Ops, artifact : MaybeArtifact, stage : Stages,
        done : BOOLEAN, ok : BOOLEAN]]
  /\ trainer_queue \in Seq(RequestIds)
  /\ rollout_queue \in Seq(RequestIds)
  /\ phase \in [{Run} -> {"ready", "gradients_pending", "failed"}]
  /\ steps \in [{Run} -> Nat]
  /\ published \subseteq [run : {Run}, step : Nat]
  /\ loaded \in MaybeArtifact
  /\ events \in Seq(RequestIds)
  /\ waiting \in [Clients -> RequestIds \cup {0}]
  /\ saved \in [Clients -> MaybeArtifact]
  /\ sampler \in [Clients -> MaybeArtifact]
  /\ timed_out \in [Clients -> Ops \cup {"none"}]
  /\ optim_calls \in Nat

\* The clients hold the run that create_training_run returned.
Init ==
  /\ scenario \in Scenarios
  /\ next_request = 1
  /\ request = [q \in RequestIds |->
       [client |-> CHOOSE c \in Clients : TRUE, op |-> "sample",
        artifact |-> NoArtifact, stage |-> "unused", done |-> FALSE, ok |-> TRUE]]
  /\ trainer_queue = <<>>
  /\ rollout_queue = <<>>
  /\ phase = [r \in {Run} |-> "ready"]
  /\ steps = [r \in {Run} |-> 0]
  /\ published = {}
  /\ loaded = NoArtifact
  /\ events = <<>>
  /\ waiting = [c \in Clients |-> 0]
  /\ saved = [c \in Clients |-> NoArtifact]
  /\ sampler = [c \in Clients |-> NoArtifact]
  /\ timed_out = [c \in Clients |-> "none"]
  /\ optim_calls = 0

-----------------------------------------------------------------------------
(* Clients.  refresh_weights sends the artifact of the client's last save,  *)
(* as save_weights_and_get_sampling_client does, or none if it has none.    *)
(* sample sends the run, not the artifact the SamplingClient was made for;  *)
(* one can also be made by hand from a saved artifact, without a refresh.   *)

CallsOf(op) == {q \in RequestIds : request[q].stage # "unused" /\ request[q].op = op}
InFlight == {q \in RequestIds : request[q].stage \notin {"unused", "replied"}}

Call(c, op) ==
  /\ waiting[c] = 0
  /\ op = "sample" => sampler[c] # NoArtifact \/ saved[c] # NoArtifact
  /\ next_request <= scenario.max_requests
  /\ Cardinality(CallsOf(op)) < scenario.max_calls[op]
  /\ Cardinality(InFlight) < scenario.max_in_flight
  /\ request' = [request EXCEPT ![next_request] =
       [client |-> c, op |-> op, stage |-> "sent", done |-> FALSE, ok |-> TRUE,
        artifact |-> IF op = "refresh_weights" THEN saved[c] ELSE NoArtifact]]
  /\ next_request' = next_request + 1
  /\ waiting' = [waiting EXCEPT ![c] = next_request]
  /\ timed_out' = [timed_out EXCEPT ![c] = "none"]
  /\ optim_calls' = IF op = "optim_step" /\ timed_out[c] # "optim_step"
                      THEN optim_calls + 1 ELSE optim_calls
  /\ UNCHANGED <<scenario, queues, trainer, loaded, events, saved, sampler>>

\* .get(timeout) or the gRPC deadline: only the client gives up.
TimeOut(c) ==
  /\ waiting[c] # 0
  /\ waiting' = [waiting EXCEPT ![c] = 0]
  /\ timed_out' = [timed_out EXCEPT ![c] = request[waiting[c]].op]
  /\ UNCHANGED <<requests, queues, trainer, loaded, events, saved, sampler, optim_calls>>

-----------------------------------------------------------------------------
(* The proxy endpoint starts and sends the request to its actor.            *)

\* Mutant: the order of the calls is not kept.
ForwardAnyOrder(q) ==
  /\ request[q].stage = "sent"
  /\ request' = [request EXCEPT ![q].stage = "queued"]
  /\ IF request[q].op \in TrainerOps
       THEN trainer_queue' = Append(trainer_queue, q) /\ UNCHANGED rollout_queue
       ELSE rollout_queue' = Append(rollout_queue, q) /\ UNCHANGED trainer_queue
  /\ UNCHANGED <<scenario, next_request, trainer, loaded, events, clients>>

Forward(q) ==
  /\ request[q].stage = "sent"
  /\ InOrder => \A p \in RequestIds : request[p].stage = "sent" => q <= p
  /\ request' = [request EXCEPT ![q].stage = "queued"]
  /\ IF request[q].op \in TrainerOps
       THEN trainer_queue' = Append(trainer_queue, q) /\ UNCHANGED rollout_queue
       ELSE rollout_queue' = Append(rollout_queue, q) /\ UNCHANGED trainer_queue
  /\ UNCHANGED <<scenario, next_request, trainer, loaded, events, clients>>

\* The actor answers its oldest message, with a result or with an exception.
Answer(q, done, artifact) ==
  request' = [request EXCEPT ![q].stage = "executed", ![q].done = done,
                             ![q].ok = done, ![q].artifact = artifact]

TrainerTakes(q, op) ==
  /\ trainer_queue # <<>>
  /\ q = Head(trainer_queue)
  /\ request[q].op = op
  /\ trainer_queue' = Tail(trainer_queue)
  /\ UNCHANGED <<scenario, next_request, rollout_queue, loaded, events, clients>>

ForwardBackward(q) ==
  /\ TrainerTakes(q, "forward_backward")
  /\ \/ Backend = "megatron" /\ Trainer!ComputeGradient(Run)
     \/ /\ Backend = "fake"
        /\ phase' = [phase EXCEPT ![Run] = "gradients_pending"]
        /\ UNCHANGED <<steps, published>>
  /\ Answer(q, TRUE, NoArtifact)

\* Mutant: no status check.
OptimStepUnchecked(q) ==
  /\ TrainerTakes(q, "optim_step")
  /\ phase' = [phase EXCEPT ![Run] = "ready"]
  /\ steps' = [steps EXCEPT ![Run] = @ + 1]
  /\ UNCHANGED published
  /\ Answer(q, TRUE, NoArtifact)

OptimStep(q) ==
  /\ TrainerTakes(q, "optim_step")
  /\ \/ Backend = "megatron" /\ Trainer!ApplyGradient(Run)
     \/ /\ Backend = "fake"
        /\ phase' = [phase EXCEPT ![Run] = "ready"]
        /\ steps' = [steps EXCEPT ![Run] = @ + 1]
        /\ UNCHANGED published
  /\ Answer(q, TRUE, NoArtifact)

SaveWeights(q) ==
  /\ TrainerTakes(q, "save_weights")
  /\ \/ Backend = "megatron" /\ Trainer!Publish(Run)
     \/ /\ Backend = "fake"
        /\ published' = published \cup {[run |-> Run, step |-> steps[Run]]}
        /\ UNCHANGED <<phase, steps>>
  /\ Answer(q, TRUE, steps[Run])

\* The status check refuses the operation.
Refuse(q, op) ==
  /\ TrainerTakes(q, op)
  /\ Backend = "megatron"
  /\ phase[Run] # IF op = "optim_step" THEN "gradients_pending" ELSE "ready"
  /\ Answer(q, FALSE, NoArtifact)
  /\ UNCHANGED trainer

\* Mutant: the runtime's exception closes the run.
TrainerFailsCloses(q, op) ==
  /\ TrainerTakes(q, op)
  /\ Trainer!Shutdown(Run)
  /\ Answer(q, FALSE, NoArtifact)

\* The runtime raised: the run has failed.
TrainerFails(q, op) ==
  /\ TrainerTakes(q, op)
  /\ Backend = "megatron"
  /\ \/ op = "forward_backward" /\ phase[Run] = "ready"
     \/ op = "optim_step" /\ phase[Run] = "gradients_pending"
  /\ Trainer!Fail(Run)
  /\ Answer(q, FALSE, NoArtifact)

RolloutTakes(q, op) ==
  /\ rollout_queue # <<>>
  /\ q = Head(rollout_queue)
  /\ request[q].op = op
  /\ rollout_queue' = Tail(rollout_queue)
  /\ UNCHANGED <<scenario, next_request, trainer_queue, trainer, events, clients>>

\* FilesystemArtifactStore.latest: what the last save published.
IsLatest(v) ==
  /\ [run |-> Run, step |-> v] \in published
  /\ \A a \in published : a.step <= v

RefreshWeights(q) ==
  /\ RolloutTakes(q, "refresh_weights")
  /\ \E v \in Versions :
       /\ v = request[q].artifact \/ (request[q].artifact = NoArtifact /\ IsLatest(v))
       /\ loaded' = v
       /\ Answer(q, TRUE, v)

\* A sample before any refresh loads the latest artifact.
Sample(q) ==
  /\ RolloutTakes(q, "sample")
  /\ \E v \in Versions :
       /\ v = loaded \/ (loaded = NoArtifact /\ IsLatest(v))
       /\ loaded' = v
       /\ Answer(q, TRUE, v)

\* Mutant: the exception takes the actor's other messages with it.
RolloutFailsAlone(q, op) ==
  /\ rollout_queue # <<>>
  /\ q = Head(rollout_queue)
  /\ request[q].op = op
  /\ rollout_queue' = <<>>
  /\ Answer(q, FALSE, NoArtifact)
  /\ UNCHANGED <<scenario, next_request, trainer_queue, trainer, events, clients, loaded>>

\* No artifact was saved, or the SGLang server did not answer.
RolloutFails(q, op) ==
  /\ RolloutTakes(q, op)
  /\ Answer(q, FALSE, NoArtifact)
  /\ UNCHANGED loaded

-----------------------------------------------------------------------------
(* Back in the proxy endpoint: _record_usage is awaited before the reply.   *)

\* Mutant: usage is recorded for failed calls too.
HasUsageAlways(q) ==
  request[q].stage = "executed" /\ request[q].op \in Metered

HasUsage(q) ==
  request[q].stage = "executed" /\ request[q].ok /\ request[q].op \in Metered

Record(q) ==
  /\ HasUsage(q)
  /\ events' = Append(events, q)
  /\ request' = [request EXCEPT ![q].stage = "recorded"]
  /\ UNCHANGED <<scenario, next_request, queues, trainer, loaded, clients>>

\* The telemetry actor raised: the exception replaces the response.
RecordFails(q) ==
  /\ HasUsage(q)
  /\ request' = [request EXCEPT ![q].stage = "recorded", ![q].ok = FALSE]
  /\ UNCHANGED <<scenario, next_request, queues, trainer, loaded, events, clients>>

Reply(q) ==
  /\ \/ request[q].stage = "recorded"
     \/ request[q].stage = "executed" /\ ~HasUsage(q)
  /\ request' = [request EXCEPT ![q].stage = "replied"]
  /\ UNCHANGED <<scenario, next_request, queues, trainer, loaded, events, timed_out, optim_calls>>

\* The client is still waiting and takes the result.
ReplyInTime(q) ==
  LET c == request[q].client
      Got(op) == request[q].ok /\ request[q].op = op
  IN
  /\ Reply(q)
  /\ waiting[c] = q
  /\ waiting' = [waiting EXCEPT ![c] = 0]
  /\ saved' = IF Got("save_weights")
                THEN [saved EXCEPT ![c] = request[q].artifact] ELSE saved
  /\ sampler' = IF Got("refresh_weights")
                  THEN [sampler EXCEPT ![c] = request[q].artifact] ELSE sampler

\* The client has given up: the reply is dropped.
ReplyTooLate(q) ==
  /\ Reply(q)
  /\ waiting[request[q].client] # q
  /\ UNCHANGED <<waiting, saved, sampler>>

-----------------------------------------------------------------------------
Execute(q) ==
  \/ ForwardBackward(q)
  \/ OptimStep(q)
  \/ SaveWeights(q)
  \/ \E op \in TrainerOps : Refuse(q, op) \/ TrainerFails(q, op)
  \/ RefreshWeights(q)
  \/ Sample(q)
  \/ \E op \in RolloutOps : RolloutFails(q, op)

Telemetry(q) == Record(q) \/ RecordFails(q)

ActorsMove ==
  \E q \in RequestIds :
    Forward(q) \/ Execute(q) \/ Telemetry(q) \/ ReplyInTime(q) \/ ReplyTooLate(q)

Next ==
  \/ \E c \in Clients : TimeOut(c) \/ \E op \in Ops : Call(c, op)
  \/ ActorsMove

Spec == Init /\ [][Next]_vars

\* The actors are live: while one of them has something to do, one does.  Nothing
\* is assumed of the clients.
FairSpec == Spec /\ WF_vars(ActorsMove)

-----------------------------------------------------------------------------
(* Properties *)

Recorded == {events[i] : i \in DOMAIN events}

\* The ledger counts each piece of work at most once and nothing that an actor
\* did not do, whatever timed out or failed on the way; and a call that was
\* answered with success is already in it.
LedgerIsExact ==
  /\ \A i, j \in DOMAIN events : events[i] = events[j] => i = j
  /\ \A q \in Recorded : request[q].done /\ request[q].op \in Metered
  /\ \A q \in RequestIds :
       request[q].stage = "replied" /\ request[q].ok /\ request[q].op \in Metered =>
         q \in Recorded

\* The clients of a run that are served in the order of their calls, if there is one.
HasOneClientInOrder == InOrder /\ \A c, d \in Clients : c = d

\* A client that repeats an optim_step after a timeout, not knowing whether the
\* first one was executed, never makes the model step twice for one call: the
\* Megatron status machine refuses the second (one client, calls in order).
RetriesStepOnce ==
  HasOneClientInOrder /\ Backend = "megatron" => steps[Run] <= optim_calls

\* A SamplingClient is never answered with weights older than the artifact it was
\* created for, late and timed out refreshes included (one client, calls in order).
SamplersAreNotOlder ==
  HasOneClientInOrder =>
    \A c \in Clients :
      LET q == waiting[c] IN
        q # 0 => (request[q].op = "sample" /\ request[q].done =>
                    request[q].artifact >= sampler[c])

\* As long as the actors are live (telemetry's too, whose answer the endpoints await
\* before they reply) every call is answered, abandoned ones and those
\* that raised included: whenever the clients pause, nothing is left in flight.
EveryRequestIsAnswered == []<>(InFlight = {})
=============================================================================
