# A TLA+ model of Ganker

Ganker trains language models behind a small client API: a client creates a
training run, computes gradients, takes optimizer steps, saves weights as
artifacts, has a rollout backend load an artifact, and samples from it.  This
directory models the parts of the code that keep state and meet concurrency,
failure or restarts, checks them with TLC on small instances, and proves the most
important results with TLAPS for every instance.

`PROJECT.json` holds the same information for tools: the components, the runs,
the lines each definition models, the hazards and what covers them.

- [The system](#the-system): components, state, operations, interactions
- [The modules](#the-modules): what models what, and how it corresponds to the code
- [The runs](#the-runs): what each checks, its bounds, its fairness
- [The proofs](#the-proofs): what is proved and along which argument
- [Disagreements found](#disagreements-found)
- [What is not modelled](#what-is-not-modelled) and [the plan](#the-plan)

## The system

    client.py ── transport.py ──┐                      (Monarch: in order)
    rpc/client.py ── rpc/server.py (thread pool) ──┐   (gRPC: any order)
                                                   ▼
                          actors.py: ProxyActor / ControllerActor
                            │            │              │
                     TrainingActor   RolloutActor   TelemetryActor
                            │            │              │
                    backends/megatron  backends/sglang  components.py
                    backends/fake      backends/fake    TelemetryLedger
                            │            ▲
                            └─ artifacts.py ─┘   (files; on Modal, a volume
                                                  with commit and reload)

| Component | State it keeps | Operations | What makes it correct |
|---|---|---|---|
| Megatron training backend (`backends/megatron.py`) | runs with a status, three counters and a lock each; the lock of the backend; the torch process group of the process | create, forward_backward, optim_step, save_weights, close | a status check holds until the runtime answers; one active run; one gradient per step; an artifact labelled v contains v steps; nothing trains after a failure |
| Artifact store (`artifacts.py`) | payload and manifest of each version, `latest.json` | write, latest, reading a payload | readers never find a torn checkpoint where a whole one was promised, crashes and restarts included |
| Proxy, controller, actors (`actors.py`, `components.py`) | message queues, the awaits of each endpoint, the ledger | one endpoint per operation | every call answered once; work counted exactly once |
| Client (`client.py`, `transport.py`) | the run, the artifact of a sampler, timeouts | the same, with retries by the caller | a retried call does not train twice; a sampler does not go back in time |
| SGLang rollout (`backends/sglang.py`) | the server process; what the runtime believes of it (`_active_model_path`, `_loaded_loras`); the artifact of each run | refresh_weights, sample, close | a sample uses the weights it is labelled with, whatever the server does |
| SFT job (`examples/sft/`, `modal_apps/distributed/sft_job.py`) | position in the data, losses, last save; three views of the volume | the loop, then refresh, sample, report | the report adds up; the rollout loads committed weights, of the version named |
| Distributed runtime (`modal_apps/distributed/infra.py`, `distributed/registry.py`) | worker containers, the registry of endpoints, calls and meshes a controller holds | spawn, publish, wait, attach, run, stop | jobs do not meet each other's workers; nothing is left behind; everything ends |
| gRPC (`rpc/`) | the calls in the thread pool; a file is read per download | conversion both ways, authentication, error mapping, deadlines, bind and stop | what an actor gets is what the caller made; a client that is told "refused" knows nothing was done; every call gives its thread back |
| Local orchestration (`orchestration.py`) | actors, process meshes, worker subprocesses, a temporary directory | start and stop as lists of calls | a step that fails does not keep the rest from being stopped |
| Clustered SFT (`modal_apps/qwen_sft_multinode/`, `starcoder_ganker/`, `distributed/torchrun.py`) | containers, torchrun agents, ranks in their collectives; rank 0's manifest and result | one torchrun job over nodes, in four modes | all ranks meet in the same collectives; each step trains its global batch; the answer means that every rank has finished |
| Data of a job (`examples/sft/data.py`, `real_data.py`, `code_data.py`) | the dataset file | select, encode, batch | exactly the completion's tokens are trained |

The parts interact by calls through actors (one message at a time for the
training and rollout actors, overlapping coroutines for the proxy), by files (the
artifact directory, which on Modal is a volume with commits and reloads), by a
registry in a Modal Dict, and by HTTP requests to a server process.  What is hard
in them: calls under way while another thread changes a run; a client that gives
up on a call that is still executed; a process or a server that dies between two
steps; beliefs about a server or an endpoint that outlive it; files that are
written one after the other; cleaning up after a step that failed; ranks of which one
waits for what another never does.  `hazards` in
`PROJECT.json` lists each at its line with the properties that would catch it.

## The modules

Every module models a whole operation as one action, or as a Begin action and
the answers to it where the code lets others run in between.  A refused call that
changes nothing is no action.  Names are those of the source.

**TrainingLifecycle** is what a training backend promises its callers: phases of
a run, steps, published artifacts.  No locks, no calls under way, no files.
`MegatronBackend` implements it; `ProxyService` uses it as its trainer.

**MegatronBackend** is `MegatronTrainingBackend`.  `call[c]` is the operation a
thread is inside, between taking the run's lock with a passed status check
(`BeginForwardBackward`, ...) and the runtime's answer (`...Succeeds`,
`...Fails`).  `create_training_run` holds the backend lock and reads the other
statuses without their locks, `close` visits the runs one after the other.
`grad_batches` and `model_steps` are what the runtime really did, which the
backend does not know: they tell a right label from a wrong one.  `process_group`
is the `torch.distributed` group all runs of the process share.

**ArtifactStore** is the directory of one run.  A file is missing, torn or whole;
`write_text` truncates a file and then fills it, so `write()` is six steps over
three files; each can fail, and the process can die (`Restart`) between any two.
A restarted process numbers its runs anew and saves into the same directory.
Loads read `latest.json`, the manifest and the payload in separate steps, or
begin with the payload of an artifact they were given, which is any that was ever
returned: also an older one, of this process or an earlier one.

**ProxyService** is the request path of one run: client threads, the proxy's
endpoints (forward, await the answer, record usage, await that, reply), the queues
of the training and rollout actors, the telemetry ledger.  `Backend` chooses the
Megatron status machine (by INSTANCE of TrainingLifecycle) or the fake backend.
`InOrder` is Monarch's order of messages; without it, requests overtake one
another as they do in the gRPC server's thread pool.  `TimeOut` leaves the request
in the system, and the client may repeat it.

**SGLangRollout** keeps what the server holds (`server`, `active_model`,
`server_loras`) apart from what the runtime believes (`loaded_loras`, the cache of
artifacts).  The server becomes healthy, or exits, between any two requests of a
call.  The server is `"attached"` where `config.launch_server` is off: the runtime
then never starts or ends it, and somebody else may restart it.

**SFTJob** is one job: the data cut in batches, the loop of `run_sft` with its
periodic saves, then refresh, sample, reload and report.  The trainer's, the
rollout's and the controller's view of the volume are separate sets, joined by
commit and reload.  `config.job` is the toy job on fake backends or the Qwen job,
whose trainer checks batches and whose rollout reads payloads.  A job `failed` when
its own data or a missing payload stopped it, and `raised` when a container, the
network or a disk failed.

**DistributedRuntime** is any number of jobs on one registry: each controller
spawns two workers, waits for their endpoints, attaches, runs, and cleans up step
by step.  A worker container starts, publishes its endpoint (`"ready"`), listens
(`"serving"`) and exits: the code sleeps two seconds and checks that the process is
there, not that it listens, so a controller may attach too early (`InitializeTooEarly`).
Spawning, attaching, waiting and cancelling can each fail, and a
controller can be killed without cleaning up.  `Assignments` are the ids jobs may be
started with: fresh ones as by default, or one that was used before, as with
`--deployment-id`.

**LocalMesh** is `LocalMonarchMesh` and `LocalDistributedMesh`: starting and stopping
are lists of calls, of which each returns, raises or times out.  The local stop ends
at the first that raises (and may be called again), the distributed one passes over
it.  The workers of the distributed mesh exit whenever they like, and what ran on
them with them.

**RpcConversion** has one operator per message of `rpc/conversion.py`, for both
directions where they are the same field by field: what an unset number, an enum out
of range, a missing optional or an integer tensor becomes.

**GrpcService** EXTENDS both: the calls of clients over a bounded pool of threads,
from the dataclass the caller made to the exception or response it gets.  A call has
three lives that end apart, kept in one record: the client's (`outcome`), the
handler's (`at`) and that of the message at the actors (`work`).  The server binds,
serves, drains for its grace period and then stops the mesh, while handlers may
still wait for its actors.

**SFTData** is pure: from the records of a data set to lines, examples, token
sequences with a weight per position, and batches.  A token stands for where it is in
its example, so that the run sees which token is trained where.

**ClusteredSFT** EXTENDS SFTData: launcher, containers with their torchrun agents,
and ranks, one per GPU.  `at[r]` is the stage rank `r` is about to do; a collective
is entered (`Enter`, recorded in `entered`) and left once every rank of the group has
entered it (`Leave`), so a collective that only some reach is a wait that ends with
`PeerLost`.  Ranks and containers fail anywhere (`RankFails`, `NodeFails`).  Rank
layout, sizes and the deal of the data are operators on a job, translated from
`torchrun.py` and from what `train_entry.py` asks Megatron.  `Deployed` makes the
single-GPU jobs of the comparison script and of the Starcoder app.  A rank joins the
batches it was dealt for a step (`LogicalBatch`) and cuts them in microbatches again, as
the backend does, which may be fewer than were dealt; its loss (`LossOf`) is the mean over
those, and rank 0 reports the mean over the replicas (`Average`).  A loss is not a number
but the datums it is made of, so that the run sees which count and how often.

The `MC...` modules define the constants of the runs, the `...Proofs` modules hold
the proofs.  Definitions marked `Mutant` or `MUTANT` are wrong on purpose: each
changes one definition the way a plausible bug would, and replacing the definition by it
makes a run fail, which shows that the property has something to say about the
code.  No specification uses them.

## The runs

`tlc -config X.cfg MC....tla` for each.  Every run stops where its bounds on
calls, versions or jobs are used up; those whose system may then have no step left
say `CHECK_DEADLOCK FALSE`: the threads of MegatronBackend and the clients of
ProxyService and GrpcService have no call left to make, and the jobs of SFTJob,
DistributedRuntime and ClusteredSFT end.  The others check that there always is a
next step.

| Run (configuration) | Shows | Bounds, and why they are enough |
|---|---|---|
| megatron (`Megatron`) | type, one active run, one gradient per step, labels of artifacts, the active run's process group, the lifecycle is implemented, no thread is stuck | one thread, as Monarch gives an actor, or two, which suffice for every race on a lock; two runs for a younger beside an older one; two gradients a run so that a second step meets the remains of the first |
| artifact_store (`ArtifactStore`) | the order of the writes protects readers; a load gets weights as new as the artifact it names | three versions, three processes: an older, a current and an overwritten one |
| proxy (`Proxy`) | a repeated optim_step never steps twice, samplers never go back, the ledger is exact, every call is answered | four scenarios, since all bounds at once are too many: *Training* (two gradients, a step with two repeats), *Refreshing* (two saves with a step between, two refreshes of which one is late, a sample), *Serving* (two clients in any order, over fake backends, telemetry failing), *Retrying* (the same over Megatron's status machine) |
| sglang_rollout (`SGLangRollout`) | LoRA samples use their adapter; memory is true; an adapter is visible only when loaded; calls return | two runs on two base models, two adapters of one run, a full checkpoint in each run; launched and attached servers |
| sft_job (`SFTJob`) | report, committed weights, labels where the last step is saved, what can fail a job, the job ends | both jobs, every data set to 6 datums, batches to 3, steps to 4, periods to 3: more and fewer batches than steps, short last batches, periods that divide the steps or not |
| runtime (`Runtime`) | jobs with ids of their own keep apart; jobs clean up, and without faults fail only for a worker that listens late; jobs and containers end | two jobs, one with faults, with ids of their own or one id for both: one beside or after the other; what a third could do a second does |
| grpc (`Grpc`) | requests arrive as made, outcomes are true, stopping is complete, calls and stops end | a pool of one thread, so that a second call waits for it; one call of every operation, valid or refused in each way, from this client or another, beside a plain one; the mesh local (with a server) or distributed; two stops, as a stop that raised is repeated |
| clustered (`ClusteredSFT`) | the global batch is dealt, the loss is its mean, manifest and answer are whole, sound jobs do not fail, exactly completions are trained, every rank ends | 23 jobs of up to four ranks on two nodes: data, tensor and pipeline parallel within and over nodes and all at once, accumulation, each mode, fewer batches than replicas, a short last batch, short batches that merge in the trainer, sizes and data that are refused, empty selections of each source; one failure of a rank or node. Four ranks are the least that have all three kinds of neighbour |

The other four, stale_endpoint (`StaleEndpoint`), sglang_checkpoints
(`SGLangCheckpoints`), sft_job_save_every (`SFTJobSaveEvery`) and clustered_failure
(`ClusteredFailure`), have a counterexample each, see
[Disagreements found](#disagreements-found).

`RequestsArriveAsMade` says where top_p is the exception; `OutcomesAreTrue` where a
quotation mark is; `LatestNamesComplete` and `ReturnedStaysWhole` leave out a version
that is being saved again, `RunsOnItsOwnWorkers` and `OnlyLateWorkersFailAJob` jobs
without an id of their own.  `LabelsMatchSavedSteps` and `SoundJobsDoNotFail` say for which
jobs they hold, `SamplersAreNotOlder` and `RetriesStepOnce` for which clients; the
runs have jobs and clients on both sides of each condition.

Fairness.

- *megatron* assumes strong fairness of a thread's own next answer: the runtime
  answers, and a thread that waits for a lock others take and free again gets it at
  last; Python's locks wake a waiter eventually, and without this a waiting close
  could starve.
- *proxy* assumes that while actors have something to do one of them does it, since
  Monarch delivers and the components are synchronous; nothing of the clients.
- *sglang_rollout* assumes that the actor goes on with its call: each wait in it has
  a timeout.  *sft_job* assumes that the sequential job goes on.
- *runtime* assumes that a controller goes on (its waits have deadlines), that Modal
  finally starts a container for a call, that the worker in it is published and gets to
  listen unless it exits, and that a container ends at the latest after the function's
  time limit.  It is stated of all workers together: a worker takes at most three steps,
  so what is fair to all is fair to each.
- *grpc* assumes that threads of the pool go on and deadlines pass, that a stop goes
  on once it was called (each of its calls has a timeout), and that a worker obeys
  SIGTERM at last.  Nothing is assumed of the actors: they may never answer.
- *clustered* assumes that the job does not stand still while something can go on:
  ranks run, the process group gives up on a lost peer, agents see a failed rank.
- No fairness is assumed of crashes, failures or clients anywhere.

## The proofs

`tlapm M.tla` on the eight `...Proofs` modules.  Each states an inductive invariant,
shows that `Init` implies it and that every action keeps it, and derives the
theorems.  The assumptions are only those the modules state on their constants
(bounds are natural numbers, "nobody" is nobody, sizes of a job are positive,
requests and results have the shape of the dataclasses).  Liveness and ENABLED are beyond the prover.

So are induction theorems with an operator as parameter.  Facts about sequences and
sets of any size are proved all the same, by the well-foundedness of `<` on the
naturals: if the set of sizes at which a fact fails had an element it would have a
least one (`NatSet`).

- **MegatronBackendProofs**, for any number of threads, runs and steps.  The
  status checks and the gradient and step counters are not inductive alone: one
  must know who holds which lock during a call (a call under way holds the lock
  of its run, a create the backend's), that only the holder changes a run, and
  that the counters and the real steps agree in every status but `failed` and
  `closed`, where they may differ for good.  The refinement of TrainingLifecycle
  goes action by action: the answers are lifecycle steps, the rest stutters.
- **ArtifactStoreProofs**, for any number of versions, processes and readers.  The
  strengthening says how much of `write()` is done at each of its points, that
  `latest.json` names the newest returned version, that a whole payload is of no earlier
  process than the last to return its version, and that a load under way is about a
  version as new as those it must not fall behind.  Which artifacts are loaded is left
  to the clients: any, in any order.
- **SGLangRolloutProofs**, for any set of artifacts, runs and models.  A call
  past `_ensure_server` whose server lives finds in it the model it needs; this
  and the memory of the adapters make LoRA samples right whatever fails.
- **SFTJobProofs**, for every data set, batch size, limit and period.  The loop
  counters are tied to where the job is, saves to commits, and the artifact the
  rollout holds to the summary.  `LabelsAreRight` adds that a save happened at the
  last multiple of the period, so where the period divides the steps, or there is
  none, the last step was saved.
- **DistributedRuntimeProofs**, for any number of jobs.  Entries and attached
  workers are of the deployment they are filed under; where the job's id is its own that
  makes them the job's own.  The clean-up is proved by how far it has come.
  `HealthyJobsFailOnlyUnready`: the workers of such a job that meets no fault live until
  it ends them, since nobody else can; so all that can go wrong is that one of them
  does not listen yet.
- **ProxyServiceProofs**, for any clients, calls and bounds.  Every event is of a
  piece of work that is done and past its recording.  For a client that is served in
  order, the queues are in the order of the calls, so that a refresh that was done is
  older than those still queued; what the rollout has loaded is never older than
  what the client was last told, even if it gave up in between.
  `RetriesAreSafe`: a call of optim_step and its repeats are consecutive requests,
  so the maximal runs of consecutive optim_steps are at most as many as calls.
  Between two requests that stepped, the status machine wants a forward_backward that
  was done, so they are in different runs.  The steps are counted by an injection into
  the runs, with the cardinalities of the library.
- **GrpcServiceProofs**, for any calls, requests, results and threads, and both meshes.
  `MInv` says of the mesh which actors, processes and workers there are by how far the
  list of calls has come: a start that is at step i has made what the steps before it
  make, a stop has gone past what it ended, so that what a stop leaves is what a step
  that raised should have ended.  The lists are written out once (`LocalStartList`, ...)
  and from then on only their entries are used.  `GInv` adds what is true of one call,
  whatever the others do (`CallFine`): what was received is what the request's message
  says, how the three lives of a call go together, and what an outcome the client has
  been told says about the work.  `ConversionsAreFaithful` rests on one lemma for each
  message, that going there and back changes nothing but what the message cannot
  carry; hence the assumption that a request is a value of its dataclass
  (`IsRequest`), with any field at all.  `OneAnswerForACall` is an action property no
  run checks: what a client has been told is never replaced.
- **ClusteredSFTProofs**, for any number of nodes, GPUs and steps and any parallel
  sizes.  The ranks see only three kinds of step: some are lost, one enters a
  collective, one goes on (out of a collective only when all have entered it).  The
  invariant says what a rank has done by where it is (`StageIsRight`), what a rank
  that ever entered one of the last barriers has done for good
  (`EnteredAfterwards`), and hence what all have done when one is past it
  (`PassedTogether`).  Manifest and answer follow.  `SoundJobs` is inductive with it:
  a rank only fails for a peer that is lost, and the first would need a reason.
  `EveryStepTrains` is about the deal: the position of a microbatch in the job's
  endless sequence of batches, `(step * accumulation + micro) * dp + replica`, is a
  bijection from the first ranks of the replicas and their microbatches onto the
  global batch (quotient and remainder give both back, and the rank algebra has one
  first rank for each replica), so both sides of the property count the same set.
  The invariant adds that a rank's k-th entry is what the deal gives it in step k.
  `LossIsTheMean` rests on where a datum is once the batches of a rank are joined: its
  place is the length of the batches before its own plus its place in it, cutting the
  joined data again keeps every datum at its place, and the two maps are inverse to each
  other.  With the bijection above this takes the positions of the global batch one to
  one to the places at which a datum counts in a loss.  No more is true: the number of
  microbatches is what was dealt only where all batches are full.
  `DatumsTrain` says of every datum of every data set that the tokens with
  weight are the completion's and its end; `BatchesKeepTheDatums` that cutting data in
  batches of any size and joining them again gives the data.  `AnswersAreFinal`: what
  the call has answered is not taken back, whatever fails later.

Every invariant of every passing run is proved, and so is the refinement of
TrainingLifecycle.  Some theorems are about
more than the runs: `StatusChecksHold` (what a status check saw still holds at
the answer), `FailedAndClosedAreFinal`, `ArtifactsWerePublished`,
`OwnIdKeepsWorkersApart`, `OneAnswerForACall`, `AnswersAreFinal` and
`BatchesKeepTheDatums`.  Model-checked only are the liveness properties, since they
need fairness: `EveryCallReturns` of both backends, `EveryRequestIsAnswered`, `JobEnds`
of both jobs, `JobsAndWorkersEnd` and `CallsAndStopsEnd`.

## Disagreements found

Each is a run with one property that TLC violates; `findings` quotes the sentence.

| Run | The code | What is said of it |
|---|---|---|
| StaleEndpoint | a job whose id was used before attaches to a worker an earlier job left behind, which serves it | rfc-0008: stale endpoints must not accept mutating requests |
| SGLangCheckpoints | a checkpoint of one run replaces that of another, which is still sampled | rfc-0008: reject sampling if the artifact is not loaded |
| ClusteredFailure | only node 0 decides: a rank or node lost after the last barrier does not fail the call | rfc-0009: if any trainer rank exits non-zero, the clustered trainer call fails |
| SFTJobSaveEvery | `save_every` that does not divide the steps loses the last ones and mislabels the artifact | rfc-0004: save final weights |

Other limits of the code that the properties are stated around, since no run
checks them as a question of its own:

- A batch the Megatron trainer refuses fails the run for good
  (`ForwardBackwardFails` with an invalid input), where rfc-0003 wants validation
  failures to leave the state unchanged.  `batch_datums` keeps an incomplete last
  batch, which a Qwen job then fails on: `FailsOnlyForItsData` says exactly when.
- A sample request names the run, so a sampler gets whatever the run was refreshed
  to last: `SamplersAreNotOlder` holds for one client, with messages in order.
- The fake trainer steps without a gradient; `RetriesStepOnce` needs Megatron's
  status machine.
- Finished work is not answered while the telemetry actor is stuck:
  `EveryRequestIsAnswered` assumes that it is live.
- After a health timeout `_ensure_server` keeps a server that is still starting, so
  a full checkpoint becomes visible without a health check; and `_loaded_loras` of
  an attached server outlives its restart.  `VisibleOnlyWhenLoaded` is about
  adapters on a launched server.
- A worker is published two seconds after its process was started, whether or not it
  listens by then.  A job that attaches too early fails (`"unready"`), also where nothing
  else went wrong: `OnlyLateWorkersFailAJob` says that this is the only reason.
- Saving a version twice truncates the payload while its manifest and `latest.json`
  still name it, where rfc-0009 does not want partial checkpoints promoted.  The versions
  of `overwriting` are the exception of `LatestNamesComplete` and `ReturnedStaysWhole`.
- Where Megatron's bridge writes the adapter on another node, rank 0 stores a manifest
  without weights, again against rfc-0009.  Which rank writes is the bridge's choice and
  external; `ManifestsAreWhole` says what the manifest comes with in either case.
- Short batches that merge in the trainer make a rank cut other and fewer microbatches
  than it was dealt.  A microbatch then weighs more on one replica than on another, and
  the reported loss is a mean of means, not the mean over the step's microbatches: with
  two replicas, an accumulation of two, batches of two and three lines of data, one
  replica cuts two microbatches and the other one.  `LossIsTheMeanOfTheStep` says what
  counts how often, and where the replicas have equally many.
- The gRPC server searches the class of an actor's error in the text Monarch wraps it
  in.  A message with a single quotation mark is printed in double ones and not
  recognised: the client gets INTERNAL instead (`StatusCode`).
- A top_p of 0, which the actors refuse, arrives over gRPC as 1 and is sampled with.
- Only the server raises gRPC's limit for messages, so a file above 4 MB is read,
  sent, and dropped by the client (`Answered`).
- Where the port cannot be bound, grpc raises, and the mesh that was started before
  stays (`Bind`).
- A data set whose selection is empty leaves an empty file where a good one was
  (`FileAfter`); a local mesh whose start fails leaves the actors it has (`StartFails`).
- The order of ranks `rank_info_from_global_rank` gives is not Megatron's when there
  are pipeline stages; the trainer asks Megatron, so nothing depends on it.  The
  mutant `ReplicaOfContiguous` shows what would.

## What is not modelled

Tensors, tokenizers, prompt and payload formats, model construction, the export of
checkpoints, and what a collective computes other than the loss: the properties do
not depend on them.  That gradients are reduced over the replicas is Megatron's doing
and external, as are Modal, Monarch, torchrun and the channels of gRPC; what is
assumed of them (containers end, messages of one sender arrive in order, a process
group times out) is stated where it is used.  That a volume reload is refused while
its files are open, and that Modal commits a volume in the background, is specified
nowhere; the first only appears as a call that fails.

Three details no property depends on: an unknown loss function, which the conversion of
a batch refuses, is no input of its own in MegatronBackend; a save that fails and leaves
the run ready is no step of the trainer ProxyService composes; and the limit for the
size of a message that the gRPC client keeps is applied to downloads only.

Left out are generated protobuf code and configuration classes, which keep no state;
launch scripts and smoke tests, which call the parts above once; and three older
programs: `qwen_sft` (with `modal_apps/sft.py`) and `remote_mesh.py`, copies of the
distributed runtime for one model, and the evaluation of the Starcoder app.  Of the
registry, heartbeats and epochs are left out: nothing in the repository calls them.  `components` in `PROJECT.json` says for each part why it is left out or only
partly there.

## The plan

Done, in the order of importance: the training backend with the lifecycle it
implements; the artifact store; the proxy and its clients; the SGLang rollout; the
SFT job; the distributed runtime; clustered SFT with the rank algebra and the data;
gRPC with its conversions over the local mesh; the proofs above.  What would add most
next:

1. *Registry*: heartbeats against restarts, once a runtime calls them; epochs as
   rfc-0008 wants them, as the abstract specification.
2. *Composition*: GrpcService over the requests of ProxyService instead of actors
   that answer anything; ClusteredSFT's ranks each as a MegatronBackend.
3. *Proofs*: that a service composed in this way implements what ProxyService
   promises; what TrainingLifecycle itself promises, stated on it.
4. *Starcoder and Qwen apps*: the older copies, if they are to stay.
