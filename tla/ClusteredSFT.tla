----------------------------- MODULE ClusteredSFT -----------------------------
(***************************************************************************)
(* A clustered SFT job: the Modal function that runs in every container of *)
(* a cluster (qwen_sft_multinode/infra.py, starcoder_ganker/infra.py), the *)
(* torchrun agent it starts there, and the ranks, one per GPU, that run    *)
(* train_entry.py and meet in collectives.  Rank layout and dealing of the *)
(* data are those of ganker/distributed/torchrun.py.                       *)
(*                                                                         *)
(* A rank enters a collective and leaves it once every rank of the group   *)
(* has entered it; a rank that waits for one that is gone fails in the end *)
(* (the process group's timeout).  A rank or a container may fail anywhere.*)
(* Modal, torchrun, Megatron and Bridge are external.                      *)
(***************************************************************************)
EXTENDS Integers, Sequences, FiniteSets, Functions, SFTData

CONSTANT Jobs            \* the jobs that are asked for

Modes == {"qwen-lora-sft", "hf-ddp-baseline", "torchrun-env", "nccl-smoke"}
\* The functions that run in a cluster, and those that run the same on one GPU.
ClusteredApps == {"qwen", "starcoder"}
SingleApps == {"qwen-single", "starcoder-single"}
Apps == ClusteredApps \cup SingleApps

\* What a job says: its sizes, its dataset file and the data set to make it from, if
\* any.
JobRequests ==
  [app : Apps, mode : Modes, nodes : Nat \ {0}, gpus : Nat \ {0}, tp : Nat \ {0},
   pp : Nat \ {0}, micro_batch_size : Nat \ {0}, global_batch_size : Nat \ {0},
   steps : Nat, lines : Seq(FileLines), sources : Seq(Sources), sequence_length : Int,
   writer : Nat,         \* the rank whose process writes the adapter's files
   max_faults : Nat]     \* bound on failures that are not the job's own doing

ASSUME JobsAssumption ==
  /\ Jobs \subseteq JobRequests
  /\ \A j \in Jobs : j.app # "qwen" => j.mode = "qwen-lora-sft"

VARIABLES
  job,                   \* the job
  launcher,              \* the script that prepares the data and calls the job
  dataset,               \* lines of the dataset file in the volume
  batches,               \* what every rank reads from it: same file, same seed
  node,                  \* node[n]: where the Modal function of container n is
  at,                    \* at[r]: what rank r is about to do, or is inside of
  inside,                \* inside[r]: rank r has entered the collective at[r]
  step,                  \* step[r]: optimizer steps rank r has taken
  entered,               \* entered[r]: collectives rank r has entered
  trained,               \* trained[r]: per step, the batches rank r trained on
  losses,                \* rank 0's loss curve: what the mean of each step is of
  adapter,               \* the adapter's files are there to see on node 0
  stored,                \* per rank, whether its artifact store has a manifest
  payload,               \* whether rank 0's manifest says the adapter was written
  result,                \* rank 0 has written its JSON file
  committed,             \* node 0 has committed the artifact volume, manifest and all
  faults

launch == <<job, launcher, dataset, batches>>
files == <<losses, adapter, stored, payload, result>>
vars == <<launch, node, at, inside, step, entered, trained, files, committed, faults>>

-----------------------------------------------------------------------------
(* Parallel sizes and rank layout                                           *)

WorldSize(j) == j.nodes * j.gpus
ModelParallelSize(j) == j.tp * j.pp
DataParallelSize(j) == WorldSize(j) \div ModelParallelSize(j)
GradAccumSteps(j) ==
  j.global_batch_size \div (j.micro_batch_size * DataParallelSize(j))

\* DistributedTrainingConfig refuses the sizes before anything is launched.
IsConfig(j) ==
  /\ WorldSize(j) % ModelParallelSize(j) = 0
  /\ j.global_batch_size % (j.micro_batch_size * DataParallelSize(j)) = 0

\* require_supported_model_parallel: a pipeline needs as many microbatches as stages.
AllowsModelParallel(j) == j.pp > 1 => GradAccumSteps(j) >= j.pp
\* require_dp_only
IsDataParallelOnly(j) == j.tp = 1 /\ j.pp = 1 /\ GradAccumSteps(j) = 1

\* _validate_cluster_config of the Qwen apps, by mode, and of the Starcoder app.
IsQwenSupported(j) ==
  /\ j.mode = "qwen-lora-sft" => AllowsModelParallel(j)
  /\ j.mode = "hf-ddp-baseline" => IsDataParallelOnly(j)
IsStarcoderSupported(j) == j.app = "starcoder" => IsDataParallelOnly(j)

\* What a container, or a rank that runs alone, checks before it trains.
IsSupported(j) == IsConfig(j) /\ IsQwenSupported(j) /\ IsStarcoderSupported(j)

\* _single_node_config of the Starcoder app, which keeps the parallel sizes, and
\* of the comparison script, which does not.
Deployed(j) ==
  CASE j.app = "starcoder-single" ->
         [j EXCEPT !.nodes = 1, !.gpus = 1, !.global_batch_size = j.micro_batch_size]
    [] j.app = "qwen-single" ->
         [j EXCEPT !.nodes = 1, !.gpus = 1, !.global_batch_size = j.micro_batch_size,
                   !.tp = 1, !.pp = 1]
    [] OTHER -> j

\* rank_info_from_global_rank: replicas are made of consecutive ranks.
ContiguousRankInfo(j, r) ==
  [dp |-> r \div ModelParallelSize(j),
   tp |-> (r % ModelParallelSize(j)) % j.tp,
   pp |-> (r % ModelParallelSize(j)) \div j.tp]

\* _megatron_rank_info: the groups Megatron has made, tensor ranks next to each
\* other, then data parallel ranks, then pipeline stages.
RankInfo(j, r) ==
  [dp |-> (r \div j.tp) % DataParallelSize(j),
   tp |-> r % j.tp,
   pp |-> r \div (j.tp * DataParallelSize(j))]

\* Mutant: every rank with tensor rank 0 reports, whatever its pipeline stage.
ReportsFromEveryStage(j, r) == RankInfo(j, r).tp = 0

IsLossReporter(j, r) ==
  RankInfo(j, r).tp = 0 /\ RankInfo(j, r).pp = j.pp - 1

\* select_data_parallel_items: the batch dealt to replica dp as microbatch micro
\* of step s.
DealtIndex(j, dp, s, micro, count) ==
  ((s * GradAccumSteps(j) + micro) * DataParallelSize(j) + dp) % count

MicroSteps(j) == 0 .. GradAccumSteps(j) - 1

-----------------------------------------------------------------------------
Ranks == 0 .. WorldSize(job) - 1
Nodes == 0 .. job.nodes - 1
NodeOf(r) == r \div job.gpus
RanksOf(n) == {r \in Ranks : NodeOf(r) = n}

\* Mutant: the layout of the helper instead of the one Megatron made.
ReplicaOfContiguous(r) == ContiguousRankInfo(job, r).dp

ReplicaOf(r) == RankInfo(job, r).dp

\* The ranks that run one copy of the model with rank r, as Megatron grouped them.
ModelGroup(r) == {q \in Ranks : RankInfo(job, q).dp = RankInfo(job, r).dp}

BatchCount == Len(batches.value)

LocalBatches(r, s) ==
  [m \in MicroSteps(job) |-> DealtIndex(job, ReplicaOf(r), s, m, BatchCount)]

\* The datums of batch b of the data: a datum stands for which one it is.
Datums(b) == [i \in 1 .. Len(batches.value[b + 1]) |-> <<b, i>>]

\* The datums of the dealt batches, one batch after the other: what the backend gets.
LogicalBatch(dealt) ==
  FlattenSeq([m \in 1 .. GradAccumSteps(job) |-> Datums(dealt[m - 1])])

\* _split_tensor_batch: refused where the last batch of the data, which may be short,
\* makes their number uneven.
IsRefused(r, s) ==
  Len(LogicalBatch(LocalBatches(r, s))) % job.micro_batch_size # 0

-----------------------------------------------------------------------------
(* What the ranks run, in order                                             *)

Collectives == {"init", "forward_backward", "average", "train_barrier", "export",
                "adapter_barrier", "saved_barrier", "train_step", "gather",
                "all_reduce", "end_barrier"}
LocalStages == {"load", "optim_step", "store", "result", "close"}
Lost == {"failed", "killed"}
Stages == Collectives \cup LocalStages \cup Lost \cup {"unstarted", "done"}

FirstStage == IF job.mode = "hf-ddp-baseline" THEN "load" ELSE "init"

\* Mutant: one step too many.
LoopOneMore(steps) ==
  IF steps <= job.steps THEN "forward_backward" ELSE "train_barrier"

\* The training loop, and where its end leads.
Loop(steps) == IF steps < job.steps THEN "forward_backward" ELSE "train_barrier"

\* The baseline: the steps of the Hugging Face trainer, one after the other.
BaselineLoop(steps) == IF steps < job.steps THEN "train_step" ELSE "result"

LoopOrAfter(steps) ==
  IF job.mode = "qwen-lora-sft" THEN Loop(steps) ELSE BaselineLoop(steps)

\* The two smoke tests have one collective each.
AfterInit ==
  CASE job.mode = "torchrun-env" -> "gather"
    [] job.mode = "nccl-smoke" -> "all_reduce"
    [] OTHER -> "load"

SaveStages == {"train_barrier", "export", "adapter_barrier", "store"}

\* Mutant: nobody waits for the adapter's files.
SaveWithoutAdapterBarrier(stage) ==
  CASE stage = "train_barrier" -> "export"
    [] stage = "export" -> "store"
    [] stage = "store" -> "saved_barrier"

\* Mutant: rank 0 publishes its result without waiting for the others to save.
SaveWithoutSavedBarrier(stage) ==
  CASE stage = "train_barrier" -> "export"
    [] stage = "export" -> "adapter_barrier"
    [] stage = "adapter_barrier" -> "store"
    [] stage = "store" -> "result"

\* The end of training, with save_weights and the barriers around it.
AfterSaving(stage) ==
  CASE stage = "train_barrier" -> "export"
    [] stage = "export" -> "adapter_barrier"
    [] stage = "adapter_barrier" -> "store"
    [] stage = "store" -> "saved_barrier"

Following(stage, steps) ==
  CASE stage = "init" -> AfterInit
    [] stage \in {"load", "average", "train_step"} -> LoopOrAfter(steps)
    [] stage = "forward_backward" -> "optim_step"
    [] stage = "optim_step" -> "average"
    [] stage \in SaveStages -> AfterSaving(stage)
    [] stage \in {"saved_barrier", "gather", "all_reduce"} -> "result"
    [] stage = "result" -> IF job.mode = "qwen-lora-sft" THEN "close" ELSE "end_barrier"
    [] stage = "end_barrier" -> "close"
    [] stage = "close" -> "done"

\* A schedule is run by the ranks of one copy of the model; gather_object makes
\* only its destination wait; everything else is run by all.
Group(r) ==
  CASE at[r] = "forward_backward" -> ModelGroup(r)
    [] at[r] = "gather" /\ r # 0 -> {r}
    [] OTHER -> Ranks

Occasion(r) == <<at[r], step[r]>>
Alive(r) == at[r] \in Collectives \cup LocalStages

Init ==
  /\ job \in {Deployed(j) : j \in Jobs}
  /\ launcher = "starting"
  /\ dataset = job.lines
  /\ batches = Raised
  /\ node = [n \in Nodes |-> "called"]
  /\ at = [r \in Ranks |-> "unstarted"]
  /\ inside = [r \in Ranks |-> FALSE]
  /\ step = [r \in Ranks |-> 0]
  /\ entered = [r \in Ranks |-> {}]
  /\ trained = [r \in Ranks |-> <<>>]
  /\ losses = <<>>
  /\ adapter = FALSE
  /\ stored = [r \in Ranks |-> FALSE]
  /\ payload = FALSE
  /\ result = FALSE
  /\ committed = FALSE
  /\ faults = 0

-----------------------------------------------------------------------------
(* The launcher                                                             *)

\* job_config refuses parallel sizes that do not fit.
RefusesSizes == job.app \in ClusteredApps /\ ~IsConfig(job)

\* prepare_real_sft_dataset, prepare_starcoder_dataset
PrepareDataset ==
  /\ launcher = "starting"
  /\ job.sources # <<>>
  /\ LET source == Head(job.sources)
     IN /\ dataset' = FileAfter(source, dataset)
        /\ launcher' = IF Lines(source) = <<>> THEN "raised" ELSE "prepared"
  /\ UNCHANGED <<job, batches, node, at, inside, step, entered, trained, files,
                 committed, faults>>

CallTrainer ==
  /\ launcher = IF job.sources = <<>> THEN "starting" ELSE "prepared"
  /\ launcher' = IF RefusesSizes THEN "raised" ELSE "called"
  /\ batches' = LoadBatches(dataset, job.sequence_length, job.micro_batch_size)
  /\ UNCHANGED <<job, dataset, node, at, inside, step, entered, trained, files,
                 committed, faults>>

-----------------------------------------------------------------------------
(* Containers                                                               *)

\* run_clustered_trainer up to distributed_run.run: check the sizes, start the ranks.
StartNode(n) ==
  /\ launcher = "called"
  /\ node[n] = "called"
  /\ IF IsSupported(job)
     THEN /\ node' = [node EXCEPT ![n] = "running"]
          /\ at' = [r \in Ranks |-> IF NodeOf(r) = n THEN FirstStage ELSE at[r]]
     ELSE /\ node' = [node EXCEPT ![n] = "raised"]
          /\ UNCHANGED at
  /\ UNCHANGED <<launch, inside, step, entered, trained, files, committed, faults>>

\* The agent returns when its own ranks have exited with 0.  Container 0 goes on.
AgentReturns(n) ==
  /\ node[n] = "running"
  /\ \A r \in RanksOf(n) : at[r] = "done"
  /\ node' = [node EXCEPT ![n] = IF n = 0 THEN "finished" ELSE "returned"]
  /\ UNCHANGED <<launch, at, inside, step, entered, trained, files, committed, faults>>

\* The ranks of container n that still run are killed with it.
Killed(n) ==
  [r \in Ranks |-> IF NodeOf(r) = n /\ Alive(r) THEN "killed" ELSE at[r]]

\* A rank of its own fails: the agent kills the others and raises.
AgentRaises(n) ==
  /\ node[n] = "running"
  /\ \E r \in RanksOf(n) : at[r] = "failed"
  /\ node' = [node EXCEPT ![n] = "raised"]
  /\ at' = Killed(n)
  /\ UNCHANGED <<launch, inside, step, entered, trained, files, committed, faults>>

\* artifact_volume.commit()
Commit ==
  /\ node[0] = "finished"
  /\ node' = [node EXCEPT ![0] = "committed"]
  /\ committed' = (job.mode = "qwen-lora-sft" => stored[0])
  /\ UNCHANGED <<launch, at, inside, step, entered, trained, files, faults>>

\* read_json(result_path): rank zero's answer is the answer of the call.
ReturnResult ==
  /\ node[0] = "committed"
  /\ node' = [node EXCEPT ![0] = IF result THEN "returned" ELSE "raised"]
  /\ UNCHANGED <<launch, at, inside, step, entered, trained, files, committed, faults>>

\* A reload, the launch, the commit raise, or the container dies.
NodeFails(n) ==
  /\ launcher = "called"
  /\ node[n] \in {"called", "running", "finished", "committed"}
  /\ faults < job.max_faults
  /\ faults' = faults + 1
  /\ node' = [node EXCEPT ![n] = "raised"]
  /\ at' = Killed(n)
  /\ UNCHANGED <<launch, inside, step, entered, trained, files, committed>>

-----------------------------------------------------------------------------
(* Ranks                                                                    *)

Reaches(r, stage) ==
  /\ at' = [at EXCEPT ![r] = stage]
  /\ inside' = [inside EXCEPT ![r] = FALSE]
  /\ UNCHANGED <<launch, node, committed, faults>>

Enter(r) ==
  /\ at[r] \in Collectives
  /\ ~inside[r]
  /\ at[r] = "forward_backward" => ~IsRefused(r, step[r])
  /\ inside' = [inside EXCEPT ![r] = TRUE]
  /\ entered' = [entered EXCEPT ![r] = @ \cup {Occasion(r)}]
  /\ UNCHANGED <<launch, node, at, step, trained, files, committed, faults>>

\* _extract_loss: a rank's loss is the mean over the microbatches that
\* _split_tensor_batch has cut, which may be fewer than were dealt; the loss of a
\* microbatch stands for its datums.
LossOf(r, s) == Batches(LogicalBatch(trained[r][s + 1]), job.micro_batch_size)

\* _average_scalar: the mean over the reporters, of what each of them has.
Average(s) == [q \in {q \in Ranks : IsLossReporter(job, q)} |-> LossOf(q, s)]

\* Leaving a collective, with what the rank has got from it.
Leave(r) ==
  /\ inside[r]
  /\ at[r] \in Collectives
  /\ \A q \in Group(r) : Occasion(r) \in entered[q]
  /\ step' = [step EXCEPT ![r] = IF at[r] = "train_step" THEN @ + 1 ELSE @]
  /\ Reaches(r, Following(at[r], step'[r]))
  /\ trained' = IF at[r] = "forward_backward"
                THEN [trained EXCEPT ![r] = Append(@, LocalBatches(r, step[r]))]
                ELSE trained
  /\ losses' = IF at[r] = "average" /\ r = 0
               THEN Append(losses, Average(step[r] - 1))
               ELSE losses
  /\ adapter' = (adapter \/ (at[r] = "export" /\ r = job.writer /\ NodeOf(r) = 0))
  /\ UNCHANGED <<entered, stored, payload, result>>

\* Mutant: the deal does not wrap around, so a replica may find no batch.
LoadWithoutWrap(r) ==
  /\ at[r] = "load"
  /\ Reaches(r, IF ~batches.ok \/ ReplicaOf(r) >= BatchCount
                THEN "failed" ELSE Following("load", step[r]))
  /\ UNCHANGED <<step, entered, trained, files>>

\* _load_batches; the baseline refuses to train no step at all.
Load(r) ==
  /\ at[r] = "load"
  /\ Reaches(r, IF ~batches.ok \/ (job.mode = "hf-ddp-baseline" /\ job.steps = 0)
                THEN "failed" ELSE Following("load", step[r]))
  /\ UNCHANGED <<step, entered, trained, files>>

OptimStep(r) ==
  /\ at[r] = "optim_step"
  /\ step' = [step EXCEPT ![r] = @ + 1]
  /\ Reaches(r, Following("optim_step", step'[r]))
  /\ UNCHANGED <<entered, trained, files>>

\* The rank's own artifact store; rank 0's is the volume.  The payload says whether
\* the adapter's files are there.
Store(r) ==
  /\ at[r] = "store"
  /\ stored' = [stored EXCEPT ![r] = TRUE]
  /\ payload' = IF r = 0 THEN adapter ELSE payload
  /\ Reaches(r, Following("store", step[r]))
  /\ UNCHANGED <<step, entered, trained, losses, adapter, result>>

WriteResult(r) ==
  /\ at[r] = "result"
  /\ result' = (result \/ r = 0)
  /\ Reaches(r, Following("result", step[r]))
  /\ UNCHANGED <<step, entered, trained, losses, adapter, stored, payload>>

Close(r) ==
  /\ at[r] = "close"
  /\ Reaches(r, Following("close", step[r]))
  /\ UNCHANGED <<step, entered, trained, files>>

\* A logical batch that does not divide into microbatches.
RefuseBatch(r) ==
  /\ at[r] = "forward_backward"
  /\ ~inside[r]
  /\ IsRefused(r, step[r])
  /\ Reaches(r, "failed")
  /\ UNCHANGED <<step, entered, trained, files>>

\* A rank that will never enter what r is in.
IsGone(q) ==
  at[q] \in Lost \/ (at[q] = "unstarted" /\ node[NodeOf(q)] = "raised")

\* Mutant: a rank waits forever for one whose container never started it.
PeerLostStartedOnly(r) ==
  /\ inside[r]
  /\ at[r] \in Collectives
  /\ \E q \in Group(r) : at[q] \in Lost /\ Occasion(r) \notin entered[q]
  /\ Reaches(r, "failed")
  /\ UNCHANGED <<step, entered, trained, files>>

\* The process group gives up on the collective.
PeerLost(r) ==
  /\ inside[r]
  /\ at[r] \in Collectives
  /\ \E q \in Group(r) : IsGone(q) /\ Occasion(r) \notin entered[q]
  /\ Reaches(r, "failed")
  /\ UNCHANGED <<step, entered, trained, files>>

RankFails(r) ==
  /\ Alive(r)
  /\ faults < job.max_faults
  /\ faults' = faults + 1
  /\ at' = [at EXCEPT ![r] = "failed"]
  /\ inside' = [inside EXCEPT ![r] = FALSE]
  /\ UNCHANGED <<launch, node, step, entered, trained, files, committed>>

-----------------------------------------------------------------------------
RankMoves(r) ==
  \/ Enter(r) \/ Leave(r) \/ Load(r) \/ OptimStep(r) \/ Store(r) \/ WriteResult(r)
  \/ Close(r) \/ RefuseBatch(r) \/ PeerLost(r)

NodeMoves(n) == StartNode(n) \/ AgentReturns(n) \/ AgentRaises(n)

Moves ==
  \/ PrepareDataset \/ CallTrainer \/ Commit \/ ReturnResult
  \/ \E n \in Nodes : NodeMoves(n)
  \/ \E r \in Ranks : RankMoves(r)

Faults ==
  \/ \E n \in Nodes : NodeFails(n)
  \/ \E r \in Ranks : RankFails(r)

Next == Moves \/ Faults

Spec == Init /\ [][Next]_vars

\* Nothing stops that can go on: the ranks run, and the process group and the
\* agents notice failures.
FairSpec == Spec /\ WF_vars(Moves)
-----------------------------------------------------------------------------
NodeStates == {"called", "running", "finished", "committed", "returned", "raised"}

\* Types, and that no rank goes past the steps it was asked for.
TypeOK ==
  /\ job \in {Deployed(j) : j \in Jobs}
  /\ launcher \in {"starting", "prepared", "called", "raised"}
  /\ node \in [Nodes -> NodeStates]
  /\ at \in [Ranks -> Stages]
  /\ inside \in [Ranks -> BOOLEAN]
  /\ step \in [Ranks -> 0 .. job.steps]
  /\ entered \in [Ranks -> SUBSET (Collectives \X (0 .. job.steps))]
  /\ stored \in [Ranks -> BOOLEAN]
  /\ <<adapter, payload, result, committed>> \in BOOLEAN \X BOOLEAN \X BOOLEAN \X BOOLEAN
  /\ faults \in 0 .. job.max_faults

\* The positions of the global batch of step s, in the sequence of batches that the
\* job goes round and round.
GlobalBatch(s) ==
  LET size == GradAccumSteps(job) * DataParallelSize(job)
  IN s * size .. (s + 1) * size - 1

\* A step that all ranks have taken has trained the batches of the global batch,
\* each as often as it occurs there, over all replicas; the ranks that run one copy
\* of the model, on any node, have trained on the same (train_entry.py:152-174 with
\* torchrun.py:274-313: the deal is by the data parallel rank alone).
EveryStepTrainsTheGlobalBatch ==
  \A s \in 0 .. job.steps - 1 : (\A r \in Ranks : Len(trained[r]) > s) =>
    /\ \A r \in Ranks : \A q \in ModelGroup(r) : trained[q][s + 1] = trained[r][s + 1]
    /\ LET leaders == {r \in Ranks : \A q \in ModelGroup(r) : r <= q}
       IN \A b \in 0 .. BatchCount - 1 :
            Cardinality({rm \in leaders \X MicroSteps(job) : trained[rm[1]][s + 1][rm[2]] = b})
              = Cardinality({p \in GlobalBatch(s) : p % BatchCount = b})

\* The places at which a loss counts datum i of batch b.
Counted(loss, b, i) ==
  {qp \in UNION {{q} \X DOMAIN FlattenSeq(loss[q]) : q \in DOMAIN loss} :
     FlattenSeq(loss[qp[1]])[qp[2]] = <<b, i>>}

IsFull(b) == Len(batches.value[b + 1]) = job.micro_batch_size

IsMeanOf(loss, s) ==
  /\ \A d \in 0 .. DataParallelSize(job) - 1 : \E q \in DOMAIN loss : ReplicaOf(q) = d
  /\ \A q, r \in DOMAIN loss : ReplicaOf(q) = ReplicaOf(r) => q = r
  /\ \A b \in 0 .. BatchCount - 1 : \A i \in 1 .. Len(batches.value[b + 1]) :
       Cardinality(Counted(loss, b, i))
         = Cardinality({p \in GlobalBatch(s) : p % BatchCount = b})
  /\ (\A p \in GlobalBatch(s) : IsFull(p % BatchCount)) =>
       \A q \in DOMAIN loss : Len(loss[q]) = GradAccumSteps(job)

\* Each loss rank 0 reports is a mean over the replicas, each of them once, of means
\* over microbatches in which every datum of the step's global batch counts as often
\* as its batch occurs there, whatever the layout.  Where all those batches are full,
\* the replicas have equally many microbatches, so that it is the mean of the step
\* (train_entry.py:152-186, 475-486, megatron.py:854-883, 905-919).
LossIsTheMeanOfTheStep ==
  \A s \in 0 .. Len(losses) - 1 : IsMeanOf(losses[s + 1], s)

Saves == job.mode = "qwen-lora-sft"

\* Rank 0's manifest is written after every rank has done all steps and its part of
\* the export, and says of the adapter's files what is so: they are there where their
\* writer runs on node 0, and the manifest comes without them where it runs on another
\* node (train_entry.py:201-243, megatron.py:670-697).
ManifestsAreWhole ==
  Saves /\ stored[0] =>
    /\ payload = (NodeOf(job.writer) = 0)
    /\ \A r \in Ranks : step[r] = job.steps /\ <<"export", job.steps>> \in entered[r]

\* The call's answer is rank 0's result, and when it comes every rank, on every
\* node, has taken all steps and saved (rfc-0009: "rank 0 result is authoritative
\* only when all ranks reached completion"), and the manifest is committed.
ResultIsAuthoritative ==
  node[0] = "returned" =>
    /\ result /\ committed
    /\ Saves => /\ Len(losses) = job.steps
                /\ \A r \in Ranks : stored[r]
    /\ ~Saves => \A r \in Ranks : <<"end_barrier", step[r]>> \in entered[r]

\* A job whose sizes and data are right.
IsSound ==
  /\ IsSupported(job)
  /\ job.mode \in {"qwen-lora-sft", "hf-ddp-baseline"} => batches.ok
  /\ job.mode = "hf-ddp-baseline" => job.steps > 0
  /\ Saves => \A r \in Ranks, s \in 0 .. job.steps - 1 : ~IsRefused(r, s)

\* Without a fault from outside, no rank of a sound job fails: the ranks meet in the
\* same collectives in the same order, whatever their layout and speed.
SoundJobsDoNotFail ==
  faults = 0 /\ launcher = "called" /\ IsSound =>
    /\ \A r \in Ranks : at[r] \notin Lost
    /\ \A n \in Nodes : node[n] # "raised"

\* A datum trains the tokens of its completion and the end of text, all of them up
\* to the sequence length, and nothing else (data.py:144-193).
DatumsTrainCompletions ==
  \A b \in DOMAIN batches.value : \A d \in DOMAIN batches.value[b] :
    LET datum == batches.value[b][d]
    IN \A i \in DOMAIN datum.target :
         datum.weights[i] > 0 <=> datum.target[i][1] \in {"completion", "eos"}

\* What the user called ends, with an answer or an error, and so does every rank.
JobEnds ==
  <>(\/ launcher = "raised"
     \/ /\ \A n \in Nodes : node[n] \in {"returned", "raised"}
        /\ \A r \in Ranks : ~Alive(r))

\* rfc-0009, Failure Model: "if any trainer rank exits non-zero, the clustered
\* trainer call fails".
FailedRankFailsTheCall ==
  [][node[0] # "returned" /\ node'[0] = "returned" =>
       \A r \in Ranks : at[r] \notin Lost]_vars
=============================================================================
