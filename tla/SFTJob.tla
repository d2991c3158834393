------------------------------- MODULE SFTJob -------------------------------
(***************************************************************************)
(* One distributed SFT job: the loop of examples/sft/loop.py, and what     *)
(* modal_apps/distributed/sft_job.py does with its summary.                *)
(*                                                                         *)
(* The trainer, the rollout and the controller run in three containers;    *)
(* each sees the artifact volume as of its last commit or reload           *)
(* (ModalVolumeTrainingActor, ModalVolumeRolloutActor).  The job is one    *)
(* sequential client: any exception ends it.                               *)
(***************************************************************************)
EXTENDS Naturals

CONSTANTS
  MaxDatums,             \* bound on the encoded examples of a data set
  MaxLimit,              \* bound on max_steps
  BatchSizes,            \* micro_batch_size, which is also the size of the batches
  SaveEverys             \* values of save_every

ASSUME JobAssumption ==
  /\ MaxDatums \in Nat /\ MaxLimit \in Nat
  /\ BatchSizes \subseteq Nat \ {0}
  /\ SaveEverys \subseteq Nat

VARIABLES
  config,                \* the job, its parameters and the number of its datums
  at,                    \* where the job is
  taken,                 \* batches given to forward_backward
  losses,                \* steps whose loss was recorded
  version,               \* checkpoint_version of the trainer, and of the last step
  saved,                 \* version of the artifact of the last save_weights
  trainer_files,         \* versions in the trainer's view of the volume
  committed,             \* versions in the committed volume
  rollout_files,         \* versions in the rollout's view
  controller_files,      \* versions in the controller's view
  loaded,                \* the artifact the rollout loaded
  sampled,               \* the artifact of the sample
  events                 \* usage events recorded

job == <<config, at>>
trained == <<taken, losses, version>>
volume == <<trainer_files, committed, rollout_files, controller_files>>
vars == <<job, trained, saved, volume, loaded, sampled, events>>

Versions == 0 .. MaxLimit
NotSaved == MaxLimit + 1
Points == {"load_data", "create", "next_batch", "optim_step", "save", "commit", "refresh",
           "sample", "reload", "done", "failed", "raised"}

\* run_toy_sft and run_qwen_sft: fake backends, or Megatron and SGLang.
Configs == [job : {"toy", "qwen"}, datums : 0 .. MaxDatums, batch_size : BatchSizes,
            max_steps : 1 .. MaxLimit, save_every : SaveEverys]

\* label: the checkpoint_version of the artifact; weights: the version its payload holds.
NoArtifact == [label |-> NotSaved, weights |-> NotSaved]
Artifacts == [label : Versions, weights : Versions] \cup {NoArtifact}

TypeOK ==
  /\ config \in Configs
  /\ at \in Points
  /\ taken \in Nat
  /\ losses \in Nat
  /\ version \in Versions
  /\ saved \in Versions \cup {NotSaved}
  /\ trainer_files \in SUBSET Versions
  /\ committed \in SUBSET Versions
  /\ rollout_files \in SUBSET Versions
  /\ controller_files \in SUBSET Versions
  /\ loaded \in Artifacts
  /\ sampled \in Artifacts
  /\ events \in Nat

Init ==
  /\ config \in Configs
  /\ at = "load_data"
  /\ taken = 0 /\ losses = 0 /\ version = 0
  /\ saved = NotSaved
  /\ trainer_files = {} /\ committed = {} /\ rollout_files = {} /\ controller_files = {}
  /\ loaded = NoArtifact /\ sampled = NoArtifact
  /\ events = 0

-----------------------------------------------------------------------------
(* The data: batch_datums cuts the datums into batches, the last one shorter *)

Batches == (config.datums + config.batch_size - 1) \div config.batch_size
LastIsShort == config.datums % config.batch_size # 0
IsShort(batch) == batch = Batches /\ LastIsShort

\* Megatron refuses a batch that micro_batch_size does not divide; the fake takes any.
Refused(batch) == config.job = "qwen" /\ IsShort(batch)

\* An empty data set is an error.
LoadData ==
  /\ at = "load_data"
  /\ at' = IF Batches = 0 THEN "failed" ELSE "create"
  /\ UNCHANGED <<config, trained, saved, volume, loaded, sampled, events>>

-----------------------------------------------------------------------------
(* The training loop *)

CreateTrainingClient ==
  /\ at = "create"
  /\ at' = "next_batch"
  /\ UNCHANGED <<config, trained, saved, volume, loaded, sampled, events>>

More == taken < Batches /\ losses < config.max_steps

ForwardBackward ==
  /\ at = "next_batch"
  /\ More
  /\ ~Refused(taken + 1)
  /\ at' = "optim_step"
  /\ taken' = taken + 1
  /\ events' = events + 1
  /\ UNCHANGED <<config, losses, version, saved, volume, loaded, sampled>>

\* _split_tensor_batch: micro_batch_size does not divide the batch.
ShortBatchRefused ==
  /\ at = "next_batch"
  /\ More
  /\ Refused(taken + 1)
  /\ at' = "failed"
  /\ UNCHANGED <<config, trained, saved, volume, loaded, sampled, events>>

\* MUTANT of OptimStep: the loss is recorded one step late.
OptimStepUnrecorded ==
  /\ at = "optim_step"
  /\ version' = version + 1
  /\ losses' = version
  /\ events' = events + 1
  /\ at' = IF config.save_every # 0 /\ version' % config.save_every = 0
           THEN "save" ELSE "next_batch"
  /\ UNCHANGED <<config, taken, saved, volume, loaded, sampled>>

OptimStep ==
  /\ at = "optim_step"
  /\ version' = version + 1
  /\ losses' = losses + 1
  /\ events' = events + 1
  /\ at' = IF config.save_every # 0 /\ version' % config.save_every = 0
           THEN "save" ELSE "next_batch"
  /\ UNCHANGED <<config, taken, saved, volume, loaded, sampled>>

\* MUTANT of EndLoop: the weights are saved only every save_every steps.
EndLoopUnsaved ==
  /\ at = "next_batch"
  /\ ~More
  /\ at' = "refresh"
  /\ UNCHANGED <<config, trained, saved, volume, loaded, sampled, events>>

\* After the loop the weights are saved, unless they were saved before.
EndLoop ==
  /\ at = "next_batch"
  /\ ~More
  /\ at' = IF saved = NotSaved THEN "save" ELSE "refresh"
  /\ UNCHANGED <<config, trained, saved, volume, loaded, sampled, events>>

-----------------------------------------------------------------------------
(* Saving: the trainer writes into its view of the volume and commits it *)

WriteWeights ==
  /\ at = "save"
  /\ trainer_files' = trainer_files \cup {version}
  /\ at' = "commit"
  /\ UNCHANGED <<config, trained, saved, committed, rollout_files, controller_files,
                 loaded, sampled, events>>

\* MUTANT of Commit: save_weights returns without a commit.
CommitForgotten ==
  /\ at = "commit"
  /\ saved' = version
  /\ at' = IF More THEN "next_batch" ELSE "refresh"
  /\ UNCHANGED <<config, trained, volume, loaded, sampled, events>>

Commit ==
  /\ at = "commit"
  /\ committed' = committed \cup trainer_files
  /\ saved' = version
  /\ at' = IF More THEN "next_batch" ELSE "refresh"
  /\ UNCHANGED <<config, trained, trainer_files, rollout_files, controller_files,
                 loaded, sampled, events>>

-----------------------------------------------------------------------------
(* After training *)

\* The artifact is put together from the summary: the version of the last step,
\* and the payload of the last save.
ArtifactOfSummary == [label |-> version, weights |-> saved]

\* SGLang reads the payload, the fake only its name.
RefreshWeights ==
  /\ at = "refresh"
  /\ rollout_files' = committed
  /\ IF config.job = "qwen" /\ saved \notin rollout_files'
     THEN at' = "failed" /\ UNCHANGED loaded
     ELSE at' = "sample" /\ loaded' = ArtifactOfSummary
  /\ UNCHANGED <<config, trained, saved, trainer_files, committed, controller_files,
                 sampled, events>>

Sample ==
  /\ at = "sample"
  /\ sampled' = loaded
  /\ events' = events + 1
  /\ at' = "reload"
  /\ UNCHANGED <<config, trained, saved, volume, loaded>>

\* The summary of the telemetry and the artifact's files, as the job reports them.
ReloadArtifacts ==
  /\ at = "reload"
  /\ controller_files' = committed
  /\ at' = "done"
  /\ UNCHANGED <<config, trained, saved, trainer_files, committed, rollout_files,
                 loaded, sampled, events>>

Ended == at \in {"done", "failed", "raised"}

\* MUTANT of Raises: a failed call starts the job over.
RaisesRetried ==
  /\ ~Ended
  /\ at' = "create"
  /\ UNCHANGED <<config, trained, saved, volume, loaded, sampled, events>>

\* A container, the network or a disk fails.  Whatever was done stays done.
Raises ==
  /\ ~Ended
  /\ at' = "raised"
  /\ UNCHANGED <<config, trained, saved, volume, loaded, sampled, events>>

-----------------------------------------------------------------------------
Next ==
  \/ LoadData
  \/ CreateTrainingClient
  \/ ForwardBackward
  \/ ShortBatchRefused
  \/ OptimStep
  \/ EndLoop
  \/ WriteWeights
  \/ Commit
  \/ RefreshWeights
  \/ Sample
  \/ ReloadArtifacts
  \/ Raises

Spec == Init /\ [][Next]_vars

\* The client goes on with its job: each call returns or raises.
FairSpec == Spec /\ WF_vars(Next)

-----------------------------------------------------------------------------
(* Properties *)

Least(m, n) == IF m <= n THEN m ELSE n

\* What a job reports adds up: one loss and one optimizer step for each batch it was
\* to train, two usage events for each, one for the sample, and an artifact whose
\* files the controller finds.
ReportAddsUp ==
  at = "done" =>
    /\ losses = Least(config.max_steps, Batches)
    /\ version = losses
    /\ events = 2 * losses + 1
    /\ saved \in controller_files

\* plans/rfc-0009: "SGLang rollout is refreshed only from committed artifacts", for
\* every rollout backend.
RefreshedFromCommitted == loaded # NoArtifact => loaded.weights \in committed

\* The sample a job reports for checkpoint v was generated by the weights of v, the
\* last ones trained.
SamplesTheLabelledWeights ==
  at = "done" => sampled.label = version /\ sampled.weights = sampled.label

\* The same where the last step is one that run_sft saves: no periodic save happened, or
\* the period divides the number of steps.
LastStepIsSaved ==
  \/ config.save_every = 0
  \/ version < config.save_every
  \/ version % config.save_every = 0
LabelsMatchSavedSteps == LastStepIsSaved => SamplesTheLabelledWeights

\* As long as no container fails, a job fails for its data only: there is none, or
\* Megatron has come to the incomplete last batch that batch_datums keeps.  In particular
\* what a job saved is always there for its rollout to load.
FailsOnlyForItsData ==
  at = "failed" =>
    \/ config.datums = 0
    \/ config.job = "qwen" /\ LastIsShort /\ losses = Batches - 1

\* The job ends, whatever its parameters.
JobEnds == <>Ended
=============================================================================
