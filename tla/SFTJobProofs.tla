---------------------------- MODULE SFTJobProofs ----------------------------
(***************************************************************************)
(* Proofs about SFTJob: its report adds up, the rollout is refreshed from  *)
(* committed artifacts, and, where the last step is one that is saved, the *)
(* sample used the weights it names.                                       *)
(***************************************************************************)
EXTENDS SFTJob, TLAPS

\* Each batch that was taken is trained before the next one, unless the job fails.
OneStepPerBatch ==
  /\ version = losses
  /\ at \notin {"failed", "raised"} => taken = IF at = "optim_step" THEN losses + 1 ELSE losses
  /\ losses <= config.max_steps
  /\ taken <= config.max_steps
  /\ taken <= Batches
  /\ at \in {"load_data", "create"} => losses = 0 /\ saved = NotSaved

\* Usage is recorded for each half of a step, and for the sample.
OneEventPerCall ==
  events = taken + losses + (IF sampled = NoArtifact THEN 0 ELSE 1)

\* The job asks for samples of something it saved and committed, after its last step.
SavedIsCommitted ==
  /\ saved # NotSaved => saved \in committed
  /\ at = "commit" => version \in trainer_files
  /\ at \in {"refresh", "sample", "reload", "done"} => saved # NotSaved /\ ~More

\* The rollout loads what the summary names, once.
LoadedIsSummary ==
  /\ at \in {"sample", "reload", "done"} => loaded = ArtifactOfSummary
  /\ loaded # NoArtifact => loaded = ArtifactOfSummary /\ saved # NotSaved
  /\ loaded # NoArtifact => at \in {"sample", "reload", "done", "failed", "raised"}
  /\ sampled # NoArtifact => at \in {"reload", "done", "failed", "raised"}
  /\ at \in {"reload", "done"} => sampled = loaded
  /\ at = "done" => saved \in controller_files

IInv ==
  /\ TypeOK
  /\ OneStepPerBatch
  /\ OneEventPerCall
  /\ SavedIsCommitted
  /\ LoadedIsSummary
  /\ FailsOnlyForItsData

\* The sizes a job is given.
LEMMA SizesType ==
  ASSUME TypeOK PROVE config.datums \in Nat /\ config.batch_size \in Nat \ {0}
<1>1. config.batch_size \in BatchSizes /\ config.datums \in 0 .. MaxDatums
  BY DEF TypeOK, Configs
<1> DEFINE d == config.datums
           b == config.batch_size
<1>2. BatchSizes \subseteq Nat \ {0} /\ MaxDatums \in Nat BY JobAssumption
<1> HIDE DEF d, b
<1>3. b \in BatchSizes /\ d \in 0 .. MaxDatums BY <1>1 DEF d, b
<1>4. b \in Nat \ {0} BY <1>2, <1>3
<1>5. d \in Nat BY <1>2, <1>3
<1> QED BY <1>4, <1>5 DEF d, b

\* The number of batches is a natural number.
LEMMA BatchesType == ASSUME TypeOK PROVE Batches \in Nat
<1> DEFINE d == config.datums
           b == config.batch_size
<1>1. d \in Nat /\ b \in Nat \ {0} BY SizesType
<1> HIDE DEF d, b
<1>2. d + b - 1 \in Nat BY <1>1
<1>3. (d + b - 1) \div b \in Nat BY <1>1, <1>2
<1> QED BY <1>3 DEF Batches, d, b

\* Only an empty data set has no batch.
LEMMA EmptyHasNoBatch ==
  ASSUME NEW d \in Nat, NEW b \in Nat \ {0}, (d + b - 1) \div b = 0
  PROVE  d = 0
<1> DEFINE x == d + b - 1
           q == x \div b
<1>1. x \in Nat OBVIOUS
<1> HIDE DEF x
<1>2. x < b * (q + 1) BY <1>1
<1>3. q = 0 BY DEF x
<1>4. x < b BY <1>2, <1>3
<1> QED BY <1>4 DEF x

LEMMA InitIInv == Init => IInv
<1> SUFFICES ASSUME Init PROVE IInv
  OBVIOUS
<1>1. TypeOK BY JobAssumption DEF Init, TypeOK, Configs, Versions, Points, Artifacts, NoArtifact
<1>2. Batches \in Nat BY <1>1, BatchesType
<1> QED
  BY <1>1, <1>2 DEF Init, IInv, TypeOK, Configs, OneStepPerBatch, OneEventPerCall, SavedIsCommitted,
     LoadedIsSummary, FailsOnlyForItsData

\* The parameters of a job, and so the number of its batches, never change.
LEMMA ConfigIsFixed == ASSUME [Next]_vars PROVE config' = config /\ Batches' = Batches
BY DEF Next, vars, job, LoadData, CreateTrainingClient, ForwardBackward, ShortBatchRefused,
   OptimStep, EndLoop, WriteWeights, Commit, RefreshWeights, Sample, ReloadArtifacts, Raises,
   Batches

\* Every step of the job keeps the inductive invariant: one case for each of its steps.
LEMMA StepIInv == ASSUME IInv, [Next]_vars PROVE IInv'
<1> USE JobAssumption
<1> USE DEF IInv, TypeOK, OneStepPerBatch, OneEventPerCall, SavedIsCommitted, LoadedIsSummary,
        FailsOnlyForItsData, trained, volume, Points, Configs, Versions
<1>0. Batches \in Nat /\ config' = config /\ Batches' = Batches
  BY BatchesType, ConfigIsFixed
<1>0a. LastIsShort' = LastIsShort BY <1>0 DEF LastIsShort
<1>1. CASE LoadData
  <2>1. config.datums \in Nat /\ config.batch_size \in Nat \ {0} BY SizesType
  <2>2. Batches = 0 => config.datums = 0 BY <2>1, EmptyHasNoBatch DEF Batches
  <2> QED BY <1>0, <1>1, <2>2 DEF LoadData, More
<1>2. CASE CreateTrainingClient BY <1>0, <1>2 DEF CreateTrainingClient, More
<1>3. CASE ForwardBackward BY <1>0, <1>3 DEF ForwardBackward, More
<1>4. CASE ShortBatchRefused 
  BY <1>0, <1>0a, <1>4 DEF ShortBatchRefused, Refused, IsShort
<1>5. CASE OptimStep
  <2>1. at' \in {"save", "next_batch"} BY <1>5 DEF OptimStep
  <2>2. loaded = NoArtifact /\ sampled = NoArtifact BY <1>5 DEF OptimStep
  <2>3. losses < config.max_steps /\ version' \in Versions
    BY <1>0, <1>5 DEF OptimStep
  <2> QED BY <1>0, <1>5, <2>1, <2>2, <2>3 DEF OptimStep
<1>6. CASE EndLoop BY <1>0, <1>6 DEF EndLoop, More
<1>7. CASE WriteWeights BY <1>0, <1>7 DEF WriteWeights
<1>8. CASE Commit
  <2>1. version # NotSaved BY DEF NotSaved
  <2> QED BY <1>0, <1>8, <2>1 DEF Commit, More
<1>9. CASE RefreshWeights
  <2>1. ArtifactOfSummary \in Artifacts /\ ArtifactOfSummary # NoArtifact
    BY <1>9 DEF RefreshWeights, ArtifactOfSummary, Artifacts, NoArtifact, NotSaved
  <2>2. sampled = NoArtifact BY <1>9 DEF RefreshWeights
  <2> QED BY <1>0, <1>9, <2>1, <2>2 DEF RefreshWeights, ArtifactOfSummary, More
<1>10. CASE Sample
  <2>1. loaded = ArtifactOfSummary /\ loaded # NoArtifact
    BY <1>10 DEF Sample, ArtifactOfSummary, NoArtifact, NotSaved
  <2>2. sampled = NoArtifact BY <1>10 DEF Sample
  <2> QED BY <1>0, <1>10, <2>1, <2>2 DEF Sample, ArtifactOfSummary, More
<1>11. CASE ReloadArtifacts BY <1>0, <1>11 DEF ReloadArtifacts, ArtifactOfSummary, More
<1>12. CASE Raises
  <2>1. at' = "raised" BY <1>12 DEF Raises
  <2>2. UNCHANGED <<taken, losses, version, saved, trainer_files, committed, rollout_files,
                    controller_files, loaded, sampled, events>>
    BY <1>12 DEF Raises
  <2>3. TypeOK' BY <1>0, <2>1, <2>2
  <2>4. OneStepPerBatch' BY <1>0, <2>1, <2>2
  <2>5. OneEventPerCall' BY <2>2
  <2>6. SavedIsCommitted' BY <2>1, <2>2
  <2>7. LoadedIsSummary'
    <3>1. ArtifactOfSummary' = ArtifactOfSummary BY <2>2 DEF ArtifactOfSummary
    <3> QED BY <2>1, <2>2, <3>1
  <2>8. FailsOnlyForItsData' BY <2>1
  <2> QED BY <2>3, <2>4, <2>5, <2>6, <2>7, <2>8
<1>13. CASE UNCHANGED vars BY <1>0, <1>0a, <1>13 DEF vars, job, More, ArtifactOfSummary
<1> QED BY <1>1, <1>2, <1>3, <1>4, <1>5, <1>6, <1>7, <1>8, <1>9, <1>10, <1>11, <1>12, <1>13
  DEF Next

LEMMA InductiveInvariant == Spec => []IInv
BY InitIInv, StepIInv, PTL DEF Spec

-----------------------------------------------------------------------------
\* The job's counters and views of the volume keep their types.
THEOREM TypeCorrect == Spec => []TypeOK
<1>1. IInv => TypeOK BY DEF IInv
<1> QED BY InductiveInvariant, <1>1, PTL

\* The report of run_toy_sft and run_qwen_sft adds up, for every size of data set,
\* batch size, number of steps and period of saves.
THEOREM ReportIsRight == Spec => []ReportAddsUp
<1>1. IInv => ReportAddsUp
  <2> SUFFICES ASSUME IInv, at = "done" PROVE ReportAddsUp
    BY DEF ReportAddsUp
  <2>1. Batches \in Nat BY BatchesType DEF IInv
  <2>2. /\ sampled # NoArtifact
        /\ saved \in controller_files
        /\ ~More
    BY JobAssumption
    DEF IInv, TypeOK, Configs, LoadedIsSummary, SavedIsCommitted, ArtifactOfSummary, NoArtifact, NotSaved,
        Versions
  <2> QED BY <2>1, <2>2, JobAssumption
    DEF IInv, TypeOK, Configs, OneStepPerBatch, OneEventPerCall, ReportAddsUp, Least, More
<1> QED BY InductiveInvariant, <1>1, PTL

\* Whatever the rollout backend checks itself, the job has it load committed weights.
THEOREM RolloutLoadsCommitted == Spec => []RefreshedFromCommitted
<1>1. IInv => RefreshedFromCommitted
  BY DEF IInv, LoadedIsSummary, SavedIsCommitted, ArtifactOfSummary, RefreshedFromCommitted
<1> QED BY InductiveInvariant, <1>1, PTL

\* A job fails only for its data, whatever the sizes and the period of saves: a payload
\* that was saved is always committed when the rollout reads it.
THEOREM OnlyDataFailsJobs == Spec => []FailsOnlyForItsData
<1>1. IInv => FailsOnlyForItsData BY DEF IInv
<1> QED BY InductiveInvariant, <1>1, PTL

-----------------------------------------------------------------------------
(* What is saved when                                                       *)

\* Saves in the loop are at multiples of the period; the save after it is of the last step.
SavedSteps ==
  /\ at \in {"next_batch", "optim_step"} /\ saved # NotSaved =>
       config.save_every # 0 /\ config.save_every <= saved
  /\ at \in {"save", "commit"} /\ More =>
       config.save_every # 0 /\ version # 0 /\ version % config.save_every = 0
  /\ saved # NotSaved =>
       /\ saved <= version
       /\ saved = version \/ (config.save_every # 0 /\ config.save_every <= saved)
  /\ /\ at \in {"next_batch", "optim_step", "refresh", "sample", "reload", "done"}
     /\ config.save_every # 0 /\ version # 0 /\ version % config.save_every = 0
     => saved = version

\* A multiple that is not zero is not smaller.
LEMMA MultipleIsNotLess ==
  ASSUME NEW v \in Nat \ {0}, NEW e \in Nat \ {0}, v % e = 0
  PROVE  e <= v
<1> SUFFICES ASSUME v < e PROVE FALSE
  OBVIOUS
<1>1. v % e = v OBVIOUS
<1> QED BY <1>1

LEMMA StepSavedSteps == ASSUME IInv, SavedSteps, [Next]_vars PROVE SavedSteps'
<1> USE DEF SavedSteps, trained, volume
<1>0. /\ config' = config /\ Batches' = Batches
      /\ version \in Nat /\ version # NotSaved /\ config.save_every \in Nat
      /\ saved \in Nat
  <2>1. config.save_every \in SaveEverys /\ SaveEverys \subseteq Nat
    BY JobAssumption DEF IInv, TypeOK, Configs
  <2>2. version \in Nat /\ version # NotSaved /\ saved \in Nat
    BY JobAssumption DEF IInv, TypeOK, Versions, NotSaved
  <2> QED BY <2>1, <2>2, ConfigIsFixed
<1> DEFINE e == config.save_every
<1>1. CASE LoadData BY <1>0, <1>1 DEF LoadData
<1>2. CASE CreateTrainingClient
  BY <1>0, <1>2 DEF CreateTrainingClient, IInv, OneStepPerBatch
<1>3. CASE ForwardBackward BY <1>0, <1>3 DEF ForwardBackward
<1>4. CASE ShortBatchRefused BY <1>0, <1>4 DEF ShortBatchRefused
<1>5. CASE OptimStep
  <2>1. /\ at = "optim_step" /\ version' = version + 1 /\ UNCHANGED saved
        /\ at' = (IF e # 0 /\ version' % e = 0 THEN "save" ELSE "next_batch")
    BY <1>5 DEF OptimStep
  <2>2. /\ NotSaved' = NotSaved /\ (saved # NotSaved => e # 0 /\ e <= saved /\ saved <= version)
    BY <2>1 DEF NotSaved
  <2>3. saved # NotSaved => saved <= version' BY <1>0, <2>1, <2>2
  <2>4. version' # 0 BY <1>0, <2>1
  <2> QED BY <1>0, <2>1, <2>2, <2>3, <2>4
<1>6. CASE EndLoop BY <1>0, <1>6 DEF EndLoop, More
<1>7. CASE WriteWeights BY <1>0, <1>7 DEF WriteWeights, More
<1>8. CASE Commit
  <2>1. /\ at = "commit" /\ saved' = version /\ version' = version
        /\ at' = (IF More THEN "next_batch" ELSE "refresh")
    BY <1>8 DEF Commit
  <2>2. More => e # 0 /\ e <= version
    BY <1>0, <2>1, MultipleIsNotLess
  <2> QED BY <1>0, <2>1, <2>2
<1>9. CASE RefreshWeights BY <1>0, <1>9 DEF RefreshWeights
<1>10. CASE Sample BY <1>0, <1>10 DEF Sample
<1>11. CASE ReloadArtifacts BY <1>0, <1>11 DEF ReloadArtifacts
<1>12. CASE Raises BY <1>0, <1>12 DEF Raises
<1>13. CASE UNCHANGED vars BY <1>0, <1>13 DEF vars, job, More
<1> QED BY <1>1, <1>2, <1>3, <1>4, <1>5, <1>6, <1>7, <1>8, <1>9, <1>10, <1>11, <1>12, <1>13
  DEF Next

\* Where the number of steps is one that run_sft saves (no periodic save came, or the last
\* step is a multiple of save_every), the sample of the report is of the weights its
\* checkpoint names: those of the last step.
THEOREM LabelsAreRight == Spec => []LabelsMatchSavedSteps
<1>1. Init => SavedSteps BY DEF Init, SavedSteps
<1>2. IInv /\ SavedSteps /\ [Next]_vars => SavedSteps' BY StepSavedSteps
<1>3. IInv /\ SavedSteps => LabelsMatchSavedSteps
  <2> SUFFICES ASSUME IInv, SavedSteps, LastStepIsSaved, at = "done"
               PROVE  sampled.label = version /\ sampled.weights = sampled.label
    BY DEF LabelsMatchSavedSteps, SamplesTheLabelledWeights
  <2>1. sampled = ArtifactOfSummary /\ saved # NotSaved
    BY DEF IInv, LoadedIsSummary, SavedIsCommitted
  <2>2. version \in Nat /\ saved \in Nat /\ config.save_every \in Nat
    <3>1. config.save_every \in SaveEverys /\ SaveEverys \subseteq Nat
      BY JobAssumption DEF IInv, TypeOK, Configs
    <3>2. version \in Nat /\ saved \in Nat
      BY JobAssumption DEF IInv, TypeOK, Versions, NotSaved
    <3> QED BY <3>1, <3>2
  <2>3. saved = version BY <2>1, <2>2 DEF SavedSteps, LastStepIsSaved
  <2> QED BY <2>1, <2>3 DEF ArtifactOfSummary
<1> QED BY InductiveInvariant, <1>1, <1>2, <1>3, PTL DEF Spec
=============================================================================
