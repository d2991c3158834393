---------------------------- MODULE RpcConversion ----------------------------
(***************************************************************************)
(* src/ganker/rpc/conversion.py: requests and responses between the        *)
(* dataclasses of contracts.py and protobuf messages.                       *)
(*                                                                         *)
(* Both are records with the same fields.  Most messages are converted the  *)
(* same way in both directions, field by field, so that one operator stands *)
(* for xxx_to_proto and xxx_from_proto; where the two differ there are two. *)
(* An enum's numbers are the same on both sides; every other number, the    *)
(* unspecified 0 of a field left out included, is refused.  A probability   *)
(* is in percent.  Items of a tensor are integers or floats in Python and   *)
(* doubles in a message.                                                    *)
(***************************************************************************)
EXTENDS Integers, Sequences

Unspecified == 0
TuningModes == 1 .. 2        \* LORA, FULL
ArtifactKinds == 1 .. 2      \* FULL, DELTA
ArtifactFileKinds == 1 .. 2  \* MANIFEST, PAYLOAD
None == {}                   \* an optional artifact is a set of at most one: None in
                             \* Python, an unset field in a message
One == 100

-----------------------------------------------------------------------------
(* What an enum of the request makes of it: InvalidRequestError.            *)

TuningModeRefused(v) == v \notin TuningModes
ArtifactKindRefused(v) == v \notin ArtifactKinds
ArtifactFileKindRefused(v) == v \notin ArtifactFileKinds

\* Converting the request raises, in either direction.
Unsupported(op, v) ==
  \/ op = "create_training_run" /\ TuningModeRefused(v.tuning_mode)
  \/ op = "save_weights" /\ ArtifactKindRefused(v.kind)
  \/ op = "refresh_weights" /\ \E a \in v.artifact : ArtifactKindRefused(a.kind)
  \/ op = "download_artifact_file" /\ (\/ ArtifactKindRefused(v.artifact.kind)
                                       \/ ArtifactFileKindRefused(v.file_kind))

-----------------------------------------------------------------------------
(* contracts.py: the fields of the dataclasses, which their messages have too. *)

IsMap(f) == f = [x \in DOMAIN f |-> f[x]]
IsList(s) == s \in Seq({s[i] : i \in DOMAIN s})

IsContext(v) == v = [request_id |-> v.request_id]
IsModelInput(v) == v = [token_ids |-> v.token_ids, text |-> v.text]

Items == [type : {"int", "float"}, n : Int]
FloatItems == {x \in Items : x.type = "float"}
IsTensors(v, items) == v \in [DOMAIN v -> [values : Seq(items)]]

IsDatum(v) ==
  /\ v = [model_input |-> v.model_input, loss_fn_inputs |-> v.loss_fn_inputs]
  /\ IsModelInput(v.model_input) /\ IsTensors(v.loss_fn_inputs, Items)

IsSamplingParams(v) ==
  v = [max_tokens |-> v.max_tokens, temperature |-> v.temperature,
       stop |-> v.stop, top_p |-> v.top_p]
IsSampledSequence(v) ==
  v = [tokens |-> v.tokens, logprobs |-> v.logprobs,
       stop_reason |-> v.stop_reason, text |-> v.text]

\* What the backends return is made of floats.
IsForwardBackwardOutput(v) ==
  /\ v = [loss |-> v.loss, metrics |-> v.metrics, loss_fn_outputs |-> v.loss_fn_outputs]
  /\ IsMap(v.loss_fn_outputs)
  /\ \A i \in DOMAIN v.loss_fn_outputs : IsTensors(v.loss_fn_outputs[i], FloatItems)

IsAdamParams(v) ==
  v = [learning_rate |-> v.learning_rate, beta1 |-> v.beta1, beta2 |-> v.beta2,
       eps |-> v.eps, weight_decay |-> v.weight_decay]
IsUsage(v) ==
  v = [input_tokens |-> v.input_tokens, output_tokens |-> v.output_tokens,
       training_steps |-> v.training_steps, samples |-> v.samples]
IsUsageBySource(v) ==
  /\ v = [event_source |-> v.event_source, usage |-> v.usage, event_count |-> v.event_count]
  /\ IsUsage(v.usage)
IsTelemetrySummary(v) ==
  /\ v = [run_id |-> v.run_id, total |-> v.total, event_count |-> v.event_count,
          by_source |-> v.by_source]
  /\ IsUsage(v.total) /\ IsMap(v.by_source)
  /\ \A i \in DOMAIN v.by_source : IsUsageBySource(v.by_source[i])
IsWeightArtifact(v) ==
  v = [run_id |-> v.run_id, checkpoint_version |-> v.checkpoint_version, kind |-> v.kind,
       manifest_path |-> v.manifest_path, payload_path |-> v.payload_path]
IsTrainingRun(v) ==
  v = [run_id |-> v.run_id, base_model |-> v.base_model, tuning_mode |-> v.tuning_mode,
       lora_rank |-> v.lora_rank, checkpoint_version |-> v.checkpoint_version]

IsRequest(op, v) ==
  /\ IsContext(v.context)
  /\ CASE op = "create_training_run" ->
            v = [context |-> v.context, base_model |-> v.base_model,
                 tuning_mode |-> v.tuning_mode, lora_rank |-> v.lora_rank]
       [] op = "forward_backward" ->
            /\ v = [context |-> v.context, run_id |-> v.run_id, data |-> v.data,
                    loss_fn |-> v.loss_fn, loss_fn_config |-> v.loss_fn_config]
            /\ IsList(v.data) /\ \A i \in DOMAIN v.data : IsDatum(v.data[i])
       [] op = "optim_step" ->
            /\ v = [context |-> v.context, run_id |-> v.run_id, optimizer |-> v.optimizer]
            /\ IsAdamParams(v.optimizer)
       [] op = "save_weights" ->
            v = [context |-> v.context, run_id |-> v.run_id, kind |-> v.kind]
       [] op = "refresh_weights" ->
            /\ v = [context |-> v.context, run_id |-> v.run_id, artifact |-> v.artifact]
            /\ \A a \in v.artifact : IsWeightArtifact(a)
       [] op = "sample" ->
            /\ v = [context |-> v.context, run_id |-> v.run_id, prompt |-> v.prompt,
                    sampling_params |-> v.sampling_params, num_samples |-> v.num_samples]
            /\ IsModelInput(v.prompt) /\ IsSamplingParams(v.sampling_params)
       [] op = "get_telemetry_summary" -> v = [context |-> v.context, run_id |-> v.run_id]
       [] op = "download_artifact_file" ->
            /\ v = [context |-> v.context, artifact |-> v.artifact, file_kind |-> v.file_kind]
            /\ IsWeightArtifact(v.artifact)

\* The responses of the actors.
IsResponse(op, v) ==
  CASE op = "create_training_run" ->
         v = [request_id |-> v.request_id, run |-> v.run] /\ IsTrainingRun(v.run)
    [] op = "forward_backward" ->
         /\ v = [request_id |-> v.request_id, run_id |-> v.run_id, output |-> v.output,
                 gradient_version |-> v.gradient_version, usage |-> v.usage]
         /\ IsForwardBackwardOutput(v.output) /\ IsUsage(v.usage)
    [] op = "optim_step" ->
         /\ v = [request_id |-> v.request_id, run_id |-> v.run_id,
                 optimizer_step |-> v.optimizer_step,
                 checkpoint_version |-> v.checkpoint_version, usage |-> v.usage]
         /\ IsUsage(v.usage)
    [] op \in {"save_weights", "refresh_weights"} ->
         /\ v = [request_id |-> v.request_id, artifact |-> v.artifact]
         /\ IsWeightArtifact(v.artifact)
    [] op = "sample" ->
         /\ v = [request_id |-> v.request_id, run_id |-> v.run_id, sequences |-> v.sequences,
                 artifact |-> v.artifact, usage |-> v.usage]
         /\ IsMap(v.sequences) /\ \A i \in DOMAIN v.sequences : IsSampledSequence(v.sequences[i])
         /\ IsWeightArtifact(v.artifact) /\ IsUsage(v.usage)
    [] op = "get_telemetry_summary" ->
         /\ v = [request_id |-> v.request_id, summary |-> v.summary]
         /\ IsTelemetrySummary(v.summary)
-----------------------------------------------------------------------------
(* Parts of messages *)

Context(v) == [request_id |-> v.request_id]
ModelInput(v) == [token_ids |-> v.token_ids, text |-> v.text]

AsFloat(x) == [x EXCEPT !.type = "float"]
TensorData(v) == [values |-> [i \in DOMAIN v.values |-> AsFloat(v.values[i])]]
Tensors(v) == [name \in DOMAIN v |-> TensorData(v[name])]

Datum(v) ==
  [model_input |-> ModelInput(v.model_input), loss_fn_inputs |-> Tensors(v.loss_fn_inputs)]

SamplingParamsToProto(v) ==
  [max_tokens |-> v.max_tokens, temperature |-> v.temperature,
   stop |-> v.stop, top_p |-> v.top_p]

\* Mutant: every parameter that was left out gets the default of the dataclass.
SamplingParamsDefaulted(m) ==
  [max_tokens |-> IF m.max_tokens = 0 THEN 16 ELSE m.max_tokens,
   temperature |-> IF m.temperature = 0 THEN One ELSE m.temperature,
   stop |-> m.stop, top_p |-> IF m.top_p = 0 THEN One ELSE m.top_p]

\* A top_p of 0 cannot be told from one that was left out.
SamplingParamsFromProto(m) ==
  [max_tokens |-> m.max_tokens, temperature |-> m.temperature,
   stop |-> m.stop, top_p |-> IF m.top_p = 0 THEN One ELSE m.top_p]

SampledSequence(v) ==
  [tokens |-> v.tokens, logprobs |-> v.logprobs,
   stop_reason |-> v.stop_reason, text |-> v.text]

ForwardBackwardOutput(v) ==
  [loss |-> v.loss, metrics |-> v.metrics,
   loss_fn_outputs |-> [i \in DOMAIN v.loss_fn_outputs |-> Tensors(v.loss_fn_outputs[i])]]

AdamParams(v) ==
  [learning_rate |-> v.learning_rate, beta1 |-> v.beta1, beta2 |-> v.beta2,
   eps |-> v.eps, weight_decay |-> v.weight_decay]

Usage(v) ==
  [input_tokens |-> v.input_tokens, output_tokens |-> v.output_tokens,
   training_steps |-> v.training_steps, samples |-> v.samples]

UsageBySource(v) ==
  [event_source |-> v.event_source, usage |-> Usage(v.usage), event_count |-> v.event_count]

TelemetrySummary(v) ==
  [run_id |-> v.run_id, total |-> Usage(v.total), event_count |-> v.event_count,
   by_source |-> [i \in DOMAIN v.by_source |-> UsageBySource(v.by_source[i])]]

WeightArtifact(v) ==
  [run_id |-> v.run_id, checkpoint_version |-> v.checkpoint_version, kind |-> v.kind,
   manifest_path |-> v.manifest_path, payload_path |-> v.payload_path]

TrainingRun(v) ==
  [run_id |-> v.run_id, base_model |-> v.base_model, tuning_mode |-> v.tuning_mode,
   lora_rank |-> v.lora_rank, checkpoint_version |-> v.checkpoint_version]

-----------------------------------------------------------------------------
(* Requests *)

CreateTrainingRunRequest(v) ==
  [context |-> Context(v.context), base_model |-> v.base_model,
   tuning_mode |-> v.tuning_mode, lora_rank |-> v.lora_rank]

ForwardBackwardRequest(v) ==
  [context |-> Context(v.context), run_id |-> v.run_id,
   data |-> [i \in DOMAIN v.data |-> Datum(v.data[i])],
   loss_fn |-> v.loss_fn, loss_fn_config |-> v.loss_fn_config]

OptimStepRequest(v) ==
  [context |-> Context(v.context), run_id |-> v.run_id, optimizer |-> AdamParams(v.optimizer)]

SaveWeightsRequest(v) ==
  [context |-> Context(v.context), run_id |-> v.run_id, kind |-> v.kind]

\* The artifact is set only where there is one, and read only where it is set.
RefreshWeightsRequest(v) ==
  [context |-> Context(v.context), run_id |-> v.run_id,
   artifact |-> {WeightArtifact(a) : a \in v.artifact}]

SampleRequest(v, sampling_params) ==
  [context |-> Context(v.context), run_id |-> v.run_id, prompt |-> ModelInput(v.prompt),
   sampling_params |-> sampling_params, num_samples |-> v.num_samples]

SampleRequestToProto(v) == SampleRequest(v, SamplingParamsToProto(v.sampling_params))
SampleRequestFromProto(m) == SampleRequest(m, SamplingParamsFromProto(m.sampling_params))

GetTelemetrySummaryRequest(v) == [context |-> Context(v.context), run_id |-> v.run_id]

DownloadArtifactFileRequest(v) ==
  [context |-> Context(v.context), artifact |-> WeightArtifact(v.artifact),
   file_kind |-> v.file_kind]

-----------------------------------------------------------------------------
(* Responses *)

CreateTrainingRunResponse(v) == [request_id |-> v.request_id, run |-> TrainingRun(v.run)]

ForwardBackwardResponse(v) ==
  [request_id |-> v.request_id, run_id |-> v.run_id,
   output |-> ForwardBackwardOutput(v.output),
   gradient_version |-> v.gradient_version, usage |-> Usage(v.usage)]

OptimStepResponse(v) ==
  [request_id |-> v.request_id, run_id |-> v.run_id, optimizer_step |-> v.optimizer_step,
   checkpoint_version |-> v.checkpoint_version, usage |-> Usage(v.usage)]

SaveWeightsResponse(v) ==
  [request_id |-> v.request_id, artifact |-> WeightArtifact(v.artifact)]

RefreshWeightsResponse(v) ==
  [request_id |-> v.request_id, artifact |-> WeightArtifact(v.artifact)]

SampleResponse(v) ==
  [request_id |-> v.request_id, run_id |-> v.run_id,
   sequences |-> [i \in DOMAIN v.sequences |-> SampledSequence(v.sequences[i])],
   artifact |-> WeightArtifact(v.artifact), usage |-> Usage(v.usage)]

GetTelemetrySummaryResponse(v) ==
  [request_id |-> v.request_id, summary |-> TelemetrySummary(v.summary)]

DownloadArtifactFileResponse(v) ==
  [request_id |-> v.request_id, artifact |-> WeightArtifact(v.artifact),
   file_kind |-> v.file_kind, path |-> v.path, contents |-> v.contents]

-----------------------------------------------------------------------------
(* What each method of GrpcProxyTransport and of the servicer converts with. *)

Request(op, v) ==
  CASE op = "create_training_run" -> CreateTrainingRunRequest(v)
    [] op = "forward_backward" -> ForwardBackwardRequest(v)
    [] op = "optim_step" -> OptimStepRequest(v)
    [] op = "save_weights" -> SaveWeightsRequest(v)
    [] op = "refresh_weights" -> RefreshWeightsRequest(v)
    [] op = "get_telemetry_summary" -> GetTelemetrySummaryRequest(v)
    [] op = "download_artifact_file" -> DownloadArtifactFileRequest(v)

RequestToProto(op, v) == IF op = "sample" THEN SampleRequestToProto(v) ELSE Request(op, v)
RequestFromProto(op, m) == IF op = "sample" THEN SampleRequestFromProto(m) ELSE Request(op, m)

Response(op, v) ==
  CASE op = "create_training_run" -> CreateTrainingRunResponse(v)
    [] op = "forward_backward" -> ForwardBackwardResponse(v)
    [] op = "optim_step" -> OptimStepResponse(v)
    [] op = "save_weights" -> SaveWeightsResponse(v)
    [] op = "refresh_weights" -> RefreshWeightsResponse(v)
    [] op = "sample" -> SampleResponse(v)
    [] op = "get_telemetry_summary" -> GetTelemetrySummaryResponse(v)
    [] op = "download_artifact_file" -> DownloadArtifactFileResponse(v)
=============================================================================
