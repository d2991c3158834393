---------------------------- MODULE MCGrpcService ----------------------------
(* Two calls over a pool of one thread: one of any operation, with requests  *)
(* that are valid or not and messages of other clients, beside a plain one.  *)
EXTENDS GrpcService, TLC

CONSTANTS q1, q2
TwoCalls == {q1, q2}

Ctx == [request_id |-> "r"]
Integer(n) == [type |-> "int", n |-> n]
Float(n) == [type |-> "float", n |-> n]
Python(op_, body_) == [op |-> op_, body |-> body_, raw |-> FALSE, authorized |-> TRUE]
Raw(op_, body_) == [op |-> op_, body |-> body_, raw |-> TRUE, authorized |-> TRUE]

Create(base_model_, mode, rank) ==
  [context |-> Ctx, base_model |-> base_model_, tuning_mode |-> mode, lora_rank |-> rank]

ADatum(inputs) ==
  [model_input |-> [token_ids |-> <<10, 11>>, text |-> ""], loss_fn_inputs |-> inputs]
Targets == [values |-> <<Integer(11), Integer(12)>>]
Weights == [values |-> <<Float(0), Float(1)>>]
Train(data_) ==
  [context |-> Ctx, run_id |-> "run", data |-> data_, loss_fn |-> "cross_entropy",
   loss_fn_config |-> [scale |-> 1]]

Optim(run_id_, rate) ==
  [context |-> Ctx, run_id |-> run_id_,
   optimizer |-> [learning_rate |-> rate, beta1 |-> 90, beta2 |-> 95, eps |-> 0,
                  weight_decay |-> 0]]
Save(kind_) == [context |-> Ctx, run_id |-> "run", kind |-> kind_]

Artifact(kind_, path_) ==
  [run_id |-> "run", checkpoint_version |-> 1, kind |-> kind_,
   manifest_path |-> "small", payload_path |-> path_]
Refresh(artifact_) == [context |-> Ctx, run_id |-> "run", artifact |-> artifact_]

Sampled(max_tokens_, top_p_) ==
  [context |-> Ctx, run_id |-> "run", prompt |-> [token_ids |-> <<10>>, text |-> "t"],
   sampling_params |-> [max_tokens |-> max_tokens_, temperature |-> 0, stop |-> <<"s">>,
                        top_p |-> top_p_],
   num_samples |-> 1]

Fetch(kind_, path_) ==
  [context |-> Ctx, artifact |-> Artifact(2, path_), file_kind |-> kind_]

AllRequests ==
  {Python("create_training_run", Create("m", 1, 8)),
   Python("create_training_run", Create("", 1, 8)),
   Raw("create_training_run", Create("m", 0, 0)),
   Python("forward_backward",
     Train(<<ADatum([target_tokens |-> Targets, weights |-> Weights])>>)),
   Python("forward_backward", Train(<<ADatum([target_tokens |-> Targets])>>)),
   Python("optim_step", Optim("run", 1)),
   Python("optim_step", Optim("unknown", 1)),
   Python("save_weights", Save(2)),
   Raw("save_weights", Save(0)),
   Python("refresh_weights", Refresh(None)),
   Python("refresh_weights", Refresh({Artifact(2, "small")})),
   Python("refresh_weights", Refresh({Artifact(3, "small")})),
   Python("sample", Sampled(4, 90)),
   Python("sample", Sampled(4, 0)),
   Raw("sample", Sampled(0, 0)),
   [Python("get_telemetry_summary", [context |-> Ctx, run_id |-> "run"])
     EXCEPT !.authorized = FALSE],
   Raw("download_artifact_file", Fetch(0, "small"))}
  \cup {Python("download_artifact_file", Fetch(2, path)) :
          path \in {"small", "large", "directory", "outside", "missing"}}

RequestsOfCalls ==
  (q1 :> AllRequests) @@
  (q2 :> {Python("get_telemetry_summary", [context |-> Ctx, run_id |-> "run"])})

NoUsage == [input_tokens |-> 2, output_tokens |-> 1, training_steps |-> 1, samples |-> 0]
Responses ==
  [op \in Ops |->
    CASE op = "create_training_run" ->
           {[request_id |-> "r",
             run |-> [run_id |-> "run", base_model |-> "m", tuning_mode |-> 1,
                      lora_rank |-> 8, checkpoint_version |-> 0]]}
      [] op = "forward_backward" ->
           {[request_id |-> "r", run_id |-> "run", gradient_version |-> 1, usage |-> NoUsage,
             output |-> [loss |-> 1, metrics |-> [loss |-> 1],
                         loss_fn_outputs |-> <<[logprobs |-> Weights]>>]]}
      [] op = "optim_step" ->
           {[request_id |-> "r", run_id |-> "run", optimizer_step |-> 1,
             checkpoint_version |-> 1, usage |-> NoUsage]}
      [] op \in {"save_weights", "refresh_weights"} ->
           {[request_id |-> "r", artifact |-> Artifact(2, "small")]}
      [] op = "sample" ->
           {[request_id |-> "r", run_id |-> "run", artifact |-> Artifact(2, "small"),
             usage |-> NoUsage,
             sequences |-> <<[tokens |-> <<12>>, logprobs |-> <<0>>, text |-> "t",
                              stop_reason |-> "length"]>>]}
      [] op = "get_telemetry_summary" ->
           {[request_id |-> "r",
             summary |-> [run_id |-> "run", total |-> NoUsage, event_count |-> 1,
                          by_source |-> <<[event_source |-> "trainer", usage |-> NoUsage,
                                           event_count |-> 1]>>]]}
      [] OTHER -> {}]

\* A class that is known and one that is not, with and without a quotation mark.
Failures == {Error("InvalidRequestError", FALSE), Error("BackendUnavailableError", FALSE),
             Error("BackendUnavailableError", TRUE), Error("other", FALSE)}
AllResults ==
  [op \in Ops |-> {Ok(r) : r \in Responses[op]} \cup
                  (IF op = "get_telemetry_summary" THEN {} ELSE Failures)]
=============================================================================
