----------------------------- MODULE GrpcService -----------------------------
(***************************************************************************)
(* src/ganker/rpc/server.py and client.py: a gRPC server in front of a      *)
(* local mesh (LocalMesh), and the calls of its clients, from the           *)
(* dataclass the caller made to the exception or response it gets.          *)
(*                                                                         *)
(* A call has three lives that end apart: the client's, which gives up at   *)
(* its deadline; the handler's, a thread of a bounded pool, which gives up  *)
(* at the timeout of its transport; and that of the message at the actors,  *)
(* which nobody can take back.  Where no server owns the mesh, a            *)
(* ServiceClient does.                                                      *)
(***************************************************************************)
EXTENDS RpcConversion, LocalMesh

CONSTANTS
  CallIds,
  Requests,        \* Requests[q], what a client may ask: operation, body, who converts it, token
  Results,         \* Results[op]: the responses and errors of the actors
  MaxWorkers       \* threads of the server's pool

VARIABLES
  server,          \* the gRPC server
  call             \* call[q]: its request and its three lives

vars == <<meshVars, server, call>>

Ops == {"create_training_run", "forward_backward", "optim_step", "save_weights",
        "refresh_weights", "sample", "get_telemetry_summary", "download_artifact_file"}
DomainErrors == {"InvalidRequestError", "NotFoundError", "BackendUnavailableError"}
\* GrpcTransportError, by its code
TransportErrors == {"INTERNAL", "DEADLINE_EXCEEDED", "UNAUTHENTICATED", "CANCELLED",
                    "RESOURCE_EXHAUSTED"}
Outcomes == {"none", "waiting", "ok"} \cup DomainErrors \cup TransportErrors

NoResult == [status |-> "none"]
Ok(response) == [status |-> "ok", response |-> response]
\* An exception of an actor: its class, and whether its text holds a quotation mark.
Error(kind, quoted) == [status |-> kind, quoted |-> quoted]

\* What is at a path: a file under the artifact root, small or large, a directory, a file
\* elsewhere, or nothing.
Places == {"small", "large", "directory", "outside", "missing"}

ASSUME GrpcAssumption == MaxWorkers \in Nat \ {0}

ASSUME RequestsAssumption ==
  \A q \in CallIds : \A r \in Requests[q] :
    /\ r = [op |-> r.op, body |-> r.body, raw |-> r.raw, authorized |-> r.authorized]
    /\ r.op \in Ops /\ IsRequest(r.op, r.body)
    /\ r.raw \in BOOLEAN        \* a message of another gRPC client, or of GrpcProxyTransport
    /\ r.authorized \in BOOLEAN \* no token is asked for, or the right one is sent
    /\ r.op = "download_artifact_file" =>
         {r.body.artifact.manifest_path, r.body.artifact.payload_path} \subseteq Places

ASSUME ResultsAssumption ==
  \A op \in Ops \ {"download_artifact_file"} : \A result \in Results[op] :
    \/ /\ result.status = "ok" /\ result = Ok(result.response)
       /\ IsResponse(op, result.response)
    \/ \E kind \in DomainErrors \cup {"other"}, quoted \in BOOLEAN :
         result = Error(kind, quoted)

Nothing == [nothing |-> TRUE]
NoCall == [request |-> Nothing, at |-> "idle", work |-> "none", received |-> Nothing,
           result |-> NoResult, outcome |-> "none", answer |-> Nothing]

GrpcTypeOK ==
  /\ server \in {"absent", "serving", "draining", "down", "bind_failed"}
  /\ \A q \in CallIds :
       /\ call[q].request \in Requests[q] \cup {Nothing}
       /\ call[q].at \in {"idle", "pool", "handling", "ended"}
       /\ call[q].work \in {"none", "queued", "done"}
       /\ call[q].outcome \in Outcomes

Init ==
  /\ MeshInit
  /\ server = "absent"
  /\ call = [q \in CallIds |-> NoCall]

Set(q, new) == call' = [call EXCEPT ![q] = new]
Op(q) == call[q].request.op
Body(q) == call[q].request.body
Waiting(q) == call[q].outcome = "waiting"
Active(q) == call[q].at \in {"pool", "handling"} /\ Waiting(q)

-----------------------------------------------------------------------------
(* The client *)

Message(r) == IF r.raw THEN r.body ELSE RequestToProto(r.op, r.body)

Made(r) == [NoCall EXCEPT !.request = r]

\* Converting the request raises, or no server answers, or the call waits for a thread.
\* A client knows the address once the server has had one.
Call(q, r) ==
  /\ call[q].at = "idle"
  /\ server \in {"serving", "draining", "down"}
  /\ \/ /\ ~r.raw /\ Unsupported(r.op, r.body)
        /\ Set(q, [Made(r) EXCEPT !.at = "ended", !.outcome = "InvalidRequestError"])
     \/ /\ r.raw \/ ~Unsupported(r.op, r.body)
        /\ IF server = "serving"
           THEN Set(q, [Made(r) EXCEPT !.at = "pool", !.outcome = "waiting"])
           ELSE Set(q, [Made(r) EXCEPT !.at = "ended", !.outcome = "BackendUnavailableError"])
  /\ UNCHANGED <<meshVars, server>>

\* The deadline of the call.  The handler is not told.
ClientGivesUp(q) ==
  /\ Waiting(q)
  /\ Set(q, [call[q] EXCEPT !.outcome = "DEADLINE_EXCEEDED"])
  /\ UNCHANGED <<meshVars, server>>

\* _map_rpc_error, on the status code of the call.
MapRpcError(code) ==
  CASE code = "INVALID_ARGUMENT" -> "InvalidRequestError"
    [] code = "NOT_FOUND" -> "NotFoundError"
    [] code = "UNAVAILABLE" -> "BackendUnavailableError"
    [] OTHER -> code

\* The call ends for the client, if it still waits.
Ended(c, code) ==
  IF c.outcome = "waiting" THEN [c EXCEPT !.at = "ended", !.outcome = MapRpcError(code)]
  ELSE [c EXCEPT !.at = "ended"]

\* A response that is larger than the client's channel takes is dropped there.
Answered(c, response) ==
  LET m == Response(c.request.op, response) IN
  IF c.outcome # "waiting" THEN [c EXCEPT !.at = "ended"]
  ELSE IF c.request.op = "download_artifact_file" /\ response.contents = "large"
  THEN Ended(c, "RESOURCE_EXHAUSTED")
  ELSE [c EXCEPT !.at = "ended", !.outcome = "ok", !.answer = Response(c.request.op, m)]

-----------------------------------------------------------------------------
(* The handler *)

Handlers == {q \in CallIds : call[q].at = "handling"}

\* grpc starts no handler for a call that has ended.
DropAbandoned(q) ==
  /\ call[q].at = "pool" /\ ~Waiting(q)
  /\ Set(q, [call[q] EXCEPT !.at = "ended"])
  /\ UNCHANGED <<meshVars, server>>

\* The path an artifact names.
PathOf(m) == IF m.file_kind = 1 THEN m.artifact.manifest_path ELSE m.artifact.payload_path

Download(c, m) ==
  CASE PathOf(m) = "missing" -> Ended(c, "NOT_FOUND")
    [] PathOf(m) = "outside" -> Ended(c, "INVALID_ARGUMENT")
    [] PathOf(m) = "directory" -> Ended(c, "INTERNAL")
    [] PathOf(m) \in {"small", "large"} ->
         Answered(c, [request_id |-> m.context.request_id, artifact |-> m.artifact,
                      file_kind |-> m.file_kind, path |-> PathOf(m),
                      contents |-> PathOf(m)])

\* A thread of the pool: authentication, conversion, then the proxy, except for files.
StartHandler(q) ==
  /\ call[q].at = "pool" /\ Waiting(q)
  /\ Cardinality(Handlers) < MaxWorkers
  /\ LET c == call[q]
         message == Message(c.request)
         m == RequestFromProto(Op(q), message)
     IN Set(q,
          CASE ~c.request.authorized -> Ended(c, "UNAUTHENTICATED")
            [] c.request.authorized /\ Unsupported(Op(q), message) ->
                 Ended(c, "INVALID_ARGUMENT")
            [] c.request.authorized /\ ~Unsupported(Op(q), message) ->
                 IF Op(q) = "download_artifact_file" THEN Download(c, m)
                 ELSE [c EXCEPT !.at = "handling", !.work = "queued", !.received = m])
  /\ UNCHANGED <<meshVars, server>>

\* _handle: Monarch wraps an actor's exception in one of its own; the class is searched in
\* its text, where repr() has put the message in double quotes if it holds a single one.
StatusCode(result) ==
  CASE result.quoted \/ result.status = "other" -> "INTERNAL"
    [] ~result.quoted /\ result.status = "InvalidRequestError" -> "INVALID_ARGUMENT"
    [] ~result.quoted /\ result.status = "NotFoundError" -> "NOT_FOUND"
    [] ~result.quoted /\ result.status = "BackendUnavailableError" -> "UNAVAILABLE"

HandlerReturns(q) ==
  /\ call[q].at = "handling"
  /\ call[q].work = "done"
  /\ LET c == call[q] IN
     Set(q, IF c.result.status = "ok" THEN Answered(c, c.result.response)
            ELSE Ended(c, StatusCode(c.result)))
  /\ UNCHANGED <<meshVars, server>>

\* The actors an operation needs.
ActorsOf(op) ==
  CASE op \in {"refresh_weights", "sample"} -> {"proxy", "rollout"}
    [] op = "get_telemetry_summary" -> {"proxy", "telemetry"}
    [] OTHER -> {"proxy", "training"}

\* Mutant: get() without a timeout.
HandlerTimesOutNever(q) ==
  /\ call[q].at = "handling"
  /\ call[q].work # "done" /\ ~(ActorsOf(Op(q)) \subseteq actors)
  /\ Set(q, Ended(call[q], "INTERNAL"))
  /\ UNCHANGED <<meshVars, server>>

\* Mutant: a timeout is answered like a request that was refused.
HandlerTimesOutRefused(q) ==
  /\ call[q].at = "handling"
  /\ Set(q, Ended(call[q], "INVALID_ARGUMENT"))
  /\ UNCHANGED <<meshVars, server>>

\* get(timeout) raises TimeoutError, or something else where the actor has gone.
HandlerTimesOut(q) ==
  /\ call[q].at = "handling"
  /\ \/ Set(q, Ended(call[q], "DEADLINE_EXCEEDED"))
     \/ /\ call[q].work # "done" /\ ~(ActorsOf(Op(q)) \subseteq actors)
        /\ Set(q, Ended(call[q], "INTERNAL"))
  /\ UNCHANGED <<meshVars, server>>

-----------------------------------------------------------------------------
(* The actors *)

Tensor(datum, name) == datum.loss_fn_inputs[name].values

\* datums_to_tensor_batch: the first complaint about a datum.
DatumRefused(datum, length) ==
  LET tokens == Len(datum.model_input.token_ids) IN
  IF tokens = 0 THEN {Error("InvalidRequestError", FALSE)}
  ELSE IF \E name \in {"target_tokens", "weights"} :
            \/ name \notin DOMAIN datum.loss_fn_inputs
            \/ Len(Tensor(datum, name)) # tokens
  THEN {Error("InvalidRequestError", TRUE)}
  ELSE IF tokens # length THEN {Error("InvalidRequestError", FALSE)}
  ELSE {}

BatchRefused(v) ==
  LET length == Len(v.data[1].model_input.token_ids)
      complaints == [i \in DOMAIN v.data |-> DatumRefused(v.data[i], length)]
      bad == {i \in DOMAIN v.data : complaints[i] # {}}
  IN
  IF v.loss_fn # "cross_entropy" \/ v.data = <<>>
  THEN {Error("InvalidRequestError", FALSE)}
  ELSE UNION {complaints[i] : i \in {j \in bad : \A k \in bad : j <= k}}

RunRefused(run_id) ==
  CASE run_id = "" -> {Error("InvalidRequestError", FALSE)}
    [] run_id = "unknown" -> {Error("NotFoundError", FALSE)}
    [] OTHER -> {}

SampleRefused(v) ==
  IF \/ v.run_id = "" \/ v.num_samples <= 0
     \/ v.sampling_params.max_tokens <= 0
     \/ v.sampling_params.top_p <= 0 \/ v.sampling_params.top_p > One
  THEN {Error("InvalidRequestError", FALSE)} ELSE {}

\* The errors an actor refuses a request with for what it says, if any.
Refusals(op, v) ==
  CASE op = "create_training_run" ->
         IF v.base_model = "" \/ (v.tuning_mode = 1 /\ v.lora_rank <= 0) \/ v.lora_rank < 0
         THEN {Error("InvalidRequestError", FALSE)} ELSE {}
    [] op = "forward_backward" ->
         IF RunRefused(v.run_id) # {} THEN RunRefused(v.run_id) ELSE BatchRefused(v)
    [] op = "optim_step" ->
         IF RunRefused(v.run_id) # {} THEN RunRefused(v.run_id)
         ELSE IF v.optimizer.learning_rate <= 0 THEN {Error("InvalidRequestError", FALSE)}
         ELSE {}
    [] op = "save_weights" -> RunRefused(v.run_id)
    [] op = "refresh_weights" ->
         IF \/ v.run_id = ""
            \/ \E a \in v.artifact : a.run_id \notin {"", v.run_id}
         THEN {Error("InvalidRequestError", FALSE)} ELSE {}
    [] op = "sample" -> SampleRefused(v)
    [] op = "get_telemetry_summary" ->
         IF v.run_id = "" THEN {Error("InvalidRequestError", FALSE)} ELSE {}

\* The actors take the message: the request is refused, or answered, or fails with any
\* error (a status, a backend that is not there, a broken runtime).
Execute(q) ==
  /\ call[q].work = "queued"
  /\ ActorsOf(Op(q)) \subseteq actors
  /\ LET refused == Refusals(Op(q), call[q].received) IN
     \E result \in (IF refused # {} THEN refused
                    ELSE Results[Op(q)]) :
       Set(q, [call[q] EXCEPT !.work = "done", !.result = result])
  /\ UNCHANGED <<meshVars, server>>

-----------------------------------------------------------------------------
(* The server, and the ServiceClient where there is none *)

\* start_grpc_proxy_server has its mesh; the listener is bound, or not: grpc returns port
\* 0, and the mesh is stopped, or raises, and it stays.
Bind ==
  /\ topology = "local" /\ mesh = "started" /\ server = "absent"
  /\ \/ server' = "serving" /\ UNCHANGED meshVars
     \/ server' = "bind_failed" /\ BeginMeshStop
     \/ server' = "bind_failed" /\ UNCHANGED meshVars
  /\ UNCHANGED call

\* ProxyGrpcServer.stop: no new calls; those under way have the grace period.
BeginStop ==
  /\ server = "serving"
  /\ server' = "draining"
  /\ UNCHANGED <<meshVars, call>>

\* The grace period is over: grpc ends the calls, and their threads go on.
GraceEnds ==
  /\ server = "draining"
  /\ \E q \in CallIds : Active(q)
  /\ \E code \in {"CANCELLED", "UNAVAILABLE"} :
       call' = [q \in CallIds |->
         IF Active(q) THEN [call[q] EXCEPT !.outcome = MapRpcError(code)] ELSE call[q]]
  /\ UNCHANGED <<meshVars, server>>

\* grpc_server.stop(grace).wait() returns: mesh.stop().
Drained ==
  /\ server = "draining"
  /\ \A q \in CallIds : ~Active(q)
  /\ server' = "down"
  /\ BeginMeshStop
  /\ UNCHANGED call

\* ServiceClient.close(), or stop() once more after it raised.
Close ==
  /\ \/ server = "absent" /\ topology = "distributed"
     \/ mesh = "stop_failed" /\ server = "down"
  /\ BeginMeshStop
  /\ UNCHANGED <<server, call>>

-----------------------------------------------------------------------------
MeshSteps == (MeshMoves \/ \E r \in Roles : WorkerExits(r)) /\ UNCHANGED <<server, call>>

Handle(q) == DropAbandoned(q) \/ StartHandler(q) \/ HandlerReturns(q) \/ HandlerTimesOut(q)

Next ==
  \/ MeshSteps
  \/ Bind \/ BeginStop \/ GraceEnds \/ Drained \/ Close
  \/ \E q \in CallIds :
       ClientGivesUp(q) \/ Handle(q) \/ Execute(q) \/ \E r \in Requests[q] : Call(q, r)

Spec == Init /\ [][Next]_vars

\* Threads of the pool and deadlines go on, stop() does once it was called; nothing is
\* assumed of the actors, which may never take a message.
FairSpec ==
  /\ Spec
  /\ MeshFairness
  /\ WF_vars(GraceEnds) /\ WF_vars(Drained)
  /\ \A q \in CallIds : WF_vars(ClientGivesUp(q)) /\ WF_vars(Handle(q))

-----------------------------------------------------------------------------
(* Properties *)

Floats(values) == [i \in DOMAIN values |-> [values[i] EXCEPT !.type = "float"]]

\* The request as its caller made it, with the items of its tensors as floats.
AsMade(op, v) ==
  IF op # "forward_backward" THEN v
  ELSE [v EXCEPT !.data = [i \in DOMAIN v.data |->
         [v.data[i] EXCEPT !.loss_fn_inputs = [name \in DOMAIN @ |->
            [values |-> Floats(@[name].values)]]]]]

\* plans/rfc-0007: the server converts "protobuf requests into existing dataclasses": what an
\* actor gets is what the caller made, and an actor that would refuse it locally refuses it
\* here, except where top_p is 0, which arrives as 1.  No number that is not an enum's
\* arrives from any client.
RequestsArriveAsMade ==
  \A q \in CallIds :
    LET got == call[q].received IN
    got # Nothing =>
      /\ ~Unsupported(Op(q), got)
      /\ Op(q) = "sample" /\ Body(q).sampling_params.top_p = 0 =>
           got = [Body(q) EXCEPT !.sampling_params.top_p = One]
      /\ ~(Op(q) = "sample" /\ Body(q).sampling_params.top_p = 0) =>
           /\ got = AsMade(Op(q), Body(q))
           /\ Refusals(Op(q), got) = Refusals(Op(q), Body(q))

\* plans/rfc-0007, "Error Semantics": a client that is told a request was invalid or named
\* something unknown knows that no actor carried it out, whatever deadlines, timeouts and stops ran
\* beside it; success is what the actor answered; an actor's error keeps its class,
\* unless its text holds a quotation mark.
OutcomesAreTrue ==
  \A q \in CallIds :
    LET c == call[q] IN
    /\ c.outcome = "ok" /\ Op(q) # "download_artifact_file" =>
         c.result.status = "ok" /\ c.answer = c.result.response
    /\ c.outcome = "ok" /\ Op(q) = "download_artifact_file" =>
         c.answer.contents = PathOf(Body(q))
    /\ c.outcome \in {"InvalidRequestError", "NotFoundError"} => c.result.status # "ok"
    /\ c.outcome = "INTERNAL" /\ c.work = "done" =>
         c.result.status = "other" \/ (c.result.status # "ok" /\ c.result.quoted)
    /\ c.outcome \in DomainErrors /\ c.work = "done" /\ server \in {"serving"} =>
         c.outcome = c.result.status

\* Every call ends for its client and gives its thread back, even where an actor never
\* answers; a stop() that was called returns or raises; and a worker that a failed start
\* leaves behind ends.
CallsAndStopsEnd ==
  /\ \A q \in CallIds :
       call[q].at # "idle" ~> call[q].at = "ended" /\ call[q].outcome # "waiting"
  /\ mesh = "stopping" \/ server = "draining" ~> mesh \in {"stopped", "stop_failed"}
  /\ \A r \in Roles : mesh = "start_failed" ~> worker[r] \in {"absent", "exited"}
=============================================================================
