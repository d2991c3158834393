--------------------------- MODULE MCProxyService ---------------------------
(* ProxyService with one client (a training script) that gives up and      *)
(* repeats its calls, one that saves and refreshes, and two over gRPC.      *)
EXTENDS ProxyService

Bounds(forward_backwards, optim_steps, saves, refreshes, samples) ==
  [op \in Ops |-> CASE op = "forward_backward" -> forward_backwards
                    [] op = "optim_step" -> optim_steps
                    [] op = "save_weights" -> saves
                    [] op = "refresh_weights" -> refreshes
                    [] op = "sample" -> samples]

Training ==
  [clients |-> {"c1"}, backend |-> "megatron", in_order |-> TRUE,
   max_calls |-> Bounds(2, 3, 0, 0, 0), max_requests |-> 5, max_in_flight |-> 2]
Refreshing ==
  [clients |-> {"c1"}, backend |-> "fake", in_order |-> TRUE,
   max_calls |-> Bounds(0, 1, 2, 2, 1), max_requests |-> 6, max_in_flight |-> 2]
Serving ==
  [clients |-> {"c1", "c2"}, backend |-> "fake", in_order |-> FALSE,
   max_calls |-> Bounds(1, 0, 1, 1, 1), max_requests |-> 3, max_in_flight |-> 3]
Retrying ==
  [Serving EXCEPT !.backend = "megatron", !.max_calls = Bounds(1, 1, 1, 0, 0)]

AllScenarios == {Training, Refreshing, Serving, Retrying}
=============================================================================
