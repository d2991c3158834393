------------------------- MODULE ProxyServiceProofs -------------------------
(***************************************************************************)
(* Proofs about ProxyService, for any clients, calls and bounds: the       *)
(* ledger of usage is exact, a sampler is never answered with older        *)
(* weights than it was made for, and a repeated optim_step steps the model *)
(* at most once for each call that was meant.                              *)
(***************************************************************************)
EXTENDS ProxyService, FiniteSetTheorems, TLAPS

Requests ==
  [client : Clients, op : Ops, artifact : MaybeArtifact, stage : Stages,
   done : BOOLEAN, ok : BOOLEAN]

-----------------------------------------------------------------------------
(* What the assignments to request do                                       *)

\* A request moves to another stage.
LEMMA StageSet ==
  ASSUME TypeOK, NEW q \in RequestIds, NEW s \in Stages,
         request' = [request EXCEPT ![q].stage = s], scenario' = scenario
  PROVE  /\ request' \in [RequestIds -> Requests]
         /\ \A p \in RequestIds : p # q => request'[p] = request[p]
         /\ request'[q] = [client |-> request[q].client, op |-> request[q].op,
                           artifact |-> request[q].artifact, stage |-> s,
                           done |-> request[q].done, ok |-> request[q].ok]
BY DEF TypeOK, Requests

\* An actor answers a request.
LEMMA AnswerSet ==
  ASSUME TypeOK, NEW q \in RequestIds, NEW d \in BOOLEAN, NEW a \in MaybeArtifact,
         Answer(q, d, a)
  PROVE  /\ request' \in [RequestIds -> Requests]
         /\ \A p \in RequestIds : p # q => request'[p] = request[p]
         /\ request'[q] = [client |-> request[q].client, op |-> request[q].op, artifact |-> a,
                           stage |-> "executed", done |-> d, ok |-> d]
<1> DEFINE f1 == [request EXCEPT ![q].stage = "executed"]
           f2 == [f1 EXCEPT ![q].done = d]
           f3 == [f2 EXCEPT ![q].ok = d]
           f4 == [f3 EXCEPT ![q].artifact = a]
<1>0. request \in [RequestIds -> Requests] BY DEF TypeOK, Requests
<1>1. /\ f1 \in [RequestIds -> Requests]
      /\ \A p \in RequestIds : p # q => f1[p] = request[p]
      /\ f1[q] = [client |-> request[q].client, op |-> request[q].op,
                  artifact |-> request[q].artifact, stage |-> "executed",
                  done |-> request[q].done, ok |-> request[q].ok]
  BY <1>0 DEF Requests, Stages
<1>2. request' = f4 BY DEF Answer
<1> HIDE DEF f1
<1>3. /\ f2 \in [RequestIds -> Requests]
      /\ \A p \in RequestIds : p # q => f2[p] = f1[p]
      /\ f2[q] = [client |-> f1[q].client, op |-> f1[q].op,
                  artifact |-> f1[q].artifact, stage |-> f1[q].stage, done |-> d, ok |-> f1[q].ok]
  BY <1>1 DEF Requests
<1> HIDE DEF f2
<1>4. /\ f3 \in [RequestIds -> Requests]
      /\ \A p \in RequestIds : p # q => f3[p] = f2[p]
      /\ f3[q] = [client |-> f2[q].client, op |-> f2[q].op,
                  artifact |-> f2[q].artifact, stage |-> f2[q].stage, done |-> f2[q].done, ok |-> d]
  BY <1>3 DEF Requests
<1> HIDE DEF f3
<1>5. /\ f4 \in [RequestIds -> Requests]
      /\ \A p \in RequestIds : p # q => f4[p] = f3[p]
      /\ f4[q] = [client |-> f3[q].client, op |-> f3[q].op,
                  artifact |-> a, stage |-> f3[q].stage, done |-> f3[q].done, ok |-> f3[q].ok]
  BY <1>4 DEF Requests
<1> HIDE DEF f4
<1> QED BY <1>1, <1>2, <1>3, <1>4, <1>5

\* Taking the oldest message of a queue.
LEMMA TailOfQueue ==
  ASSUME NEW s \in Seq(RequestIds), s # <<>>
  PROVE  /\ Head(s) = s[1] /\ 1 \in DOMAIN s /\ Head(s) \in RequestIds
         /\ Tail(s) \in Seq(RequestIds)
         /\ \A i \in DOMAIN Tail(s) : i \in Nat /\ i >= 1 /\ i + 1 \in DOMAIN s /\ Tail(s)[i] = s[i + 1]
OBVIOUS

\* Adding a message to a queue.
LEMMA EndOfQueue ==
  ASSUME NEW s \in Seq(RequestIds), NEW q \in RequestIds
  PROVE  /\ Append(s, q) \in Seq(RequestIds)
         /\ DOMAIN Append(s, q) = DOMAIN s \cup {Len(s) + 1}
         /\ DOMAIN s = 1 .. Len(s) /\ Len(s) \in Nat
         /\ \A i \in DOMAIN s : Append(s, q)[i] = s[i]
         /\ Append(s, q)[Len(s) + 1] = q
OBVIOUS

-----------------------------------------------------------------------------
(* The inductive invariant                                                  *)

\* A queue holds requests of its actor, once each, that nobody has answered.
WellQueued(queue, ops) ==
  /\ \A i \in DOMAIN queue :
       request[queue[i]].stage = "queued" /\ request[queue[i]].op \in ops
  /\ \A i, j \in DOMAIN queue : queue[i] = queue[j] => i = j

QueuesHoldWork ==
  /\ WellQueued(trainer_queue, TrainerOps)
  /\ WellQueued(rollout_queue, RolloutOps)
  /\ \A q \in RequestIds : q >= next_request => request[q].stage = "unused"

\* An event is about work that was done and recorded once.
EventsAreWork ==
  /\ \A i, j \in DOMAIN events : events[i] = events[j] => i = j
  /\ \A i \in DOMAIN events :
       /\ request[events[i]].stage \in {"recorded", "replied"}
       /\ request[events[i]].done
       /\ request[events[i]].op \in Metered
  /\ \A q \in RequestIds :
       /\ /\ request[q].stage \in {"recorded", "replied"}
          /\ request[q].ok /\ request[q].op \in Metered
          => \E i \in DOMAIN events : events[i] = q
       /\ request[q].stage \in {"executed", "recorded", "replied"} /\ request[q].ok =>
            request[q].done

\* An artifact that anybody names was published, at a step the trainer has taken.
Named(v) == v # NoArtifact => [run |-> Run, step |-> v] \in published

NamedIsPublished ==
  /\ \A a \in published : a.step <= steps[Run]
  /\ Named(loaded)
  /\ \A q \in RequestIds : Named(request[q].artifact)
  /\ \A c \in Clients : Named(saved[c]) /\ Named(sampler[c])

\* With one client in order, its requests get to the rollout as it made them, and
\* none is behind a refresh the client still waits for.
RolloutInOrder ==
  HasOneClientInOrder =>
    /\ \A i, j \in DOMAIN rollout_queue : i < j => rollout_queue[i] < rollout_queue[j]
    /\ \A i \in DOMAIN rollout_queue, p \in RequestIds :
         request[p].stage = "sent" => rollout_queue[i] < p
    /\ \A c \in Clients : waiting[c] \in {0, next_request - 1}
    /\ \A c \in Clients, q \in RequestIds :
         waiting[c] = q /\ request[q].op = "refresh_weights" /\ request[q].done =>
           /\ rollout_queue = <<>>
           /\ \A p \in RequestIds : request[p].stage # "sent"

NotOlder(v, c) == v = NoArtifact \/ sampler[c] <= v

\* No refresh under way would take the rollout behind the sampler.
SamplerIsOldest ==
  HasOneClientInOrder =>
    \A c \in Clients :
      /\ sampler[c] <= loaded
      /\ NotOlder(saved[c], c)
      /\ \A i \in DOMAIN rollout_queue : NotOlder(request[rollout_queue[i]].artifact, c)
      /\ \A p \in RequestIds : request[p].stage = "sent" => NotOlder(request[p].artifact, c)
      /\ \A q \in RequestIds : waiting[c] = q =>
           /\ request[q].op = "sample" /\ request[q].done => sampler[c] <= request[q].artifact
           /\ request[q].op = "save_weights" /\ request[q].done =>
                sampler[c] <= request[q].artifact
           /\ request[q].op = "refresh_weights" /\ request[q].stage \in {"sent", "queued"} =>
                request[q].artifact = saved[c] /\ ~request[q].done
           /\ request[q].op = "refresh_weights" /\ request[q].done =>
                /\ loaded = request[q].artifact
                /\ saved[c] \in {NoArtifact, request[q].artifact}

IInv ==
  /\ TypeOK
  /\ QueuesHoldWork
  /\ EventsAreWork
  /\ NamedIsPublished
  /\ RolloutInOrder
  /\ SamplerIsOldest

LEMMA InitIInv == Init => IInv
<1> SUFFICES ASSUME Init PROVE IInv
  OBVIOUS
<1>1. scenario \in Scenarios /\ scenario.clients # {} BY ScenariosAssumption DEF Init
<1>2. TypeOK
  BY <1>1, ScenariosAssumption
  DEF Init, TypeOK, RequestIds, Clients, Ops, TrainerOps, RolloutOps, MaybeArtifact, NoArtifact, Stages
<1>3. \A q \in RequestIds : request[q].stage = "unused" /\ request[q].artifact = NoArtifact
  BY DEF Init
<1>4. QueuesHoldWork BY <1>3 DEF Init, QueuesHoldWork, WellQueued
<1>5. EventsAreWork BY <1>3 DEF Init, EventsAreWork
<1>6. NamedIsPublished BY <1>3 DEF Init, NamedIsPublished, Named
<1>7. \A c \in Clients : waiting[c] = 0 /\ saved[c] = NoArtifact /\ sampler[c] = NoArtifact
  BY DEF Init
<1>8. \A q \in RequestIds : q # 0 BY ScenariosAssumption DEF RequestIds
<1>9. RolloutInOrder BY <1>3, <1>7, <1>8 DEF Init, RolloutInOrder
<1>10. SamplerIsOldest
  BY <1>3, <1>7, <1>8 DEF Init, SamplerIsOldest, NotOlder, NoArtifact
<1> QED BY <1>2, <1>4, <1>5, <1>6, <1>9, <1>10 DEF IInv

-----------------------------------------------------------------------------
(* What the steps do                                                        *)

LEMMA ScenarioIsFixed ==
  ASSUME [Next]_vars
  PROVE  scenario' = scenario /\ Clients' = Clients /\ HasOneClientInOrder' = HasOneClientInOrder
<1>1. scenario' = scenario
  BY DEF Next, vars, requests, Call, TimeOut, ActorsMove, Forward, Execute, ForwardBackward, OptimStep,
     SaveWeights, Refuse, TrainerFails, TrainerTakes, RefreshWeights, Sample, RolloutFails, RolloutTakes,
     Telemetry, Record, RecordFails, ReplyInTime, ReplyTooLate, Reply
<1> QED BY <1>1 DEF Clients, HasOneClientInOrder, InOrder

\* The trainer answers its oldest message: what the model and the artifacts become, where
\* the answer names artifact a.
TrainerChanges(a) ==
  /\ phase' \in [{Run} -> {"ready", "gradients_pending", "failed"}]
  /\ steps' \in [{Run} -> Nat] /\ steps[Run] <= steps'[Run]
  /\ published \subseteq published'
  /\ \A x \in published' \ published : x = [run |-> Run, step |-> steps[Run]]
  /\ a # NoArtifact => a = steps[Run] /\ [run |-> Run, step |-> a] \in published'

\* With the status machine, an operation that was done needs and leaves certain phases.
StatusChanges(op, d) ==
  Backend = "megatron" =>
    /\ d /\ op = "optim_step" =>
         /\ phase[Run] = "gradients_pending" /\ phase'[Run] # "gradients_pending"
         /\ steps'[Run] = steps[Run] + 1
    /\ ~d \/ op # "optim_step" => steps'[Run] = steps[Run]
    /\ ~d \/ op # "forward_backward" =>
         (phase'[Run] = "gradients_pending" => phase[Run] = "gradients_pending")

TrainerMoves(q, op, d, a) ==
  /\ TrainerTakes(q, op)
  /\ Answer(q, d, a)
  /\ TrainerChanges(a)
  /\ StatusChanges(op, d)
  /\ d /\ op = "save_weights" => a # NoArtifact

LEMMA TrainerStep ==
  ASSUME TypeOK, NEW q \in RequestIds,
         \/ ForwardBackward(q) \/ OptimStep(q) \/ SaveWeights(q)
         \/ \E op \in TrainerOps : Refuse(q, op) \/ TrainerFails(q, op)
  PROVE  \E op \in TrainerOps, d \in BOOLEAN, a \in MaybeArtifact : TrainerMoves(q, op, d, a)
<1>0. NoArtifact \in MaybeArtifact BY DEF MaybeArtifact
<1>T. /\ phase \in [{Run} -> {"ready", "gradients_pending", "failed"}]
      /\ steps \in [{Run} -> Nat] /\ steps[Run] \in Nat
  BY DEF TypeOK
<1>1. CASE ForwardBackward(q)
  <2>1. TrainerChanges(NoArtifact)
    BY <1>1, <1>T DEF ForwardBackward, Trainer!ComputeGradient, TrainerChanges
  <2>s. StatusChanges("forward_backward", TRUE)
    BY <1>1, <1>T DEF ForwardBackward, Trainer!ComputeGradient, StatusChanges
  <2>2. TrainerMoves(q, "forward_backward", TRUE, NoArtifact)
    BY <1>1, <2>1, <2>s, Zenon DEF ForwardBackward, TrainerMoves
  <2> QED BY <2>2, <1>0 DEF TrainerOps
<1>2. CASE OptimStep(q)
  <2>1. TrainerChanges(NoArtifact)
    BY <1>2, <1>T DEF OptimStep, Trainer!ApplyGradient, TrainerChanges
  <2>s. StatusChanges("optim_step", TRUE)
    BY <1>2, <1>T DEF OptimStep, Trainer!ApplyGradient, StatusChanges
  <2>2. TrainerMoves(q, "optim_step", TRUE, NoArtifact)
    BY <1>2, <2>1, <2>s, Zenon DEF OptimStep, TrainerMoves
  <2> QED BY <2>2, <1>0 DEF TrainerOps
<1>3. CASE SaveWeights(q)
  <2>1. steps[Run] \in MaybeArtifact /\ steps[Run] # NoArtifact
    BY <1>T DEF MaybeArtifact, NoArtifact
  <2>2. TrainerChanges(steps[Run])
    BY <1>3, <1>T DEF SaveWeights, Trainer!Publish, TrainerChanges
  <2>s. StatusChanges("save_weights", TRUE)
    BY <1>3, <1>T DEF SaveWeights, Trainer!Publish, StatusChanges
  <2>3. TrainerMoves(q, "save_weights", TRUE, steps[Run])
    BY <1>3, <2>1, <2>2, <2>s, Zenon DEF SaveWeights, TrainerMoves
  <2> QED BY <2>1, <2>3 DEF TrainerOps
<1>4. CASE \E op \in TrainerOps : Refuse(q, op) \/ TrainerFails(q, op)
  <2>1. PICK op \in TrainerOps : Refuse(q, op) \/ TrainerFails(q, op) BY <1>4
  <2>2. TrainerChanges(NoArtifact)
    <3>1. UNCHANGED <<steps, published>>
      BY <2>1, Zenon DEF Refuse, TrainerFails, trainer, Trainer!Fail
    <3>2. phase' = phase \/ phase' = [phase EXCEPT ![Run] = "failed"]
      BY <2>1, Zenon DEF Refuse, TrainerFails, trainer, Trainer!Fail
    <3> QED BY <3>1, <3>2, <1>T DEF TrainerChanges
  <2>s. StatusChanges(op, FALSE)
    <3>1. UNCHANGED <<steps, published>>
      BY <2>1, Zenon DEF Refuse, TrainerFails, trainer, Trainer!Fail
    <3>2. phase' = phase \/ phase' = [phase EXCEPT ![Run] = "failed"]
      BY <2>1, Zenon DEF Refuse, TrainerFails, trainer, Trainer!Fail
    <3> QED BY <3>1, <3>2, <1>T DEF StatusChanges
  <2>3. TrainerMoves(q, op, FALSE, NoArtifact)
    BY <2>1, <2>2, <2>s, Zenon DEF Refuse, TrainerFails, TrainerMoves
  <2> QED BY <2>3, <1>0
<1> QED BY <1>1, <1>2, <1>3, <1>4

\* The rollout answers its oldest message: what it loads and answers with.
RolloutMoves(q, op, d, a) ==
  /\ RolloutTakes(q, op)
  /\ Answer(q, d, a)
  /\ \/ ~d /\ a = NoArtifact /\ loaded' = loaded
     \/ /\ d /\ a \in Nat /\ loaded' = a
        /\ \/ op = "refresh_weights" /\ a = request[q].artifact
           \/ op = "refresh_weights" /\ request[q].artifact = NoArtifact /\ IsLatest(a)
           \/ op = "sample" /\ a = loaded
           \/ op = "sample" /\ loaded = NoArtifact /\ IsLatest(a)

LEMMA RolloutStep ==
  ASSUME TypeOK, NEW q \in RequestIds,
         \/ RefreshWeights(q) \/ Sample(q) \/ \E op \in RolloutOps : RolloutFails(q, op)
  PROVE  \E op \in RolloutOps, d \in BOOLEAN, a \in MaybeArtifact : RolloutMoves(q, op, d, a)
<1>0. NoArtifact \in MaybeArtifact BY DEF MaybeArtifact
<1>00. Versions \subseteq Nat /\ Versions \subseteq MaybeArtifact BY DEF Versions, MaybeArtifact
<1>1. CASE RefreshWeights(q)
  <2>1. PICK v \in Versions : RolloutMoves(q, "refresh_weights", TRUE, v)
    BY <1>1, <1>00 DEF RefreshWeights, RolloutMoves
  <2> QED BY <2>1, <1>00 DEF RolloutOps
<1>2. CASE Sample(q)
  <2>1. PICK v \in Versions : RolloutMoves(q, "sample", TRUE, v)
    BY <1>2, <1>00 DEF Sample, RolloutMoves
  <2> QED BY <2>1, <1>00 DEF RolloutOps
<1>3. CASE \E op \in RolloutOps : RolloutFails(q, op)
  <2>1. PICK op \in RolloutOps : RolloutFails(q, op) BY <1>3
  <2>2. RolloutMoves(q, op, FALSE, NoArtifact) BY <2>1 DEF RolloutFails, RolloutMoves
  <2> QED BY <2>2, <1>0
<1> QED BY <1>1, <1>2, <1>3

-----------------------------------------------------------------------------
(* Every step keeps the invariant                                           *)

ScenarioStays ==
  scenario' = scenario /\ Clients' = Clients /\ HasOneClientInOrder' = HasOneClientInOrder

Others(q) == \A p \in RequestIds : p # q => request'[p] = request[p]

LEMMA CallStep ==
  ASSUME IInv, ScenarioStays, NEW c \in Clients, NEW op \in Ops, Call(c, op)
  PROVE  IInv'
<1> DEFINE n == next_request
           r == request'[n]
<1> USE DEF IInv
<1>1. n \in RequestIds /\ n \in Nat /\ n # 0
  <2>1. scenario.max_requests \in 0 .. MaxRequests BY ScenariosAssumption DEF TypeOK
  <2> QED BY <2>1, ScenariosAssumption DEF Call, TypeOK, RequestIds
<1>2. saved[c] \in MaybeArtifact /\ NoArtifact \in MaybeArtifact
  BY DEF TypeOK, MaybeArtifact
<1>3. /\ request' \in [RequestIds -> Requests]
      /\ Others(n)
      /\ r.client = c /\ r.op = op /\ r.stage = "sent" /\ r.done = FALSE /\ r.ok = TRUE
      /\ r.artifact = IF op = "refresh_weights" THEN saved[c] ELSE NoArtifact
  <2> DEFINE new == [client |-> c, op |-> op, stage |-> "sent", done |-> FALSE, ok |-> TRUE,
        artifact |-> IF op = "refresh_weights" THEN saved[c] ELSE NoArtifact]
  <2>1. new \in Requests BY <1>2 DEF Requests, Stages
  <2>2. request' = [request EXCEPT ![n] = new] /\ request \in [RequestIds -> Requests]
    BY DEF Call, TypeOK, Requests
  <2>3. new.client = c /\ new.op = op /\ new.stage = "sent" /\ new.done = FALSE /\ new.ok = TRUE
        /\ new.artifact = IF op = "refresh_weights" THEN saved[c] ELSE NoArtifact
    OBVIOUS
  <2> HIDE DEF new
  <2> QED BY <1>1, <2>1, <2>2, <2>3 DEF Others
<1> HIDE DEF r
<1>4. /\ next_request' = n + 1
      /\ waiting[c] = 0 /\ waiting' = [waiting EXCEPT ![c] = n]
      /\ UNCHANGED <<trainer_queue, rollout_queue, phase, steps, published, loaded, events,
                     saved, sampler>>
  BY DEF Call, queues, trainer
<1>5. TypeOK'
  <2>1. n + 1 \in 1 .. MaxRequests + 1 BY <1>1, ScenariosAssumption DEF RequestIds
  <2>2. waiting' \in [Clients -> RequestIds \cup {0}] BY <1>1, <1>4 DEF TypeOK
  <2>3. timed_out' \in [Clients -> Ops \cup {"none"}] BY DEF Call, TypeOK
  <2>4. optim_calls' \in Nat BY DEF Call, TypeOK
  <2> QED BY <1>3, <1>4, <2>1, <2>2, <2>3, <2>4 DEF TypeOK, Requests, ScenarioStays
<1>6. request[n].stage = "unused" BY <1>1 DEF QueuesHoldWork, TypeOK
<1>7. \A s \in Seq(RequestIds) : \A i \in DOMAIN s : s[i] \in RequestIds
  OBVIOUS
<1>8. QueuesHoldWork'
  BY <1>1, <1>3, <1>4, <1>6, <1>7 DEF QueuesHoldWork, WellQueued, Others, TypeOK, RequestIds
<1>9. EventsAreWork'
  BY <1>1, <1>3, <1>4, <1>6, <1>7 DEF EventsAreWork, Others, TypeOK, r
<1>10. NamedIsPublished'
  <2>1. \A q \in RequestIds : Named(request'[q].artifact)
    <3>1. Named(r.artifact) BY <1>3 DEF NamedIsPublished, Named
    <3> QED BY <1>3, <3>1 DEF NamedIsPublished, Others, r
  <2> QED BY <1>4, <2>1 DEF NamedIsPublished, Named, ScenarioStays
<1>11. RolloutInOrder'
  <2>1. \A i \in DOMAIN rollout_queue : rollout_queue[i] < n /\ rollout_queue[i] # n
    BY <1>1, <1>6, <1>7 DEF QueuesHoldWork, WellQueued, TypeOK, RequestIds
  <2>2. SUFFICES ASSUME HasOneClientInOrder PROVE RolloutInOrder'
    BY DEF RolloutInOrder, ScenarioStays
  <2>3. \A d \in Clients : waiting'[d] = n
    BY <1>4, <2>2 DEF HasOneClientInOrder, TypeOK
  <2>4. \A i \in DOMAIN rollout_queue, p \in RequestIds :
          request'[p].stage = "sent" => rollout_queue[i] < p
    BY <1>3, <2>1, <2>2 DEF RolloutInOrder, Others
  <2>5. n = next_request' - 1 BY <1>1, <1>4
  <2>6. request'[n].done = FALSE BY <1>3 DEF r
  <2> QED
    BY <1>4, <2>2, <2>3, <2>4, <2>5, <2>6 DEF RolloutInOrder, ScenarioStays
<1>12. SamplerIsOldest'
  <2>1. SUFFICES ASSUME HasOneClientInOrder PROVE SamplerIsOldest'
    BY DEF SamplerIsOldest, ScenarioStays
  <2>2. \A d \in Clients : d = c BY <2>1 DEF HasOneClientInOrder
  <2>3. waiting'[c] = n BY <1>4 DEF TypeOK
  <2>4. \A i \in DOMAIN rollout_queue :
          /\ rollout_queue[i] \in RequestIds
          /\ request'[rollout_queue[i]] = request[rollout_queue[i]]
    BY <1>3, <1>6, <1>7 DEF QueuesHoldWork, WellQueued, TypeOK, Others
  <2>5. NotOlder(r.artifact, c) BY <1>3, <2>1 DEF SamplerIsOldest, NotOlder
  <2>6. \A p \in RequestIds : request'[p].stage = "sent" => NotOlder(request'[p].artifact, c)
    BY <1>3, <2>1, <2>5 DEF SamplerIsOldest, Others, r
  <2>7. request'[n].done = FALSE
        /\ (request'[n].op = "refresh_weights" => request'[n].artifact = saved[c])
    BY <1>3 DEF r
  <2> QED
    BY <1>4, <2>1, <2>2, <2>3, <2>4, <2>6, <2>7 DEF SamplerIsOldest, NotOlder, ScenarioStays
<1> QED BY <1>5, <1>8, <1>9, <1>10, <1>11, <1>12

LEMMA TimeOutStep ==
  ASSUME IInv, ScenarioStays, NEW c \in Clients, TimeOut(c)
  PROVE  IInv'
<1> USE DEF IInv
<1>1. /\ waiting[c] # 0 /\ waiting' = [waiting EXCEPT ![c] = 0]
      /\ UNCHANGED <<next_request, request, trainer_queue, rollout_queue, phase, steps, published,
                     loaded, events, saved, sampler, optim_calls>>
  BY DEF TimeOut, requests, queues, trainer
<1>2. TypeOK'
  <2>1. waiting' \in [Clients -> RequestIds \cup {0}] BY <1>1 DEF TypeOK
  <2>2. request[waiting[c]].op \in Ops BY <1>1 DEF TypeOK
  <2>3. timed_out' \in [Clients -> Ops \cup {"none"}] BY <2>2 DEF TimeOut, TypeOK
  <2> QED BY <1>1, <2>1, <2>3 DEF TypeOK, ScenarioStays
<1>3. \A d \in Clients : waiting'[d] \in {0, waiting[d]} BY <1>1 DEF TypeOK
<1>4. \A q \in RequestIds : q # 0 BY ScenariosAssumption DEF RequestIds
<1>5. QueuesHoldWork' BY <1>1 DEF QueuesHoldWork, WellQueued
<1>6. EventsAreWork' BY <1>1 DEF EventsAreWork
<1>7. NamedIsPublished' BY <1>1 DEF NamedIsPublished, Named, ScenarioStays
<1>8. RolloutInOrder' BY <1>1, <1>3, <1>4 DEF RolloutInOrder, ScenarioStays
<1>9. SamplerIsOldest' BY <1>1, <1>3, <1>4 DEF SamplerIsOldest, NotOlder, ScenarioStays
<1> QED BY <1>2, <1>5, <1>6, <1>7, <1>8, <1>9

LEMMA ForwardStep ==
  ASSUME IInv, ScenarioStays, NEW q \in RequestIds, Forward(q)
  PROVE  IInv'
<1> USE DEF IInv
<1>1. /\ request' \in [RequestIds -> Requests]
      /\ Others(q)
      /\ request'[q] = [client |-> request[q].client, op |-> request[q].op,
                        artifact |-> request[q].artifact, stage |-> "queued",
                        done |-> request[q].done, ok |-> request[q].ok]
  BY StageSet DEF Forward, ScenarioStays, Others, Stages
<1>2. /\ request[q].stage = "sent"
      /\ InOrder => \A p \in RequestIds : request[p].stage = "sent" => q <= p
      /\ UNCHANGED <<next_request, phase, steps, published, loaded, events, waiting, saved, sampler,
                     timed_out, optim_calls>>
  BY DEF Forward, trainer, clients
<1>3. \/ /\ request[q].op \in TrainerOps
         /\ trainer_queue' = Append(trainer_queue, q) /\ rollout_queue' = rollout_queue
      \/ /\ request[q].op \in RolloutOps
         /\ rollout_queue' = Append(rollout_queue, q) /\ trainer_queue' = trainer_queue
  BY DEF Forward, TypeOK, Ops
<1>4. /\ request'[q].stage = "queued"
      /\ request'[q].op = request[q].op /\ request'[q].artifact = request[q].artifact
      /\ request'[q].done = request[q].done /\ request'[q].ok = request[q].ok
  BY <1>1
<1>5. \A s \in Seq(RequestIds) : \A i \in DOMAIN s : s[i] \in RequestIds /\ i \in Nat
  OBVIOUS
<1>6. TypeOK'
  <2>0. trainer_queue \in Seq(RequestIds) /\ rollout_queue \in Seq(RequestIds) BY DEF TypeOK
  <2>00. \A s \in Seq(RequestIds) : Append(s, q) \in Seq(RequestIds) OBVIOUS
  <2>1. trainer_queue' \in Seq(RequestIds) /\ rollout_queue' \in Seq(RequestIds)
    BY <1>3, <2>0, <2>00
  <2> QED BY <1>1, <1>2, <2>1 DEF TypeOK, Requests, ScenarioStays
<1>7. \A s \in Seq(RequestIds), ops \in {TrainerOps, RolloutOps} :
        WellQueued(s, ops) =>
          /\ \A i \in DOMAIN s : s[i] # q /\ request'[s[i]] = request[s[i]]
          /\ WellQueued(s, ops)'
          /\ request[q].op \in ops => WellQueued(Append(s, q), ops)'
  <2> SUFFICES ASSUME NEW s \in Seq(RequestIds), NEW ops \in {TrainerOps, RolloutOps},
                      WellQueued(s, ops)
               PROVE  /\ \A i \in DOMAIN s : s[i] # q /\ request'[s[i]] = request[s[i]]
                      /\ WellQueued(s, ops)'
                      /\ request[q].op \in ops => WellQueued(Append(s, q), ops)'
    OBVIOUS
  <2>1. \A i \in DOMAIN s : s[i] # q /\ request'[s[i]] = request[s[i]]
    BY <1>1, <1>2, <1>5 DEF WellQueued, Others
  <2>2. WellQueued(s, ops)' BY <2>1 DEF WellQueued
  <2>3. ASSUME request[q].op \in ops PROVE WellQueued(Append(s, q), ops)'
    <3> DEFINE t == Append(s, q)
    <3>1. /\ DOMAIN t = DOMAIN s \cup {Len(s) + 1}
          /\ DOMAIN s = 1 .. Len(s) /\ Len(s) \in Nat
          /\ \A i \in DOMAIN s : t[i] = s[i]
          /\ t[Len(s) + 1] = q
      BY EndOfQueue
    <3> HIDE DEF t
    <3>2. \A i, j \in DOMAIN t : t[i] = t[j] => i = j
      BY <2>1, <3>1 DEF WellQueued
    <3>3. \A i \in DOMAIN t : request'[t[i]].stage = "queued" /\ request'[t[i]].op \in ops
      BY <1>4, <2>1, <2>3, <3>1 DEF WellQueued
    <3>4. WellQueued(t, ops)' BY <3>2, <3>3 DEF WellQueued
    <3> QED BY <3>4 DEF t
  <2> QED BY <2>1, <2>2, <2>3
<1>8. QueuesHoldWork'
  <2>1. /\ WellQueued(trainer_queue, TrainerOps) /\ WellQueued(rollout_queue, RolloutOps)
        /\ trainer_queue \in Seq(RequestIds) /\ rollout_queue \in Seq(RequestIds)
    BY DEF QueuesHoldWork, TypeOK
  <2> DEFINE t == trainer_queue
             r == rollout_queue
  <2>2. WellQueued(trainer_queue, TrainerOps)'
    <3>1. CASE trainer_queue' = trainer_queue BY <3>1, <2>1, <1>7 DEF WellQueued
    <3>2. CASE trainer_queue' = Append(trainer_queue, q) /\ request[q].op \in TrainerOps
      BY <3>2, <2>1, <1>7 DEF WellQueued
    <3> QED BY <3>1, <3>2, <1>3
  <2>3. WellQueued(rollout_queue, RolloutOps)'
    <3>1. CASE rollout_queue' = rollout_queue BY <3>1, <2>1, <1>7 DEF WellQueued
    <3>2. CASE rollout_queue' = Append(rollout_queue, q) /\ request[q].op \in RolloutOps
      BY <3>2, <2>1, <1>7 DEF WellQueued
    <3> QED BY <3>1, <3>2, <1>3
  <2>4. \A p \in RequestIds : p >= next_request' => request'[p].stage = "unused"
    BY <1>1, <1>2 DEF QueuesHoldWork, Others
  <2> QED BY <2>2, <2>3, <2>4 DEF QueuesHoldWork
<1>9. EventsAreWork'
  <2>1. \A i \in DOMAIN events : events[i] \in RequestIds /\ request'[events[i]] = request[events[i]]
    BY <1>1, <1>2, <1>5 DEF EventsAreWork, Others, TypeOK
  <2>2. \A p \in RequestIds :
          p = q \/ request'[p] = request[p]
    BY <1>1 DEF Others
  <2> QED BY <1>2, <1>4, <2>1, <2>2 DEF EventsAreWork
<1>10. NamedIsPublished'
  <2>1. \A p \in RequestIds : request'[p].artifact = request[p].artifact
    BY <1>1, <1>4 DEF Others
  <2> QED BY <1>2, <2>1 DEF NamedIsPublished, Named, ScenarioStays
\* In order, what is sent later stays behind what is queued now.
<1>11. ASSUME HasOneClientInOrder
       PROVE  /\ \A i, j \in DOMAIN rollout_queue' : i < j => rollout_queue'[i] < rollout_queue'[j]
              /\ \A i \in DOMAIN rollout_queue', p \in RequestIds :
                   request'[p].stage = "sent" => rollout_queue'[i] < p
  <2>1. /\ \A i, j \in DOMAIN rollout_queue : i < j => rollout_queue[i] < rollout_queue[j]
        /\ \A i \in DOMAIN rollout_queue, p \in RequestIds :
             request[p].stage = "sent" => rollout_queue[i] < p
    BY <1>11 DEF RolloutInOrder
  <2>2. \A p \in RequestIds : request'[p].stage = "sent" => request[p].stage = "sent" /\ q < p
    BY <1>1, <1>2, <1>4, <1>11 DEF HasOneClientInOrder, Others, RequestIds
  <2>3. CASE rollout_queue' = rollout_queue BY <2>1, <2>2, <2>3
  <2>4. CASE rollout_queue' = Append(rollout_queue, q)
    <3>1. /\ DOMAIN rollout_queue' = DOMAIN rollout_queue \cup {Len(rollout_queue) + 1}
          /\ DOMAIN rollout_queue = 1 .. Len(rollout_queue) /\ Len(rollout_queue) \in Nat
          /\ \A i \in DOMAIN rollout_queue : rollout_queue'[i] = rollout_queue[i]
          /\ rollout_queue'[Len(rollout_queue) + 1] = q
      BY <2>4, EndOfQueue DEF TypeOK
    <3>2. \A i \in DOMAIN rollout_queue : rollout_queue[i] < q BY <1>2, <2>1
    <3> QED BY <2>1, <2>2, <3>1, <3>2
  <2> QED BY <1>3, <2>3, <2>4
<1>12. RolloutInOrder'
  <2>1. \A p \in RequestIds :
          /\ request'[p].op = request[p].op /\ request'[p].done = request[p].done
          /\ request'[p].stage = "sent" => request[p].stage = "sent"
    BY <1>1, <1>4 DEF Others
  <2>2. SUFFICES ASSUME HasOneClientInOrder PROVE RolloutInOrder'
    BY DEF RolloutInOrder, ScenarioStays
  <2>3. \A c \in Clients, p \in RequestIds :
          waiting[c] = p /\ request[p].op = "refresh_weights" => ~request[p].done
    BY <1>2, <2>2 DEF RolloutInOrder
  <2> QED BY <1>2, <1>11, <2>1, <2>2, <2>3 DEF RolloutInOrder, ScenarioStays
<1>13. SamplerIsOldest'
  <2>1. SUFFICES ASSUME HasOneClientInOrder, NEW c \in Clients
                 PROVE  /\ \A i \in DOMAIN rollout_queue' :
                             NotOlder(request'[rollout_queue'[i]].artifact, c)
                        /\ \A p \in RequestIds :
                             /\ request'[p].op = request[p].op
                             /\ request'[p].done = request[p].done
                             /\ request'[p].artifact = request[p].artifact
                             /\ request'[p].stage \in {"sent", "queued"} =>
                                  request[p].stage \in {"sent", "queued"}
                             /\ request'[p].stage = "sent" => request[p].stage = "sent"
    BY <1>2 DEF SamplerIsOldest, NotOlder, ScenarioStays
  <2>2. \A p \in RequestIds :
          /\ request'[p].op = request[p].op
          /\ request'[p].done = request[p].done
          /\ request'[p].artifact = request[p].artifact
          /\ request'[p].stage \in {"sent", "queued"} => request[p].stage \in {"sent", "queued"}
          /\ request'[p].stage = "sent" => request[p].stage = "sent"
    BY <1>1, <1>2, <1>4 DEF Others
  <2>3. NotOlder(request[q].artifact, c) BY <1>2, <2>1 DEF SamplerIsOldest
  <2>4. \A i \in DOMAIN rollout_queue : NotOlder(request[rollout_queue[i]].artifact, c)
    BY <2>1 DEF SamplerIsOldest
  <2>5. CASE rollout_queue' = rollout_queue
    BY <1>5, <2>2, <2>4, <2>5 DEF TypeOK
  <2>6. CASE rollout_queue' = Append(rollout_queue, q)
    <3>1. /\ DOMAIN rollout_queue' = DOMAIN rollout_queue \cup {Len(rollout_queue) + 1}
          /\ \A i \in DOMAIN rollout_queue : rollout_queue'[i] = rollout_queue[i]
          /\ rollout_queue'[Len(rollout_queue) + 1] = q
      BY <2>6, EndOfQueue DEF TypeOK
    <3> QED BY <1>5, <2>2, <2>3, <2>4, <3>1 DEF TypeOK
  <2> QED BY <1>3, <2>2, <2>5, <2>6
<1> QED BY <1>6, <1>8, <1>9, <1>10, <1>12, <1>13

\* What is behind an answered message, and what is in another queue, is left alone.
LEMMA QueueBehind ==
  ASSUME NEW s \in Seq(RequestIds), s # <<>>, NEW ops, WellQueued(s, ops), Others(Head(s))
  PROVE  /\ Head(s) \in RequestIds /\ Head(s) = s[1] /\ 1 \in DOMAIN s
         /\ request[Head(s)].stage = "queued" /\ request[Head(s)].op \in ops
         /\ Tail(s) \in Seq(RequestIds)
         /\ \A i \in DOMAIN Tail(s) :
              /\ i \in Nat /\ i >= 1 /\ i + 1 \in DOMAIN s
              /\ Tail(s)[i] = s[i + 1] /\ Tail(s)[i] \in RequestIds /\ Tail(s)[i] # Head(s)
              /\ request'[Tail(s)[i]] = request[Tail(s)[i]]
              /\ request[Tail(s)[i]].stage = "queued" /\ request[Tail(s)[i]].op \in ops
         /\ \A i, j \in DOMAIN Tail(s) : Tail(s)[i] = Tail(s)[j] => i = j
<1> DEFINE t == Tail(s)
<1>1. /\ Head(s) = s[1] /\ 1 \in DOMAIN s /\ Head(s) \in RequestIds
      /\ t \in Seq(RequestIds)
      /\ \A i \in DOMAIN t : i \in Nat /\ i >= 1 /\ i + 1 \in DOMAIN s /\ t[i] = s[i + 1]
  BY TailOfQueue
<1>2. \A i \in DOMAIN t : t[i] \in RequestIds BY <1>1
<1> HIDE DEF t
<1>3. request[Head(s)].stage = "queued" /\ request[Head(s)].op \in ops BY <1>1 DEF WellQueued
<1>4. \A i \in DOMAIN t : t[i] # Head(s) BY <1>1 DEF WellQueued
<1>5. \A i, j \in DOMAIN t : t[i] = t[j] => i = j
  <2> SUFFICES ASSUME NEW i \in DOMAIN t, NEW j \in DOMAIN t, t[i] = t[j] PROVE i = j
    OBVIOUS
  <2>1. i + 1 = j + 1 BY <1>1 DEF WellQueued
  <2> QED BY <1>1, <2>1
<1>6. \A i \in DOMAIN t :
        /\ request'[t[i]] = request[t[i]]
        /\ request[t[i]].stage = "queued" /\ request[t[i]].op \in ops
  BY <1>1, <1>2, <1>4 DEF WellQueued, Others
<1> QED BY <1>1, <1>2, <1>3, <1>4, <1>5, <1>6 DEF t

\* A queue that the answered message is not in.
LEMMA QueueBeside ==
  ASSUME NEW s \in Seq(RequestIds), NEW ops, WellQueued(s, ops),
         NEW q \in RequestIds, request[q].op \notin ops, Others(q)
  PROVE  /\ WellQueued(s, ops)'
         /\ \A i \in DOMAIN s : s[i] \in RequestIds /\ request'[s[i]] = request[s[i]]
<1>1. \A i \in DOMAIN s : s[i] \in RequestIds OBVIOUS
<1> QED BY <1>1 DEF WellQueued, Others

\* An answer leaves the ledger as it is.
LEMMA EventsBeside ==
  ASSUME IInv, NEW q \in RequestIds, Others(q), events' = events,
         request[q].stage \in {"sent", "queued"},
         request'[q].stage = "executed", request'[q].ok => request'[q].done
  PROVE  EventsAreWork'
<1> USE DEF IInv
<1>1. \A i \in DOMAIN events : events[i] \in RequestIds /\ events[i] # q
  <2>1. \A s \in Seq(RequestIds) : \A i \in DOMAIN s : s[i] \in RequestIds OBVIOUS
  <2> QED BY <2>1 DEF EventsAreWork, TypeOK
<1>2. \A i \in DOMAIN events : request'[events[i]] = request[events[i]] BY <1>1 DEF Others
<1> QED BY <1>1, <1>2 DEF EventsAreWork, Others

LEMMA TrainerStepKeeps ==
  ASSUME IInv, ScenarioStays, NEW q \in RequestIds, NEW op \in TrainerOps, NEW d \in BOOLEAN,
         NEW a \in MaybeArtifact, TrainerMoves(q, op, d, a)
  PROVE  IInv'
<1> USE DEF IInv
<1>0. TrainerTakes(q, op) /\ Answer(q, d, a) /\ TrainerChanges(a)
      /\ (d /\ op = "save_weights" => a # NoArtifact)
  BY Zenon DEF TrainerMoves
<1>1. /\ trainer_queue # <<>> /\ q = Head(trainer_queue) /\ request[q].op = op
      /\ trainer_queue' = Tail(trainer_queue)
      /\ UNCHANGED <<next_request, rollout_queue, loaded, events, waiting, saved, sampler,
                     timed_out, optim_calls>>
  BY <1>0 DEF TrainerTakes, clients
<1>2. /\ request' \in [RequestIds -> Requests]
      /\ Others(q)
      /\ request'[q] = [client |-> request[q].client, op |-> request[q].op, artifact |-> a,
                        stage |-> "executed", done |-> d, ok |-> d]
  BY <1>0, AnswerSet DEF Others
<1>3. /\ request'[q].op = op /\ request'[q].artifact = a /\ request'[q].stage = "executed"
      /\ request'[q].done = d /\ request'[q].ok = d
  BY <1>1, <1>2
<1>4. /\ trainer_queue \in Seq(RequestIds) /\ WellQueued(trainer_queue, TrainerOps)
      /\ rollout_queue \in Seq(RequestIds) /\ WellQueued(rollout_queue, RolloutOps)
      /\ op \notin RolloutOps
  BY DEF TypeOK, QueuesHoldWork, TrainerOps, RolloutOps
<1>5. /\ request[q].stage = "queued"
      /\ trainer_queue' \in Seq(RequestIds)
      /\ WellQueued(trainer_queue, TrainerOps)'
  <2> DEFINE t == trainer_queue'
  <2>1. Others(Head(trainer_queue)) BY <1>1, <1>2
  <2>2. /\ request[Head(trainer_queue)].stage = "queued"
        /\ t \in Seq(RequestIds)
        /\ \A i \in DOMAIN t :
             /\ request'[t[i]] = request[t[i]]
             /\ request[t[i]].stage = "queued" /\ request[t[i]].op \in TrainerOps
        /\ \A i, j \in DOMAIN t : t[i] = t[j] => i = j
    BY <1>1, <1>4, <2>1, QueueBehind
  <2> QED BY <1>1, <2>2 DEF WellQueued
<1>6. /\ WellQueued(rollout_queue, RolloutOps)'
      /\ \A i \in DOMAIN rollout_queue :
           rollout_queue[i] \in RequestIds /\ request'[rollout_queue[i]] = request[rollout_queue[i]]
  BY <1>1, <1>2, <1>4, QueueBeside DEF WellQueued
<1>7. TypeOK'
  <2>1. published' \subseteq [run : {Run}, step : Nat]
    BY <1>0 DEF TypeOK, TrainerChanges
  <2> QED BY <1>0, <1>1, <1>2, <1>5, <2>1 DEF TypeOK, TrainerChanges, Requests, ScenarioStays
<1>8. QueuesHoldWork' BY <1>1, <1>2, <1>5, <1>6 DEF QueuesHoldWork, Others
<1>9. EventsAreWork' BY <1>1, <1>2, <1>3, <1>5, EventsBeside
<1>10. NamedIsPublished'
  <2>1. \A v : Named(v) => (v # NoArtifact => [run |-> Run, step |-> v] \in published')
    BY <1>0 DEF Named, TrainerChanges
  <2>2. \A x \in published' : x.step <= steps'[Run]
    BY <1>0 DEF NamedIsPublished, TrainerChanges, TypeOK
  <2>3. \A p \in RequestIds :
          request'[p].artifact # NoArtifact =>
            [run |-> Run, step |-> request'[p].artifact] \in published'
    BY <1>0, <1>2, <1>3, <2>1 DEF NamedIsPublished, Others, TrainerChanges
  <2> QED BY <1>1, <2>1, <2>2, <2>3 DEF NamedIsPublished, Named, ScenarioStays
<1>11. RolloutInOrder'
  BY <1>1, <1>2, <1>3 DEF RolloutInOrder, Others, ScenarioStays, TrainerOps
<1>12. SamplerIsOldest'
  <2> SUFFICES ASSUME HasOneClientInOrder, NEW c \in Clients
               PROVE  d /\ op = "save_weights" => sampler[c] <= a
    BY <1>1, <1>2, <1>3, <1>6 DEF SamplerIsOldest, NotOlder, Others, ScenarioStays, TrainerOps
  <2>1. sampler[c] \in MaybeArtifact /\ steps[Run] \in Nat BY DEF TypeOK
  <2>2. sampler[c] <= steps[Run]
    <3>1. CASE sampler[c] = NoArtifact BY <2>1, <3>1 DEF NoArtifact
    <3>2. CASE sampler[c] # NoArtifact BY <3>2 DEF NamedIsPublished, Named
    <3> QED BY <3>1, <3>2
  <2> QED BY <1>0, <2>2 DEF TrainerChanges
<1> QED BY <1>7, <1>8, <1>9, <1>10, <1>11, <1>12

LEMMA RolloutStepKeeps ==
  ASSUME IInv, ScenarioStays, NEW q \in RequestIds, NEW op \in RolloutOps, NEW d \in BOOLEAN,
         NEW a \in MaybeArtifact, RolloutMoves(q, op, d, a)
  PROVE  IInv'
<1> USE DEF IInv
<1>0. /\ RolloutTakes(q, op) /\ Answer(q, d, a)
      /\ \/ ~d /\ a = NoArtifact /\ loaded' = loaded
         \/ /\ d /\ a \in Nat /\ loaded' = a
            /\ \/ op = "refresh_weights" /\ a = request[q].artifact
               \/ op = "refresh_weights" /\ request[q].artifact = NoArtifact /\ IsLatest(a)
               \/ op = "sample" /\ a = loaded
               \/ op = "sample" /\ loaded = NoArtifact /\ IsLatest(a)
  BY Zenon DEF RolloutMoves
<1>1. /\ rollout_queue # <<>> /\ q = Head(rollout_queue) /\ request[q].op = op
      /\ rollout_queue' = Tail(rollout_queue)
      /\ UNCHANGED <<next_request, trainer_queue, phase, steps, published, events, waiting, saved,
                     sampler, timed_out, optim_calls>>
  BY <1>0 DEF RolloutTakes, clients, trainer
<1>2. /\ request' \in [RequestIds -> Requests]
      /\ Others(q)
      /\ request'[q] = [client |-> request[q].client, op |-> request[q].op, artifact |-> a,
                        stage |-> "executed", done |-> d, ok |-> d]
  BY <1>0, AnswerSet DEF Others
<1>3. /\ request'[q].op = op /\ request'[q].artifact = a /\ request'[q].stage = "executed"
      /\ request'[q].done = d /\ request'[q].ok = d
  BY <1>1, <1>2
<1>4. /\ trainer_queue \in Seq(RequestIds) /\ WellQueued(trainer_queue, TrainerOps)
      /\ rollout_queue \in Seq(RequestIds) /\ WellQueued(rollout_queue, RolloutOps)
      /\ op \notin TrainerOps
  BY DEF TypeOK, QueuesHoldWork, TrainerOps, RolloutOps
<1> DEFINE t == rollout_queue'
<1>5. /\ request[q].stage = "queued" /\ q = rollout_queue[1] /\ 1 \in DOMAIN rollout_queue
      /\ t \in Seq(RequestIds)
      /\ \A i \in DOMAIN t :
           /\ i \in Nat /\ i >= 1 /\ i + 1 \in DOMAIN rollout_queue
           /\ t[i] = rollout_queue[i + 1] /\ t[i] \in RequestIds
           /\ request'[t[i]] = request[t[i]]
           /\ request[t[i]].stage = "queued" /\ request[t[i]].op \in RolloutOps
      /\ \A i, j \in DOMAIN t : t[i] = t[j] => i = j
  <2>1. Others(Head(rollout_queue)) BY <1>1, <1>2
  <2> QED BY <1>1, <1>4, <2>1, QueueBehind
<1>6. WellQueued(rollout_queue, RolloutOps)' BY <1>5 DEF WellQueued
<1>7. WellQueued(trainer_queue, TrainerOps)'
  BY <1>1, <1>2, <1>4, QueueBeside DEF WellQueued
<1>8. TypeOK'
  <2>1. loaded' \in MaybeArtifact BY <1>0 DEF TypeOK
  <2> QED BY <1>1, <1>2, <1>5, <2>1 DEF TypeOK, Requests, ScenarioStays
<1>9. QueuesHoldWork' BY <1>1, <1>2, <1>5, <1>6, <1>7 DEF QueuesHoldWork, Others
<1>10. EventsAreWork' BY <1>1, <1>2, <1>3, <1>5, EventsBeside
<1>11. Named(a) /\ Named(loaded')
  BY <1>0, <1>1 DEF NamedIsPublished, Named, IsLatest
<1>12. NamedIsPublished'
  <2>1. \A p \in RequestIds : Named(request'[p].artifact)
    BY <1>2, <1>3, <1>11 DEF NamedIsPublished, Others
  <2> QED BY <1>1, <1>11, <2>1 DEF NamedIsPublished, Named, ScenarioStays
\* In order, the newest request is the last.
<1>13. ASSUME HasOneClientInOrder, NEW c \in Clients, waiting[c] = q
       PROVE  rollout_queue' = <<>> /\ \A p \in RequestIds : request'[p].stage # "sent"
  <2>1. /\ q = next_request - 1 /\ q # 0
    BY <1>13, ScenariosAssumption DEF RolloutInOrder, RequestIds
  <2>2. \A p \in RequestIds : request[p].stage # "unused" => p <= q
    BY <2>1 DEF QueuesHoldWork, TypeOK, RequestIds
  <2>3. \A i \in DOMAIN t : FALSE
    BY <1>5, <1>13, <2>2 DEF RolloutInOrder, RequestIds
  <2>4. \A p \in RequestIds : request[p].stage # "sent"
    BY <1>5, <1>13, <2>2 DEF RolloutInOrder, RequestIds
  <2>5. t = <<>> BY <1>5, <2>3
  <2> QED BY <1>2, <1>3, <2>4, <2>5 DEF Others
<1>14. RolloutInOrder'
  <2> SUFFICES ASSUME HasOneClientInOrder PROVE RolloutInOrder'
    BY DEF RolloutInOrder, ScenarioStays
  <2>1. \A i, j \in DOMAIN t : i < j => t[i] < t[j]
    BY <1>5 DEF RolloutInOrder
  <2>2. \A i \in DOMAIN t, p \in RequestIds : request'[p].stage = "sent" => t[i] < p
    BY <1>2, <1>3, <1>5 DEF RolloutInOrder, Others
  <2>3. \A c \in Clients : waiting'[c] \in {0, next_request' - 1}
    BY <1>1 DEF RolloutInOrder
  <2>4. ASSUME NEW c \in Clients, NEW p \in RequestIds,
               waiting[c] = p, request'[p].op = "refresh_weights", request'[p].done
        PROVE  t = <<>> /\ \A r \in RequestIds : request'[r].stage # "sent"
    <3>1. CASE p = q BY <1>13, <2>4, <3>1
    <3>2. CASE p # q BY <1>1, <1>2, <2>4, <3>2 DEF RolloutInOrder, Others
    <3> QED BY <3>1, <3>2
  <2> QED BY <1>1, <2>1, <2>2, <2>3, <2>4 DEF RolloutInOrder, ScenarioStays
<1>15. SamplerIsOldest'
  <2> SUFFICES ASSUME HasOneClientInOrder, NEW c \in Clients
               PROVE  /\ sampler[c] <= loaded'
                      /\ \A p \in RequestIds : waiting[c] = p =>
                           /\ request'[p].op = "sample" /\ request'[p].done =>
                                sampler[c] <= request'[p].artifact
                           /\ request'[p].op = "save_weights" /\ request'[p].done =>
                                sampler[c] <= request'[p].artifact
                           /\ request'[p].op = "refresh_weights" /\ request'[p].stage \in {"sent", "queued"} =>
                                request'[p].artifact = saved[c] /\ ~request'[p].done
                           /\ request'[p].op = "refresh_weights" /\ request'[p].done =>
                                /\ loaded' = request'[p].artifact
                                /\ saved[c] \in {NoArtifact, request'[p].artifact}
    BY <1>1, <1>2, <1>3, <1>5 DEF SamplerIsOldest, NotOlder, Others, ScenarioStays
  <2>1. /\ sampler[c] <= loaded /\ NotOlder(request[q].artifact, c)
        /\ sampler[c] \in MaybeArtifact /\ loaded \in MaybeArtifact /\ saved[c] \in MaybeArtifact
    BY <1>5 DEF SamplerIsOldest, TypeOK
  <2>2. \A v \in Nat : IsLatest(v) => sampler[c] <= v
    BY <2>1 DEF NamedIsPublished, Named, IsLatest, MaybeArtifact, NoArtifact
  <2>3. sampler[c] <= loaded' /\ (d => sampler[c] <= a)
    BY <1>0, <2>1, <2>2 DEF NotOlder, NoArtifact
  <2>4. ASSUME waiting[c] = q, op = "refresh_weights", d
        PROVE  loaded' = a /\ saved[c] \in {NoArtifact, a}
    <3>1. request[q].artifact = saved[c]
      BY <1>1, <1>5, <2>4 DEF SamplerIsOldest
    <3> QED BY <1>0, <2>4, <3>1
  <2>5. ASSUME NEW p \in RequestIds, p # q, waiting[c] = p,
               request[p].op = "refresh_weights", request[p].done
        PROVE  FALSE
    BY <1>1, <2>5 DEF RolloutInOrder
  <2> QED
    BY <1>2, <1>3, <2>3, <2>4, <2>5 DEF SamplerIsOldest, Others, RolloutOps
<1> QED BY <1>8, <1>9, <1>10, <1>12, <1>14, <1>15

\* A step after the answer changes only where the request stands, and whether it is ok.
AfterAnswer(q, s) ==
  /\ request' \in [RequestIds -> Requests]
  /\ Others(q)
  /\ request'[q].client = request[q].client /\ request'[q].op = request[q].op
  /\ request'[q].artifact = request[q].artifact /\ request'[q].done = request[q].done
  /\ request[q].stage \in {"executed", "recorded"} /\ request'[q].stage = s
  /\ UNCHANGED <<next_request, trainer_queue, rollout_queue, phase, steps, published, loaded>>

\* Such a step leaves queues and order alone; the clients may go on.
LEMMA AfterAnswerKeeps ==
  ASSUME IInv, ScenarioStays, NEW q \in RequestIds, NEW s \in {"recorded", "replied"},
         AfterAnswer(q, s), \A c \in Clients : waiting'[c] \in {0, waiting[c]}
  PROVE  /\ QueuesHoldWork'
         /\ RolloutInOrder'
         /\ \A i \in DOMAIN rollout_queue :
              rollout_queue[i] \in RequestIds /\ request'[rollout_queue[i]] = request[rollout_queue[i]]
<1> USE DEF IInv
<1>0. \A p \in RequestIds : p # 0 BY ScenariosAssumption DEF RequestIds
<1>1. \A t \in Seq(RequestIds), ops \in {TrainerOps, RolloutOps} :
        WellQueued(t, ops) =>
          \A i \in DOMAIN t : t[i] \in RequestIds /\ request'[t[i]] = request[t[i]]
  BY DEF AfterAnswer, WellQueued, Others
<1>2. /\ \A i \in DOMAIN trainer_queue : request'[trainer_queue[i]] = request[trainer_queue[i]]
      /\ \A i \in DOMAIN rollout_queue :
           rollout_queue[i] \in RequestIds /\ request'[rollout_queue[i]] = request[rollout_queue[i]]
  BY <1>1 DEF QueuesHoldWork, TypeOK
<1>3. QueuesHoldWork'
  BY <1>2 DEF QueuesHoldWork, WellQueued, AfterAnswer, Others
<1>4. \A p \in RequestIds :
        /\ request'[p].stage = "sent" => request[p].stage = "sent"
        /\ request'[p].op = request[p].op /\ request'[p].done = request[p].done
  BY DEF AfterAnswer, Others
<1>5. UNCHANGED <<next_request, rollout_queue>> BY DEF AfterAnswer
<1>6. RolloutInOrder'
  <2> SUFFICES ASSUME HasOneClientInOrder PROVE RolloutInOrder'
    BY DEF RolloutInOrder, ScenarioStays
  <2>1. \A c \in Clients, p \in RequestIds :
          /\ waiting'[c] = p => waiting[c] = p
          /\ waiting'[c] \in {0, next_request - 1}
    BY <1>0 DEF RolloutInOrder
  <2> QED BY <1>4, <1>5, <2>1 DEF RolloutInOrder, ScenarioStays
<1> QED BY <1>2, <1>3, <1>6

LEMMA TelemetryStep ==
  ASSUME IInv, ScenarioStays, NEW q \in RequestIds, Telemetry(q)
  PROVE  IInv'
<1> USE DEF IInv
<1>1. /\ request[q].stage = "executed" /\ request[q].ok /\ request[q].op \in Metered
      /\ request[q].done
      /\ UNCHANGED <<next_request, trainer_queue, rollout_queue, phase, steps, published, loaded,
                     waiting, saved, sampler, timed_out, optim_calls>>
  BY DEF Telemetry, Record, RecordFails, HasUsage, EventsAreWork, queues, trainer, clients
<1>2. \/ /\ events' = Append(events, q)
         /\ request' = [request EXCEPT ![q].stage = "recorded"]
      \/ /\ events' = events
         /\ request' = [request EXCEPT ![q].stage = "recorded", ![q].ok = FALSE]
  BY DEF Telemetry, Record, RecordFails
<1>3. /\ AfterAnswer(q, "recorded")
      /\ events' = Append(events, q) \/ (events' = events /\ ~request'[q].ok)
  <2>1. request \in [RequestIds -> Requests] BY DEF TypeOK, Requests
  <2>2. CASE events' = Append(events, q) /\ request' = [request EXCEPT ![q].stage = "recorded"]
    BY <1>1, <2>1, <2>2 DEF AfterAnswer, Others, Requests, Stages
  <2>3. CASE /\ events' = events
             /\ request' = [request EXCEPT ![q].stage = "recorded", ![q].ok = FALSE]
    <3> DEFINE f == [request EXCEPT ![q].stage = "recorded"]
    <3>1. /\ f \in [RequestIds -> Requests]
          /\ \A p \in RequestIds : p # q => f[p] = request[p]
          /\ f[q] = [client |-> request[q].client, op |-> request[q].op,
                     artifact |-> request[q].artifact, stage |-> "recorded",
                     done |-> request[q].done, ok |-> request[q].ok]
      BY <2>1 DEF Requests, Stages
    <3>2. request' = [f EXCEPT ![q].ok = FALSE] BY <2>3
    <3> HIDE DEF f
    <3>3. /\ request' \in [RequestIds -> Requests]
          /\ \A p \in RequestIds : p # q => request'[p] = f[p]
          /\ request'[q] = [client |-> f[q].client, op |-> f[q].op, artifact |-> f[q].artifact,
                            stage |-> f[q].stage, done |-> f[q].done, ok |-> FALSE]
      BY <3>1, <3>2 DEF Requests
    <3> QED BY <1>1, <2>3, <3>1, <3>3 DEF AfterAnswer, Others
  <2> QED BY <1>2, <2>2, <2>3
<1>4. QueuesHoldWork' /\ RolloutInOrder' /\ \A i \in DOMAIN rollout_queue :
        rollout_queue[i] \in RequestIds /\ request'[rollout_queue[i]] = request[rollout_queue[i]]
  BY <1>1, <1>3, AfterAnswerKeeps
<1>5. \A i \in DOMAIN events : events[i] \in RequestIds /\ events[i] # q
        /\ request'[events[i]] = request[events[i]]
  <2>1. \A t \in Seq(RequestIds) : \A i \in DOMAIN t : t[i] \in RequestIds OBVIOUS
  <2> QED BY <1>1, <1>3, <2>1 DEF EventsAreWork, TypeOK, AfterAnswer, Others
<1>6. EventsAreWork' /\ events' \in Seq(RequestIds)
  <2>1. CASE events' = events /\ ~request'[q].ok
    <3>1. \A p \in RequestIds : p = q \/ request'[p] = request[p] BY <1>3 DEF AfterAnswer, Others
    <3>2. events' \in Seq(RequestIds) BY <2>1 DEF TypeOK
    <3> QED BY <1>1, <1>3, <1>5, <2>1, <3>1, <3>2 DEF EventsAreWork, AfterAnswer
  <2>2. CASE events' = Append(events, q)
    <3>1. /\ events' \in Seq(RequestIds)
          /\ DOMAIN events' = DOMAIN events \cup {Len(events) + 1}
          /\ DOMAIN events = 1 .. Len(events) /\ Len(events) \in Nat
          /\ \A i \in DOMAIN events : events'[i] = events[i]
          /\ events'[Len(events) + 1] = q
      BY <2>2, EndOfQueue DEF TypeOK
    <3>2. \A i, j \in DOMAIN events' : events'[i] = events'[j] => i = j
      BY <1>5, <3>1 DEF EventsAreWork
    <3>3. \A i \in DOMAIN events' :
            /\ request'[events'[i]].stage \in {"recorded", "replied"}
            /\ request'[events'[i]].done /\ request'[events'[i]].op \in Metered
      <4> SUFFICES ASSUME NEW i \in DOMAIN events'
                   PROVE  /\ request'[events'[i]].stage \in {"recorded", "replied"}
                          /\ request'[events'[i]].done /\ request'[events'[i]].op \in Metered
        OBVIOUS
      <4>1. CASE i \in DOMAIN events BY <1>5, <3>1, <4>1 DEF EventsAreWork
      <4>2. CASE i = Len(events) + 1 BY <1>1, <1>3, <3>1, <4>2 DEF AfterAnswer
      <4> QED BY <3>1, <4>1, <4>2
    <3>4. \A p \in RequestIds :
            (\E i \in DOMAIN events : events[i] = p) \/ p = q => \E i \in DOMAIN events' : events'[i] = p
      BY <3>1
    <3>5. \A p \in RequestIds :
            /\ /\ request'[p].stage \in {"recorded", "replied"}
               /\ request'[p].ok /\ request'[p].op \in Metered
               => \E i \in DOMAIN events' : events'[i] = p
            /\ request'[p].stage \in {"executed", "recorded", "replied"} /\ request'[p].ok =>
                 request'[p].done
      BY <1>1, <1>3, <3>4 DEF EventsAreWork, AfterAnswer, Others
    <3> QED BY <3>1, <3>2, <3>3, <3>5 DEF EventsAreWork
  <2> QED BY <1>3, <2>1, <2>2
<1>7. TypeOK' BY <1>1, <1>3, <1>6 DEF TypeOK, AfterAnswer, Requests, ScenarioStays
<1>8. NamedIsPublished'
  BY <1>1, <1>3 DEF NamedIsPublished, Named, AfterAnswer, Others, ScenarioStays
<1>9. SamplerIsOldest'
  BY <1>1, <1>3, <1>4 DEF SamplerIsOldest, NotOlder, AfterAnswer, Others, ScenarioStays
<1> QED BY <1>4, <1>6, <1>7, <1>8, <1>9

LEMMA ReplyStep ==
  ASSUME IInv, ScenarioStays, NEW q \in RequestIds, ReplyInTime(q) \/ ReplyTooLate(q)
  PROVE  IInv'
<1> USE DEF IInv
<1> DEFINE k == request[q].client
<1>0. /\ Reply(q) /\ k \in Clients /\ request[q].op \in Ops
      /\ request \in [RequestIds -> Requests]
  BY DEF ReplyInTime, ReplyTooLate, TypeOK, Requests
<1>1. /\ request' = [request EXCEPT ![q].stage = "replied"]
      /\ \/ request[q].stage = "recorded"
         \/ request[q].stage = "executed" /\ ~HasUsage(q)
      /\ UNCHANGED <<next_request, trainer_queue, rollout_queue, phase, steps, published, loaded,
                     events, timed_out, optim_calls>>
  BY <1>0 DEF Reply, queues, trainer
<1>2. AfterAnswer(q, "replied") /\ request'[q].ok = request[q].ok
  BY <1>0, <1>1 DEF AfterAnswer, Others, Requests, Stages
\* Either nobody waits for the reply, or the client takes it.
<1>3. \/ UNCHANGED <<waiting, saved, sampler>> /\ waiting[k] # q
      \/ /\ waiting[k] = q /\ waiting' = [waiting EXCEPT ![k] = 0]
         /\ saved' = IF request[q].ok /\ request[q].op = "save_weights"
                      THEN [saved EXCEPT ![k] = request[q].artifact] ELSE saved
         /\ sampler' = IF request[q].ok /\ request[q].op = "refresh_weights"
                        THEN [sampler EXCEPT ![k] = request[q].artifact] ELSE sampler
  BY DEF ReplyInTime, ReplyTooLate
<1>4. /\ waiting \in [Clients -> RequestIds \cup {0}]
      /\ saved \in [Clients -> MaybeArtifact] /\ sampler \in [Clients -> MaybeArtifact]
      /\ request[q].artifact \in MaybeArtifact
  BY DEF TypeOK
<1>5. \A c \in Clients : waiting'[c] \in {0, waiting[c]} BY <1>0, <1>3, <1>4
<1>6. QueuesHoldWork' /\ RolloutInOrder' /\ \A i \in DOMAIN rollout_queue :
        rollout_queue[i] \in RequestIds /\ request'[rollout_queue[i]] = request[rollout_queue[i]]
  BY <1>2, <1>5, AfterAnswerKeeps
<1>7. TypeOK'
  <2>1. /\ waiting' \in [Clients -> RequestIds \cup {0}]
        /\ saved' \in [Clients -> MaybeArtifact] /\ sampler' \in [Clients -> MaybeArtifact]
    BY <1>0, <1>3, <1>4
  <2> QED BY <1>1, <1>2, <2>1 DEF TypeOK, AfterAnswer, Requests, ScenarioStays
<1>8. EventsAreWork'
  <2>1. \A p \in RequestIds :
          /\ request'[p].op = request[p].op /\ request'[p].done = request[p].done
          /\ request'[p].ok = request[p].ok
          /\ request[p].stage \in {"recorded", "replied"} =>
               request'[p].stage \in {"recorded", "replied"}
          /\ request'[p].stage \in {"recorded", "replied"} =>
               \/ request[p].stage \in {"recorded", "replied"}
               \/ request[p].stage = "executed" /\ ~(request[p].ok /\ request[p].op \in Metered)
          /\ request'[p].stage \in {"executed", "recorded", "replied"} =>
               request[p].stage \in {"executed", "recorded", "replied"}
    BY <1>1, <1>2 DEF AfterAnswer, Others, HasUsage
  <2>2. \A i \in DOMAIN events : events[i] \in RequestIds
    <3>1. \A t \in Seq(RequestIds) : \A i \in DOMAIN t : t[i] \in RequestIds OBVIOUS
    <3> QED BY <3>1 DEF TypeOK
  <2> QED BY <1>1, <2>1, <2>2 DEF EventsAreWork
<1>9. NamedIsPublished'
  <2>1. \A p \in RequestIds : Named(request'[p].artifact)
    BY <1>2 DEF NamedIsPublished, AfterAnswer, Others
  <2>2. \A c \in Clients : Named(saved'[c]) /\ Named(sampler'[c])
    BY <1>0, <1>3, <1>4 DEF NamedIsPublished
  <2> QED BY <1>1, <2>1, <2>2 DEF NamedIsPublished, Named, ScenarioStays
<1>10. SamplerIsOldest'
  <2> SUFFICES ASSUME HasOneClientInOrder PROVE SamplerIsOldest'
    BY DEF SamplerIsOldest, ScenarioStays
  <2>1. CASE UNCHANGED <<waiting, saved, sampler>>
    BY <1>1, <1>2, <1>6, <2>1 DEF SamplerIsOldest, NotOlder, AfterAnswer, Others, ScenarioStays
  <2>2. CASE waiting[k] = q /\ ~UNCHANGED <<waiting, saved, sampler>>
    <3>1. \A c \in Clients : c = k BY <1>0 DEF HasOneClientInOrder
    <3>2. \A p \in RequestIds : p # 0 BY ScenariosAssumption DEF RequestIds
    <3>3. waiting'[k] = 0 /\ waiting[k] = q BY <1>0, <1>3, <1>4, <2>2
    <3>4. request[q].ok => request[q].done
      BY <1>1 DEF EventsAreWork
    <3>5. ASSUME request[q].ok, request[q].op = "refresh_weights"
          PROVE  /\ loaded = request[q].artifact
                 /\ saved[k] \in {NoArtifact, request[q].artifact}
                 /\ rollout_queue = <<>>
                 /\ \A p \in RequestIds : request[p].stage # "sent"
      BY <1>0, <3>3, <3>4, <3>5 DEF SamplerIsOldest, RolloutInOrder
    <3>6. ASSUME request[q].ok, request[q].op = "save_weights"
          PROVE  sampler[k] <= request[q].artifact
      BY <1>0, <3>3, <3>4, <3>6 DEF SamplerIsOldest
    <3>7. \A p \in RequestIds : request'[p].stage = "sent" =>
            request[p].stage = "sent" /\ request'[p].artifact = request[p].artifact
      BY <1>2 DEF AfterAnswer, Others
    <3>8. CASE request[q].ok /\ request[q].op = "refresh_weights"
      <4>1. sampler'[k] = request[q].artifact /\ saved' = saved
        BY <1>0, <1>3, <1>4, <2>2, <3>8
      <4>2. sampler'[k] <= loaded /\ (saved'[k] = NoArtifact \/ sampler'[k] <= saved'[k])
        BY <1>4, <3>5, <3>8, <4>1 DEF MaybeArtifact, NoArtifact
      <4> QED
        BY <1>1, <3>1, <3>2, <3>3, <3>5, <3>7, <3>8, <4>2 DEF SamplerIsOldest, NotOlder, ScenarioStays
    <3>9. CASE ~(request[q].ok /\ request[q].op = "refresh_weights")
      <4>1. sampler' = sampler BY <1>3, <2>2, <3>9
      <4>2. NotOlder(saved'[k], k)
        BY <1>0, <1>3, <1>4, <2>2, <3>6 DEF SamplerIsOldest, NotOlder
      <4> QED
        BY <1>1, <1>6, <3>1, <3>2, <3>3, <3>7, <4>1, <4>2 DEF SamplerIsOldest, NotOlder, ScenarioStays
    <3> QED BY <3>8, <3>9
  <2> QED BY <1>3, <2>1, <2>2
<1> QED BY <1>6, <1>7, <1>8, <1>9, <1>10

LEMMA StepIInv == ASSUME IInv, [Next]_vars PROVE IInv'
<1>0. ScenarioStays BY ScenarioIsFixed DEF ScenarioStays
<1>1. ASSUME NEW c \in Clients, TimeOut(c) PROVE IInv' BY <1>0, <1>1, TimeOutStep
<1>2. ASSUME NEW c \in Clients, NEW op \in Ops, Call(c, op) PROVE IInv' BY <1>0, <1>2, CallStep
<1>3. ASSUME NEW q \in RequestIds, Forward(q) PROVE IInv' BY <1>0, <1>3, ForwardStep
<1>4. ASSUME NEW q \in RequestIds, Execute(q) PROVE IInv'
  <2>1. TypeOK BY DEF IInv
  <2>2. CASE \/ ForwardBackward(q) \/ OptimStep(q) \/ SaveWeights(q)
             \/ \E op \in TrainerOps : Refuse(q, op) \/ TrainerFails(q, op)
    <3>1. PICK op \in TrainerOps, d \in BOOLEAN, a \in MaybeArtifact : TrainerMoves(q, op, d, a)
      BY <2>1, <2>2, TrainerStep
    <3> QED BY <1>0, <3>1, TrainerStepKeeps
  <2>3. CASE RefreshWeights(q) \/ Sample(q) \/ \E op \in RolloutOps : RolloutFails(q, op)
    <3>1. PICK op \in RolloutOps, d \in BOOLEAN, a \in MaybeArtifact : RolloutMoves(q, op, d, a)
      BY <2>1, <2>3, RolloutStep
    <3> QED BY <1>0, <3>1, RolloutStepKeeps
  <2> QED BY <1>4, <2>2, <2>3 DEF Execute
<1>5. ASSUME NEW q \in RequestIds, Telemetry(q) PROVE IInv' BY <1>0, <1>5, TelemetryStep
<1>6. ASSUME NEW q \in RequestIds, ReplyInTime(q) \/ ReplyTooLate(q) PROVE IInv'
  BY <1>0, <1>6, ReplyStep
<1>7. CASE UNCHANGED vars
  BY <1>7 DEF vars, requests, queues, trainer, clients, IInv, TypeOK, QueuesHoldWork, WellQueued, EventsAreWork,
     NamedIsPublished, Named, RolloutInOrder, SamplerIsOldest, NotOlder, HasOneClientInOrder, InOrder,
     Clients
<1> QED BY <1>1, <1>2, <1>3, <1>4, <1>5, <1>6, <1>7 DEF Next, ActorsMove

THEOREM Invariance == Spec => []IInv
BY InitIInv, StepIInv, PTL DEF Spec

-----------------------------------------------------------------------------
(* The theorems                                                             *)

\* Requests, queues, ledger and clients stay what ProxyService says they are.
THEOREM TypeCorrect == Spec => []TypeOK
<1>1. IInv => TypeOK BY DEF IInv
<1> QED BY <1>1, Invariance, PTL

\* The telemetry ledger has one event for each piece of work that was answered with
\* success, at most one for any, and none for work that no actor did, whatever timed out,
\* was repeated or failed on the way (ProxyActor._record_usage, TelemetryLedger).
THEOREM LedgerCorrect == Spec => []LedgerIsExact
<1>1. IInv => LedgerIsExact
  <2> SUFFICES ASSUME IInv PROVE LedgerIsExact
    OBVIOUS
  <2>1. EventsAreWork BY DEF IInv
  <2> QED BY <2>1 DEF EventsAreWork, LedgerIsExact, Recorded
<1> QED BY <1>1, Invariance, PTL

\* What the rollout has loaded, what clients hold and what any request names was published
\* by the trainer, at a step it has taken.
THEOREM ArtifactsWerePublished == Spec => []NamedIsPublished
<1>1. IInv => NamedIsPublished BY DEF IInv
<1> QED BY <1>1, Invariance, PTL

\* One client whose calls arrive in order never gets a sample of weights older than its
\* sampler's artifact, for any number of late, repeated and failed refreshes.
THEOREM SamplersStayFresh == Spec => []SamplersAreNotOlder
<1>1. IInv => SamplersAreNotOlder
  <2> SUFFICES ASSUME IInv, HasOneClientInOrder, NEW c \in Clients,
                      waiting[c] # 0, request[waiting[c]].op = "sample", request[waiting[c]].done
               PROVE  request[waiting[c]].artifact >= sampler[c]
    BY DEF SamplersAreNotOlder
  <2>1. waiting[c] \in RequestIds /\ sampler[c] \in MaybeArtifact
        /\ request[waiting[c]].artifact \in MaybeArtifact
    BY DEF IInv, TypeOK
  <2>2. sampler[c] <= request[waiting[c]].artifact
    BY <2>1 DEF IInv, SamplerIsOldest
  <2> QED BY <2>1, <2>2 DEF MaybeArtifact, NoArtifact
<1> QED BY <1>1, Invariance, PTL

-----------------------------------------------------------------------------
(* A client that repeats optim_step after timeouts steps the model at most once *)
(* for each call it meant, for any number of repeats.                           *)
(*                                                                              *)
(* A run of optim_step requests is a maximal one with consecutive numbers: a    *)
(* call and its repeats are in one run, so there are at most as many runs as    *)
(* calls.  Two requests that stepped have a forward_backward that was done      *)
(* between them, so they are in different runs.                                 *)

IsOptim(q) == request[q].op = "optim_step"
DoneOptim(q) == IsOptim(q) /\ request[q].done

\* The first requests of the runs, and of those that have stepped or been passed.
Starts == {q \in 1 .. next_request - 1 : IsOptim(q) /\ (q = 1 \/ ~IsOptim(q - 1))}
Used == {s \in Starts : \E m \in RequestIds : DoneOptim(m) /\ s <= m}

\* The trainer's messages are in the order of the calls, ahead of what is not yet
\* there and behind what was done.
TrainerInOrder ==
  /\ \A i, j \in DOMAIN trainer_queue : i < j => trainer_queue[i] < trainer_queue[j]
  /\ \A i \in DOMAIN trainer_queue, p \in RequestIds :
       request[p].stage = "sent" => trainer_queue[i] < p
  /\ \A p \in RequestIds : request[p].done =>
       request[p].stage \in {"executed", "recorded", "replied"}
  /\ \A p \in RequestIds : request[p].done /\ request[p].op \in TrainerOps =>
       /\ \A i \in DOMAIN trainer_queue : p < trainer_queue[i]
       /\ \A s \in RequestIds : request[s].stage = "sent" => p < s

\* A gradient is pending only if it was computed after the last step.
GradientIsNew ==
  phase[Run] = "gradients_pending" =>
    \E g \in RequestIds :
      /\ request[g].done /\ request[g].op = "forward_backward"
      /\ \A m \in RequestIds : DoneOptim(m) => m < g

RunsHaveStarts ==
  \A p \in 1 .. next_request - 1 : IsOptim(p) =>
    \E s \in Starts : s <= p /\ \A i \in s .. p : IsOptim(i)

CountsAddUp ==
  /\ \A c \in Clients :
       timed_out[c] = "optim_step" => next_request > 1 /\ IsOptim(next_request - 1)
  /\ Cardinality(Starts) <= optim_calls
  /\ steps[Run] <= Cardinality(Used)

Retries == HasOneClientInOrder /\ Backend = "megatron"

RInv == Retries => TrainerInOrder /\ GradientIsNew /\ RunsHaveStarts /\ CountsAddUp


-----------------------------------------------------------------------------
(* Steps that neither call nor train                                        *)

LEMMA Finiteness ==
  ASSUME TypeOK
  PROVE  /\ IsFiniteSet(Starts) /\ Cardinality(Starts) \in Nat
         /\ IsFiniteSet(Used) /\ Cardinality(Used) \in Nat /\ Cardinality(Used) <= Cardinality(Starts)
<1>1. next_request - 1 \in Int BY DEF TypeOK
<1>2. IsFiniteSet(1 .. next_request - 1) BY <1>1, FS_Interval
<1>3. Starts \in SUBSET (1 .. next_request - 1) BY DEF Starts
<1>4. Used \in SUBSET Starts BY DEF Used
<1>5. IsFiniteSet(Starts) BY <1>2, <1>3, FS_Subset
<1>6. IsFiniteSet(Used) /\ Cardinality(Used) <= Cardinality(Starts) BY <1>4, <1>5, FS_Subset
<1> QED BY <1>5, <1>6, FS_CardinalityType

\* Neither the calls so far nor what the trainer did of them change.
TrainingStays ==
  /\ UNCHANGED <<next_request, trainer_queue, phase, steps, optim_calls>>
  /\ \A p \in RequestIds :
       /\ request'[p].op = request[p].op
       /\ request[p].op \in TrainerOps => request'[p].done = request[p].done
       /\ request'[p].stage = "sent" => request[p].stage = "sent"
       /\ request'[p].done => request'[p].stage \in {"executed", "recorded", "replied"}

LEMMA RequestNumbers ==
  ASSUME TypeOK
  PROVE  /\ next_request \in Nat /\ next_request >= 1
         /\ \A i \in 1 .. next_request - 1 : i \in RequestIds
         /\ RequestIds \subseteq Nat
BY ScenariosAssumption DEF TypeOK, RequestIds

\* The runs stay as they are where no request is made.
LEMMA SameRuns ==
  ASSUME TypeOK, next_request' = next_request,
         \A i \in RequestIds : request'[i].op = request[i].op
  PROVE  /\ Starts' = Starts
         /\ RunsHaveStarts => RunsHaveStarts'
<1>1. \A i \in RequestIds : IsOptim(i)' <=> IsOptim(i) BY DEF IsOptim
<1>2. \A i \in 1 .. next_request - 1 : i \in RequestIds /\ i \in Nat /\ next_request \in Nat
  BY RequestNumbers
<1>3. \A i \in 1 .. next_request - 1 : i # 1 => i - 1 \in 1 .. next_request - 1 BY <1>2
<1>4. Starts' = Starts BY <1>1, <1>2, <1>3 DEF Starts
<1>5. \A s \in Starts, p \in 1 .. next_request - 1 : \A i \in s .. p : i \in RequestIds
  BY <1>2, RequestNumbers DEF Starts
<1> QED BY <1>1, <1>2, <1>4, <1>5 DEF RunsHaveStarts

LEMMA SideStep ==
  ASSUME TypeOK, RInv, ScenarioStays, TrainingStays,
         \A c \in Clients : timed_out'[c] = timed_out[c] \/
           (Retries /\ timed_out'[c] = "optim_step" => next_request > 1 /\ IsOptim(next_request - 1))
  PROVE  RInv'
<1> SUFFICES ASSUME Retries
             PROVE  (TrainerInOrder /\ GradientIsNew /\ RunsHaveStarts /\ CountsAddUp)'
  BY DEF RInv, Retries, ScenarioStays, Backend
<1>0. TrainerInOrder /\ GradientIsNew /\ RunsHaveStarts /\ CountsAddUp BY DEF RInv
<1>1. \A i \in RequestIds : IsOptim(i)' <=> IsOptim(i) BY DEF TrainingStays, IsOptim
<1>2. \A i \in RequestIds : DoneOptim(i)' <=> DoneOptim(i)
  BY DEF TrainingStays, IsOptim, DoneOptim, TrainerOps
<1>3. Starts' = Starts /\ RunsHaveStarts' BY <1>0, SameRuns DEF TrainingStays
<1>4. Used' = Used BY <1>2, <1>3 DEF Used
<1>5. TrainerInOrder'
  BY <1>0 DEF TrainerInOrder, TrainingStays
<1>6. GradientIsNew'
  BY <1>0, <1>2 DEF GradientIsNew, TrainingStays, TrainerOps
<1>8. CountsAddUp'
  <2>1. \A c \in Clients : timed_out'[c] = "optim_step" =>
          next_request' > 1 /\ IsOptim(next_request - 1)'
    <3> SUFFICES ASSUME NEW c \in Clients, timed_out'[c] = "optim_step"
                 PROVE  next_request' > 1 /\ IsOptim(next_request - 1)'
      OBVIOUS
    <3>1. next_request > 1 /\ IsOptim(next_request - 1) /\ next_request' = next_request
      BY <1>0 DEF CountsAddUp, TrainingStays
    <3>2. next_request - 1 \in RequestIds BY <3>1, RequestNumbers
    <3> QED BY <1>1, <3>1, <3>2 DEF IsOptim
  <2> QED BY <1>0, <1>3, <1>4, <2>1 DEF CountsAddUp, TrainingStays, ScenarioStays
<1> QED BY <1>3, <1>5, <1>6, <1>8

LEMMA TimeOutRetries ==
  ASSUME IInv, RInv, ScenarioStays, NEW c \in Clients, TimeOut(c)
  PROVE  RInv'
<1>1. TypeOK BY DEF IInv
<1>2. /\ waiting[c] # 0 /\ timed_out' = [timed_out EXCEPT ![c] = request[waiting[c]].op]
      /\ UNCHANGED <<next_request, request, trainer_queue, phase, steps, optim_calls>>
  BY DEF TimeOut, requests, queues, trainer
<1>3. CASE Retries
  <2>1. TrainingStays BY <1>2, <1>3 DEF TrainingStays, RInv, TrainerInOrder
  <2>2. waiting[c] = next_request - 1 BY <1>2, <1>3 DEF IInv, RolloutInOrder, Retries
  <2>3. ASSUME NEW d \in Clients, timed_out'[d] # timed_out[d], timed_out'[d] = "optim_step"
        PROVE  next_request > 1 /\ IsOptim(next_request - 1)
    <3>1. d = c /\ request[waiting[c]].op = "optim_step" BY <1>1, <1>2, <2>3 DEF TypeOK
    <3>2. next_request # 1 BY <1>2, <2>2
    <3> QED BY <1>1, <2>2, <3>1, <3>2, RequestNumbers DEF IsOptim
  <2> QED BY <1>1, <2>1, <2>3, SideStep
<1>4. CASE ~Retries
  BY <1>4 DEF RInv, Retries, ScenarioStays, Backend
<1> QED BY <1>3, <1>4

-----------------------------------------------------------------------------
(* Calls, messages and answers                                              *)

LEMMA CallRetries ==
  ASSUME IInv, RInv, ScenarioStays, NEW c \in Clients, NEW op \in Ops, Call(c, op)
  PROVE  RInv'
<1> DEFINE n == next_request
<1> SUFFICES ASSUME Retries
             PROVE  (TrainerInOrder /\ GradientIsNew /\ RunsHaveStarts /\ CountsAddUp)'
  BY DEF RInv, Retries, ScenarioStays, Backend
<1>0. /\ TrainerInOrder /\ GradientIsNew /\ RunsHaveStarts /\ CountsAddUp
      /\ TypeOK /\ QueuesHoldWork /\ \A d \in Clients : d = c
  BY DEF RInv, IInv, Retries, HasOneClientInOrder
<1>1. n \in RequestIds /\ n \in Nat /\ n >= 1
  <2>1. scenario.max_requests \in 0 .. MaxRequests BY <1>0, ScenariosAssumption DEF TypeOK
  <2> QED BY <1>0, <2>1, ScenariosAssumption DEF Call, TypeOK, RequestIds
<1>2. /\ \A p \in RequestIds : p # n => request'[p] = request[p]
      /\ request'[n].op = op /\ request'[n].stage = "sent" /\ request'[n].done = FALSE
  <2> DEFINE new == [client |-> c, op |-> op, stage |-> "sent", done |-> FALSE, ok |-> TRUE,
        artifact |-> IF op = "refresh_weights" THEN saved[c] ELSE NoArtifact]
  <2>1. request' = [request EXCEPT ![n] = new] BY DEF Call
  <2>2. new.op = op /\ new.stage = "sent" /\ new.done = FALSE OBVIOUS
  <2> HIDE DEF new
  <2> QED BY <1>0, <1>1, <2>1, <2>2 DEF TypeOK
<1>3. /\ next_request' = n + 1
      /\ UNCHANGED <<trainer_queue, phase, steps>>
      /\ \A d \in Clients : timed_out'[d] = "none"
      /\ optim_calls \in Nat /\ optim_calls' \in Nat /\ optim_calls <= optim_calls'
      /\ op = "optim_step" /\ timed_out[c] # "optim_step" => optim_calls' = optim_calls + 1
  BY <1>0 DEF Call, TypeOK, queues, trainer
<1>4. /\ request[n].stage = "unused" /\ ~request[n].done
      /\ \A p \in RequestIds : request[p].stage # "unused" => p < n
  BY <1>0, <1>1 DEF QueuesHoldWork, RequestIds, TrainerInOrder
<1>5. \A i \in DOMAIN trainer_queue : trainer_queue[i] \in RequestIds /\ trainer_queue[i] < n
  <2>1. \A s \in Seq(RequestIds) : \A i \in DOMAIN s : s[i] \in RequestIds OBVIOUS
  <2> QED BY <1>0, <1>4, <2>1 DEF TypeOK, QueuesHoldWork, WellQueued
<1>6. /\ \A i \in 1 .. n - 1 : i \in RequestIds /\ i # n /\ (IsOptim(i)' <=> IsOptim(i))
      /\ \A i : i = n => (IsOptim(i)' <=> op = "optim_step")
  <2>1. \A i \in 1 .. n - 1 : i \in RequestIds BY <1>0, RequestNumbers
  <2>2. \A i \in 1 .. n - 1 : i # n BY <1>1
  <2> QED BY <1>2, <2>1, <2>2 DEF IsOptim
<1>7. \A p \in RequestIds : DoneOptim(p)' <=> DoneOptim(p)
  BY <1>2, <1>4 DEF DoneOptim, IsOptim
<1>8. TrainerInOrder'
  <2>1. \A p \in RequestIds : request[p].done => p < n BY <1>0, <1>4 DEF TrainerInOrder
  <2> QED BY <1>0, <1>2, <1>3, <1>5, <2>1 DEF TrainerInOrder
<1>9. GradientIsNew'
  BY <1>0, <1>2, <1>3, <1>4, <1>7 DEF GradientIsNew
\* The new request starts a run, or it follows an optim_step.
<1>10. /\ Starts \subseteq Starts' /\ Starts' \subseteq Starts \cup {n}
       /\ n \notin Starts
       /\ n \in Starts' <=> op = "optim_step" /\ (n = 1 \/ ~IsOptim(n - 1))
  <2>1. \A i \in 1 .. n - 1 : i \in 1 .. n /\ i # n /\ (i # 1 => i - 1 \in 1 .. n - 1)
    BY <1>1
  <2>2. n \in 1 .. n /\ n \notin 1 .. n - 1 /\ next_request' - 1 = n
        /\ (n # 1 => n - 1 \in 1 .. n - 1) /\ \A i \in 1 .. n : i = n \/ i \in 1 .. n - 1
    BY <1>1, <1>3
  <2>3. \A i \in 1 .. n - 1 : i \in Starts' <=> i \in Starts
    BY <1>6, <2>1, <2>2 DEF Starts
  <2>4. n \in Starts' <=> op = "optim_step" /\ (n = 1 \/ ~IsOptim(n - 1))
    BY <1>6, <2>2 DEF Starts
  <2>5. Starts \subseteq 1 .. n - 1 /\ Starts' \subseteq 1 .. n BY <2>2 DEF Starts
  <2> QED BY <2>2, <2>3, <2>4, <2>5
<1>11. RunsHaveStarts'
  <2> SUFFICES ASSUME NEW p \in 1 .. n, IsOptim(p)'
               PROVE  \E s \in Starts' : s <= p /\ \A i \in s .. p : IsOptim(i)'
    BY <1>1, <1>3 DEF RunsHaveStarts
  <2>0. \A s \in Starts : s \in Nat /\ s >= 1 BY <1>1 DEF Starts
  <2>1. CASE p \in 1 .. n - 1
    <3>1. PICK s \in Starts : s <= p /\ \A i \in s .. p : IsOptim(i)
      BY <1>0, <1>6, <2>1 DEF RunsHaveStarts
    <3>2. \A i \in s .. p : i \in 1 .. n - 1 BY <1>1, <2>0, <2>1
    <3> QED BY <1>6, <1>10, <3>1, <3>2
  <2>2. CASE p = n /\ n \in Starts'
    <3>1. \A i \in n .. n : i = n BY <1>1
    <3>2. n <= n BY <1>1
    <3> QED BY <2>2, <3>1, <3>2
  <2>3. CASE p = n /\ n \notin Starts'
    <3>1. n # 1 /\ IsOptim(n - 1) BY <1>6, <1>10, <2>3
    <3>2. n - 1 \in 1 .. n - 1 BY <1>1, <3>1
    <3>3. PICK s \in Starts : s <= n - 1 /\ \A i \in s .. n - 1 : IsOptim(i)
      BY <1>0, <3>1, <3>2 DEF RunsHaveStarts
    <3>4. s <= n /\ \A i \in s .. n : i = n \/ (i \in s .. n - 1 /\ i \in 1 .. n - 1)
      BY <1>1, <2>0, <3>3
    <3> QED BY <1>6, <1>10, <2>3, <3>3, <3>4
  <2> QED BY <1>1, <2>1, <2>2, <2>3
<1>12. CountsAddUp'
  <2>1. /\ IsFiniteSet(Starts) /\ Cardinality(Starts) \in Nat /\ Cardinality(Starts) <= optim_calls
        /\ Cardinality(Used) \in Nat /\ steps[Run] <= Cardinality(Used) /\ steps[Run] \in Nat
    BY <1>0, Finiteness DEF CountsAddUp, TypeOK
  <2>2. Cardinality(Starts') <= optim_calls'
    <3>1. CASE n \in Starts'
      <4>1. timed_out[c] # "optim_step"
        BY <1>0, <1>1, <1>10, <3>1 DEF CountsAddUp
      <4>2. optim_calls' = optim_calls + 1 BY <1>3, <1>10, <3>1, <4>1
      <4>3. Starts' = Starts \cup {n} BY <1>10, <3>1
      <4>4. Cardinality(Starts') = Cardinality(Starts) + 1 BY <1>10, <2>1, <4>3, FS_AddElement
      <4> QED BY <2>1, <4>2, <4>4, <1>3
    <3>2. CASE n \notin Starts'
      <4>1. Starts' = Starts BY <1>10, <3>2
      <4> QED BY <1>3, <2>1, <4>1
    <3> QED BY <3>1, <3>2
  <2>3. Cardinality(Used) <= Cardinality(Used') /\ Cardinality(Used') \in Nat
    <3>1. Used \in SUBSET Used' BY <1>7, <1>10 DEF Used
    <3>2. IsFiniteSet(Starts \cup {n}) BY <2>1, FS_AddElement
    <3>3. Used' \in SUBSET (Starts \cup {n}) BY <1>10 DEF Used
    <3>4. IsFiniteSet(Used') BY <3>2, <3>3, FS_Subset
    <3> QED BY <3>1, <3>4, FS_Subset, FS_CardinalityType
  <2>4. steps'[Run] <= Cardinality(Used') BY <1>3, <2>1, <2>3
  <2> QED BY <1>3, <2>2, <2>4 DEF CountsAddUp, ScenarioStays
<1> QED BY <1>8, <1>9, <1>11, <1>12

LEMMA ForwardRetries ==
  ASSUME IInv, RInv, ScenarioStays, NEW q \in RequestIds, Forward(q)
  PROVE  RInv'
<1> SUFFICES ASSUME Retries
             PROVE  (TrainerInOrder /\ GradientIsNew /\ RunsHaveStarts /\ CountsAddUp)'
  BY DEF RInv, Retries, ScenarioStays, Backend
<1>0. TrainerInOrder /\ GradientIsNew /\ RunsHaveStarts /\ CountsAddUp /\ TypeOK
  BY DEF RInv, IInv
<1>1. /\ \A p \in RequestIds : p # q => request'[p] = request[p]
      /\ request'[q].op = request[q].op /\ request'[q].done = request[q].done
      /\ request'[q].stage = "queued" /\ request[q].stage = "sent" /\ ~request[q].done
  <2>1. /\ \A p \in RequestIds : p # q => request'[p] = request[p]
        /\ request'[q] = [client |-> request[q].client, op |-> request[q].op,
                          artifact |-> request[q].artifact, stage |-> "queued",
                          done |-> request[q].done, ok |-> request[q].ok]
    BY <1>0, StageSet DEF Forward, ScenarioStays, Stages
  <2>2. request[q].stage = "sent" BY DEF Forward
  <2> QED BY <1>0, <2>1, <2>2 DEF TrainerInOrder
<1>2. /\ UNCHANGED <<next_request, phase, steps, timed_out, optim_calls>>
      /\ \A p \in RequestIds : request[p].stage = "sent" => q <= p
      /\ trainer_queue' = trainer_queue \/ trainer_queue' = Append(trainer_queue, q)
  BY DEF Forward, trainer, clients, Retries, HasOneClientInOrder
<1>3. \A p \in RequestIds :
        /\ request'[p].op = request[p].op /\ request'[p].done = request[p].done
        /\ IsOptim(p)' <=> IsOptim(p)
        /\ DoneOptim(p)' <=> DoneOptim(p)
        /\ request'[p].stage = "sent" => request[p].stage = "sent" /\ q < p
  BY <1>1, <1>2 DEF IsOptim, DoneOptim, RequestIds
<1>4. Starts' = Starts /\ RunsHaveStarts' BY <1>0, <1>2, <1>3, SameRuns
<1>5. Used' = Used BY <1>3, <1>4 DEF Used
<1>6. GradientIsNew' BY <1>0, <1>2, <1>3 DEF GradientIsNew
<1>7. CountsAddUp'
  <2>1. next_request > 1 => next_request - 1 \in RequestIds BY <1>0, RequestNumbers
  <2>2. \A c \in Clients : timed_out'[c] = "optim_step" =>
          next_request' > 1 /\ IsOptim(next_request - 1)'
    BY <1>0, <1>2, <1>3, <2>1 DEF CountsAddUp, IsOptim
  <2> QED BY <1>0, <1>2, <1>4, <1>5, <2>2 DEF CountsAddUp, ScenarioStays
<1>8. TrainerInOrder'
  <2>1. \A p \in RequestIds : request'[p].done => request'[p].stage \in {"executed", "recorded", "replied"}
    BY <1>0, <1>1 DEF TrainerInOrder
  <2>2. CASE trainer_queue' = trainer_queue
    BY <1>0, <1>3, <2>1, <2>2 DEF TrainerInOrder
  <2>3. CASE trainer_queue' = Append(trainer_queue, q)
    <3>1. /\ DOMAIN trainer_queue' = DOMAIN trainer_queue \cup {Len(trainer_queue) + 1}
          /\ DOMAIN trainer_queue = 1 .. Len(trainer_queue) /\ Len(trainer_queue) \in Nat
          /\ \A i \in DOMAIN trainer_queue : trainer_queue'[i] = trainer_queue[i]
          /\ trainer_queue'[Len(trainer_queue) + 1] = q
      BY <1>0, <2>3, EndOfQueue DEF TypeOK
    <3>2. \A i \in DOMAIN trainer_queue : trainer_queue[i] < q
      BY <1>0, <1>1 DEF TrainerInOrder
    <3>3. \A i, j \in DOMAIN trainer_queue' : i < j => trainer_queue'[i] < trainer_queue'[j]
      BY <1>0, <3>1, <3>2 DEF TrainerInOrder
    <3>4. \A i \in DOMAIN trainer_queue', p \in RequestIds :
            request'[p].stage = "sent" => trainer_queue'[i] < p
      BY <1>0, <1>3, <3>1 DEF TrainerInOrder
    <3>5. \A p \in RequestIds : request'[p].done /\ request'[p].op \in TrainerOps =>
            /\ \A i \in DOMAIN trainer_queue' : p < trainer_queue'[i]
            /\ \A s \in RequestIds : request'[s].stage = "sent" => p < s
      BY <1>0, <1>1, <1>3, <3>1 DEF TrainerInOrder
    <3> QED BY <2>1, <3>3, <3>4, <3>5 DEF TrainerInOrder
  <2> QED BY <1>2, <2>2, <2>3
<1> QED BY <1>4, <1>6, <1>7, <1>8

LEMMA TrainerRetries ==
  ASSUME IInv, RInv, ScenarioStays, NEW q \in RequestIds, NEW op \in TrainerOps, NEW d \in BOOLEAN,
         NEW a \in MaybeArtifact, TrainerMoves(q, op, d, a)
  PROVE  RInv'
<1> SUFFICES ASSUME Retries
             PROVE  (TrainerInOrder /\ GradientIsNew /\ RunsHaveStarts /\ CountsAddUp)'
  BY DEF RInv, Retries, ScenarioStays, Backend
<1>0. /\ TrainerInOrder /\ GradientIsNew /\ RunsHaveStarts /\ CountsAddUp
      /\ TypeOK /\ QueuesHoldWork
  BY DEF RInv, IInv
<1>1. TrainerTakes(q, op) /\ Answer(q, d, a) /\ StatusChanges(op, d) BY Zenon DEF TrainerMoves
<1>2. /\ trainer_queue # <<>> /\ q = Head(trainer_queue) /\ request[q].op = op
      /\ trainer_queue' = Tail(trainer_queue)
      /\ UNCHANGED <<next_request, timed_out, optim_calls>>
  BY <1>1 DEF TrainerTakes, clients
<1>3. /\ \A p \in RequestIds : p # q => request'[p] = request[p]
      /\ request'[q].op = op /\ request'[q].stage = "executed" /\ request'[q].done = d
  <2>1. /\ \A p \in RequestIds : p # q => request'[p] = request[p]
        /\ request'[q] = [client |-> request[q].client, op |-> request[q].op, artifact |-> a,
                          stage |-> "executed", done |-> d, ok |-> d]
    BY <1>0, <1>1, AnswerSet
  <2> QED BY <1>2, <2>1
<1> DEFINE t == trainer_queue'
<1>4. /\ q = trainer_queue[1] /\ 1 \in DOMAIN trainer_queue
      /\ \A i \in DOMAIN t : /\ i \in Nat /\ i >= 1 /\ i + 1 \in DOMAIN trainer_queue
                             /\ t[i] = trainer_queue[i + 1]
  BY <1>0, <1>2, TailOfQueue DEF TypeOK
<1>5. request[q].stage = "queued" /\ ~request[q].done
  BY <1>0, <1>4 DEF QueuesHoldWork, WellQueued, TrainerInOrder
<1>6. /\ \A i \in DOMAIN t : q < t[i]
      /\ \A p \in RequestIds : request[p].stage = "sent" => q < p
      /\ \A p \in RequestIds : request[p].done /\ request[p].op \in TrainerOps => p < q
  BY <1>0, <1>4 DEF TrainerInOrder
<1>7. TrainerInOrder'
  <2>1. \A i, j \in DOMAIN t : i < j => t[i] < t[j]
    <3> SUFFICES ASSUME NEW i \in DOMAIN t, NEW j \in DOMAIN t, i < j PROVE t[i] < t[j]
      OBVIOUS
    <3>1. i + 1 < j + 1 BY <1>4
    <3> QED BY <1>0, <1>4, <3>1 DEF TrainerInOrder
  <2>2. \A i \in DOMAIN t, p \in RequestIds : request'[p].stage = "sent" => t[i] < p
    BY <1>0, <1>3, <1>4 DEF TrainerInOrder
  <2>3. \A p \in RequestIds :
          request'[p].done => request'[p].stage \in {"executed", "recorded", "replied"}
    BY <1>0, <1>3 DEF TrainerInOrder
  <2>4. ASSUME NEW p \in RequestIds, request'[p].done, request'[p].op \in TrainerOps
        PROVE  /\ \A i \in DOMAIN t : p < t[i]
               /\ \A s \in RequestIds : request'[s].stage = "sent" => p < s
    BY <1>0, <1>3, <1>4, <1>6, <2>4 DEF TrainerInOrder
  <2> QED BY <2>1, <2>2, <2>3, <2>4 DEF TrainerInOrder
<1>8. \A p \in RequestIds :
        /\ request'[p].op = request[p].op
        /\ IsOptim(p)' <=> IsOptim(p)
        /\ DoneOptim(p)' <=> DoneOptim(p) \/ (p = q /\ d /\ op = "optim_step")
  BY <1>2, <1>3, <1>5 DEF IsOptim, DoneOptim
<1>9. Starts' = Starts /\ RunsHaveStarts' BY <1>0, <1>2, <1>8, SameRuns
<1>10. /\ d /\ op = "optim_step" =>
            /\ phase[Run] = "gradients_pending" /\ phase'[Run] # "gradients_pending"
            /\ steps'[Run] = steps[Run] + 1
       /\ ~d \/ op # "optim_step" => steps'[Run] = steps[Run]
       /\ ~d \/ op # "forward_backward" =>
            (phase'[Run] = "gradients_pending" => phase[Run] = "gradients_pending")
  BY <1>1 DEF StatusChanges, Retries
<1>11. GradientIsNew'
  <2>1. CASE d /\ op = "forward_backward"
    <3>1. \A m \in RequestIds : DoneOptim(m)' => m < q
      BY <1>6, <1>8, <2>1 DEF DoneOptim, IsOptim, TrainerOps
    <3> QED BY <1>3, <2>1, <3>1 DEF GradientIsNew
  <2>2. CASE ~(d /\ op = "forward_backward") /\ phase'[Run] = "gradients_pending"
    <3>1. phase[Run] = "gradients_pending" /\ ~(d /\ op = "optim_step") BY <1>10, <2>2
    <3>2. PICK g \in RequestIds :
            /\ request[g].done /\ request[g].op = "forward_backward"
            /\ \A m \in RequestIds : DoneOptim(m) => m < g
      BY <1>0, <3>1 DEF GradientIsNew
    <3>3. request'[g] = request[g] BY <1>3, <1>5, <3>2
    <3>4. \A m \in RequestIds : DoneOptim(m)' => m < g BY <1>8, <3>1, <3>2
    <3> QED BY <3>2, <3>3, <3>4 DEF GradientIsNew
  <2> QED BY <2>1, <2>2 DEF GradientIsNew
\* A step is the first of its run.
<1>12. steps'[Run] <= Cardinality(Used')
  <2>1. /\ IsFiniteSet(Starts) /\ IsFiniteSet(Used) /\ Cardinality(Used) \in Nat
        /\ steps[Run] \in Nat /\ steps[Run] <= Cardinality(Used)
    BY <1>0, Finiteness DEF CountsAddUp, TypeOK
  <2>2. CASE ~(d /\ op = "optim_step")
    <3>1. Used' = Used BY <1>8, <1>9, <2>2 DEF Used
    <3> QED BY <1>10, <2>1, <2>2, <3>1
  <2>3. CASE d /\ op = "optim_step"
    <3>1. PICK g \in RequestIds :
            /\ request[g].done /\ request[g].op = "forward_backward"
            /\ \A m \in RequestIds : DoneOptim(m) => m < g
      BY <1>0, <1>10, <2>3 DEF GradientIsNew
    <3>2. g < q BY <1>6, <3>1 DEF TrainerOps
    <3>3. q \in 1 .. next_request - 1 /\ IsOptim(q)
      BY <1>0, <1>2, <1>5, <2>3, RequestNumbers DEF QueuesHoldWork, IsOptim, RequestIds
    <3>4. PICK s \in Starts : s <= q /\ \A i \in s .. q : IsOptim(i)
      BY <1>0, <3>3 DEF RunsHaveStarts
    <3>5. s \in Nat /\ g \in Nat /\ q \in Nat /\ s \in RequestIds
      BY <1>0, RequestNumbers DEF Starts
    <3>6. g < s
      <4>1. g \notin s .. q BY <3>1, <3>4 DEF IsOptim
      <4> QED BY <3>2, <3>5, <4>1
    <3>7. s \notin Used
      <4>1. \A m \in RequestIds : DoneOptim(m) => m \in Nat /\ m < s
        BY <1>0, <3>1, <3>5, <3>6, RequestNumbers
      <4> QED BY <3>5, <4>1 DEF Used
    <3>8. Used \cup {s} \in SUBSET Used' /\ Used' \in SUBSET Starts
      BY <1>8, <1>9, <2>3, <3>4 DEF Used
    <3>9. Cardinality(Used \cup {s}) = Cardinality(Used) + 1 BY <2>1, <3>7, FS_AddElement
    <3>10. IsFiniteSet(Used') BY <2>1, <3>8, FS_Subset
    <3>11. Cardinality(Used \cup {s}) <= Cardinality(Used') /\ Cardinality(Used') \in Nat
      BY <3>8, <3>10, FS_Subset, FS_CardinalityType
    <3> QED BY <1>10, <2>1, <2>3, <3>9, <3>11
  <2> QED BY <2>2, <2>3
<1>13. CountsAddUp'
  <2>1. next_request > 1 => next_request - 1 \in RequestIds BY <1>0, RequestNumbers
  <2>2. \A c \in Clients : timed_out'[c] = "optim_step" =>
          next_request' > 1 /\ IsOptim(next_request - 1)'
    BY <1>0, <1>2, <1>8, <2>1 DEF CountsAddUp, IsOptim
  <2> QED BY <1>0, <1>2, <1>9, <1>12, <2>2 DEF CountsAddUp, ScenarioStays
<1> QED BY <1>7, <1>9, <1>11, <1>13

\* The rollout, the telemetry and the replies leave the training alone.
LEMMA OthersRetry ==
  ASSUME IInv, RInv, ScenarioStays, NEW q \in RequestIds,
         \/ \E op \in RolloutOps, d \in BOOLEAN, a \in MaybeArtifact : RolloutMoves(q, op, d, a)
         \/ Telemetry(q)
         \/ ReplyInTime(q) \/ ReplyTooLate(q)
  PROVE  RInv'
<1>1. TypeOK BY DEF IInv
<1>2. CASE ~Retries
  BY <1>2 DEF RInv, Retries, ScenarioStays, Backend
<1>3. ASSUME Retries,
             UNCHANGED <<next_request, trainer_queue, phase, steps, timed_out, optim_calls>>,
             \A p \in RequestIds : p # q => request'[p] = request[p],
             request'[q].op = request[q].op,
             request[q].op \in TrainerOps => request'[q].done = request[q].done,
             request'[q].stage \in {"executed", "recorded", "replied"}
      PROVE  RInv'
  <2>1. TrainerInOrder BY <1>3 DEF RInv
  <2>2. TrainingStays BY <1>3, <2>1 DEF TrainingStays, TrainerInOrder
  <2>3. timed_out' = timed_out BY <1>3
  <2> QED BY <1>1, <2>2, <2>3, SideStep
<1>4. ASSUME Retries, NEW op \in RolloutOps, NEW d \in BOOLEAN, NEW a \in MaybeArtifact,
             RolloutMoves(q, op, d, a)
      PROVE  RInv'
  <2>1. RolloutTakes(q, op) /\ Answer(q, d, a) BY <1>4, Zenon DEF RolloutMoves
  <2>2. /\ \A p \in RequestIds : p # q => request'[p] = request[p]
        /\ request'[q] = [client |-> request[q].client, op |-> request[q].op, artifact |-> a,
                          stage |-> "executed", done |-> d, ok |-> d]
    BY <1>1, <2>1, AnswerSet
  <2>3. request'[q].op = request[q].op /\ request'[q].stage = "executed" BY <2>2
  <2>4. /\ UNCHANGED <<next_request, trainer_queue, phase, steps, timed_out, optim_calls>>
        /\ request[q].op \notin TrainerOps
    BY <2>1 DEF RolloutTakes, trainer, clients, RolloutOps, TrainerOps
  <2> QED BY <1>3, <1>4, <2>2, <2>3, <2>4
<1>5. ASSUME Retries, Telemetry(q) PROVE RInv'
  <2>1. UNCHANGED <<next_request, trainer_queue, phase, steps, timed_out, optim_calls>>
    BY <1>5 DEF Telemetry, Record, RecordFails, queues, trainer, clients
  <2>2. /\ \A p \in RequestIds : p # q => request'[p] = request[p]
        /\ request'[q].op = request[q].op /\ request'[q].done = request[q].done
        /\ request'[q].stage = "recorded"
    <3>1. request \in [RequestIds -> Requests] BY <1>1 DEF TypeOK, Requests
    <3>2. CASE request' = [request EXCEPT ![q].stage = "recorded"]
      BY <3>1, <3>2 DEF Requests
    <3>3. CASE request' = [request EXCEPT ![q].stage = "recorded", ![q].ok = FALSE]
      <4> DEFINE f == [request EXCEPT ![q].stage = "recorded"]
      <4>1. /\ f \in [RequestIds -> Requests]
            /\ \A p \in RequestIds : p # q => f[p] = request[p]
            /\ f[q].op = request[q].op /\ f[q].done = request[q].done /\ f[q].stage = "recorded"
        BY <3>1 DEF Requests, Stages
      <4>2. request' = [f EXCEPT ![q].ok = FALSE] BY <3>3
      <4> HIDE DEF f
      <4> QED BY <4>1, <4>2 DEF Requests
    <3> QED BY <1>5, <3>2, <3>3 DEF Telemetry, Record, RecordFails
  <2> QED BY <1>3, <1>5, <2>1, <2>2
<1>6. ASSUME Retries, ReplyInTime(q) \/ ReplyTooLate(q) PROVE RInv'
  <2>1. /\ UNCHANGED <<next_request, trainer_queue, phase, steps, timed_out, optim_calls>>
        /\ request' = [request EXCEPT ![q].stage = "replied"]
    BY <1>6 DEF ReplyInTime, ReplyTooLate, Reply, queues, trainer
  <2>2. /\ \A p \in RequestIds : p # q => request'[p] = request[p]
        /\ request'[q].op = request[q].op /\ request'[q].done = request[q].done
        /\ request'[q].stage = "replied"
    BY <1>1, <2>1 DEF TypeOK
  <2> QED BY <1>3, <1>6, <2>1, <2>2
<1> QED BY <1>2, <1>4, <1>5, <1>6

-----------------------------------------------------------------------------
LEMMA InitRInv == Init => RInv
<1> SUFFICES ASSUME Init PROVE TrainerInOrder /\ GradientIsNew /\ RunsHaveStarts /\ CountsAddUp
  BY DEF RInv
<1>1. \A q \in RequestIds : request[q].stage = "unused" /\ ~request[q].done BY DEF Init
<1>2. TrainerInOrder BY <1>1 DEF Init, TrainerInOrder
<1>3. GradientIsNew BY DEF Init, GradientIsNew
<1>4. Starts = {} BY DEF Init, Starts
<1>5. RunsHaveStarts BY DEF Init, RunsHaveStarts
<1>6. Used = {} BY <1>4 DEF Used
<1>7. Cardinality({}) = 0 BY FS_EmptySet
<1>8. CountsAddUp BY <1>4, <1>6, <1>7 DEF Init, CountsAddUp
<1> QED BY <1>2, <1>3, <1>5, <1>8

LEMMA StepRInv == ASSUME IInv, RInv, [Next]_vars PROVE RInv'
<1>0. ScenarioStays BY ScenarioIsFixed DEF ScenarioStays
<1>1. ASSUME NEW c \in Clients, TimeOut(c) PROVE RInv' BY <1>0, <1>1, TimeOutRetries
<1>2. ASSUME NEW c \in Clients, NEW op \in Ops, Call(c, op) PROVE RInv' BY <1>0, <1>2, CallRetries
<1>3. ASSUME NEW q \in RequestIds, Forward(q) PROVE RInv' BY <1>0, <1>3, ForwardRetries
<1>4. ASSUME NEW q \in RequestIds, Execute(q) PROVE RInv'
  <2>1. TypeOK BY DEF IInv
  <2>2. CASE \/ ForwardBackward(q) \/ OptimStep(q) \/ SaveWeights(q)
             \/ \E op \in TrainerOps : Refuse(q, op) \/ TrainerFails(q, op)
    <3>1. PICK op \in TrainerOps, d \in BOOLEAN, a \in MaybeArtifact : TrainerMoves(q, op, d, a)
      BY <2>1, <2>2, TrainerStep
    <3> QED BY <1>0, <3>1, TrainerRetries
  <2>3. CASE RefreshWeights(q) \/ Sample(q) \/ \E op \in RolloutOps : RolloutFails(q, op)
    <3>1. \E op \in RolloutOps, d \in BOOLEAN, a \in MaybeArtifact : RolloutMoves(q, op, d, a)
      BY <2>1, <2>3, RolloutStep
    <3> QED BY <1>0, <3>1, OthersRetry
  <2> QED BY <1>4, <2>2, <2>3 DEF Execute
<1>5. ASSUME NEW q \in RequestIds, Telemetry(q) PROVE RInv' BY <1>0, <1>5, OthersRetry
<1>6. ASSUME NEW q \in RequestIds, ReplyInTime(q) \/ ReplyTooLate(q) PROVE RInv'
  BY <1>0, <1>6, OthersRetry
<1>7. CASE UNCHANGED vars
  BY <1>7 DEF vars, requests, queues, trainer, clients, RInv, Retries, TrainerInOrder, GradientIsNew,
     RunsHaveStarts, CountsAddUp, Starts, Used, IsOptim, DoneOptim, HasOneClientInOrder, InOrder,
     Clients, Backend
<1> QED BY <1>1, <1>2, <1>3, <1>4, <1>5, <1>6, <1>7 DEF Next, ActorsMove

\* However often one client repeats an optim_step that timed out, the Megatron trainer has
\* taken at most one step for each call that did not repeat another (ProxyActor.optim_step
\* runs on after its client gave up; MegatronTrainingBackend.optim_step checks the status).
THEOREM RetriesAreSafe == Spec => []RetriesStepOnce
<1>1. IInv /\ RInv => RetriesStepOnce
  <2> SUFFICES ASSUME IInv, RInv, Retries PROVE steps[Run] <= optim_calls
    BY DEF RetriesStepOnce, Retries
  <2>1. TypeOK /\ CountsAddUp BY DEF IInv, RInv
  <2> QED BY <2>1, Finiteness DEF CountsAddUp, TypeOK
<1>2. Init => RInv BY InitRInv
<1>3. IInv /\ RInv /\ [Next]_vars => RInv' BY StepRInv
<1> QED BY <1>1, <1>2, <1>3, Invariance, PTL DEF Spec
=============================================================================
