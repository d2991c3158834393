--------------------------- MODULE ClusteredSFTProofs ---------------------------
(***************************************************************************)
(* Proofs about ClusteredSFT, for every number of nodes, GPUs and steps,   *)
(* every parallel layout and every data set: rank 0 publishes when all     *)
(* ranks are through, the answer of the call is authoritative and final, a *)
(* sound job fails only for a fault from outside, every step trains its    *)
(* global batch, whose datums are those the losses count, and datums train *)
(* their completions.                                                      *)
(*                                                                         *)
(* A rank that is past a barrier has seen every rank enter it.  What a     *)
(* rank has done before it entered a collective it has done for good.      *)
(***************************************************************************)
EXTENDS ClusteredSFT, FiniteSetTheorems, SequenceTheorems, NaturalsInduction, WellFoundedInduction, TLAPS

SavingStages == {"train_barrier", "export", "adapter_barrier", "store", "saved_barrier"}

\* The last barriers, as their occasions are recorded.
AdapterBarrier == <<"adapter_barrier", job.steps>>

\* The writer's export, once done, is there to see on node 0.
HasExported(r) ==
  /\ <<"export", job.steps>> \in entered[r]
  /\ r = job.writer /\ NodeOf(r) = 0 => adapter

\* How many steps a rank has taken, and what it has done, where it is.
StageIsRight(r) ==
  /\ at[r] \in {"unstarted", "init", "load", "gather", "all_reduce"} => step[r] = 0
  /\ at[r] = "unstarted" => entered[r] = {}
  /\ at[r] = "load" => job.mode \in {"qwen-lora-sft", "hf-ddp-baseline"}
  /\ at[r] \in {"gather", "all_reduce"} => ~Saves
  /\ at[r] \in {"forward_backward", "optim_step"} => Saves /\ step[r] < job.steps
  /\ at[r] = "average" => Saves /\ step[r] > 0
  /\ at[r] = "train_step" => ~Saves /\ step[r] < job.steps
  /\ at[r] \in SavingStages => Saves /\ step[r] = job.steps
  /\ at[r] \in {"result", "close", "done"} /\ Saves => step[r] = job.steps
  /\ at[r] = "end_barrier" => ~Saves
  /\ at[r] \in {"adapter_barrier", "store", "saved_barrier"} => HasExported(r)
  /\ at[r] = "saved_barrier" => stored[r]

\* What a rank that once entered one of the last barriers has done.
EnteredAfterwards(r) ==
  \A o \in entered[r] :
    /\ o[1] = "adapter_barrier" => o[2] = job.steps /\ step[r] = job.steps /\ HasExported(r)
    /\ o[1] = "saved_barrier" => stored[r]
    /\ o[1] = "end_barrier" =>
         o[2] = step[r] /\ at[r] \in {"end_barrier", "close", "done"} \cup Lost

\* What the others have entered, or done, when a rank is past a barrier.
PassedTogether(r) ==
  /\ at[r] \in {"store", "saved_barrier"} => \A q \in Ranks : AdapterBarrier \in entered[q]
  /\ stored[r] => Saves /\ \A q \in Ranks : AdapterBarrier \in entered[q]
  /\ at[r] \in {"result", "close", "done"} /\ Saves => \A q \in Ranks : stored[q]
  /\ at[r] \in {"close", "done"} /\ ~Saves =>
       \A q \in Ranks : \E s \in 0 .. job.steps : <<"end_barrier", s>> \in entered[q]

RanksAreRight ==
  \A r \in Ranks : StageIsRight(r) /\ EnteredAfterwards(r) /\ PassedTogether(r)

\* Rank 0 has a loss for each step, and a result before the last barrier.
RankZeroIsRight ==
  /\ \E S : losses \in Seq(S)
  /\ Saves /\ at[0] \notin Lost =>
       Len(losses) = IF at[0] = "average" THEN step[0] - 1 ELSE step[0]
  /\ at[0] \in {"end_barrier", "close", "done"} => result

\* The adapter and rank 0's word about it.
PayloadIsRight ==
  /\ adapter => NodeOf(job.writer) = 0
  /\ stored[0] => (payload <=> NodeOf(job.writer) = 0)

\* A container starts its ranks once; container 0 answers after rank 0 is done.
NodesAreRight ==
  /\ launcher # "called" => \A n \in Nodes : node[n] = "called"
  /\ \A n \in Nodes : node[n] = "called" => \A r \in RanksOf(n) : at[r] = "unstarted"
  /\ node[0] \in {"finished", "committed", "returned"} => at[0] = "done"
  /\ node[0] \in {"committed", "returned"} => committed
  /\ node[0] = "returned" => result

\* A rank trains once a step, on the batches that the layout deals it, and averages
\* its loss with the others' after it has trained.
TrainedIsRight(r) ==
  /\ at[r] = "unstarted" => trained[r] = <<>>
  /\ at[r] # "unstarted" => IsConfig(job)
  /\ Saves /\ at[r] \notin Lost =>
       Len(trained[r]) = IF at[r] = "optim_step" THEN step[r] + 1 ELSE step[r]
  /\ at[r] \in {"forward_backward", "optim_step", "average"} => batches.ok
  /\ \A o \in entered[r] : o[1] = "average" => o[2] \in 1 .. Len(trained[r])
  /\ \A s \in 0 .. Len(trained[r]) - 1 : trained[r][s + 1] = LocalBatches(r, s)

DataIsRight ==
  /\ \E S : trained \in [Ranks -> Seq(S)]
  /\ \A r \in Ranks : TrainedIsRight(r)

\* A datum trains its completion and the end of text, and nothing else.
Trains(datum) ==
  \A i \in DOMAIN datum.target :
    datum.weights[i] > 0 <=> datum.target[i][1] \in {"completion", "eos"}

\* What the ranks read, if they can read it: batches, of such datums.
HaveTrainingData(read) ==
  /\ read.ok => /\ Len(read.value) \in Nat \ {0}
                /\ \A b \in 1 .. Len(read.value) : Len(read.value[b]) \in Nat \ {0}
  /\ \A b \in DOMAIN read.value : \A d \in DOMAIN read.value[b] : Trains(read.value[b][d])

\* Rank 0's losses are those of the steps, and it has none before it starts.
LossesAreRight ==
  /\ LossIsTheMeanOfTheStep
  /\ at[0] = "unstarted" => losses = <<>>

BatchesAreRight == dataset \in Seq(FileLines) /\ HaveTrainingData(batches)

IInv ==
  /\ TypeOK
  /\ RanksAreRight
  /\ RankZeroIsRight
  /\ PayloadIsRight
  /\ NodesAreRight
  /\ SoundJobsDoNotFail
  /\ BatchesAreRight
  /\ DataIsRight
  /\ LossesAreRight

-----------------------------------------------------------------------------
(* Induction                                                                *)

\* A set of natural numbers with 0 that is closed under adding 1 has them all.
LEMMA NatSet ==
  ASSUME NEW S \in SUBSET Nat, 0 \in S, \A n \in S : n + 1 \in S
  PROVE  S = Nat
<1> SUFFICES ASSUME Nat \ S # {} PROVE FALSE OBVIOUS
<1> DEFINE T == Nat \ S
           R == OpToRel(<, Nat)
<1>1. T \subseteq Nat /\ T # {} OBVIOUS
<1>2. IsWellFoundedOn(R, Nat) BY NatLessThanWellFounded
<1>3. \A x, y \in Nat : x < y => <<x, y>> \in R BY DEF OpToRel
<1> HIDE DEF R
<1>4. PICK x \in T : \A y \in T : ~(<<y, x>> \in R) BY <1>1, <1>2, WFMin
<1>5. x # 0 /\ x - 1 \in Nat /\ x - 1 < x OBVIOUS
<1>6. x - 1 \notin T BY <1>3, <1>4, <1>5
<1> QED BY <1>5, <1>6

-----------------------------------------------------------------------------
(* The data                                                                 *)

\* What putting sequences one after the other goes through.
LEMMA Flattening ==
  ASSUME NEW S, NEW ss \in Seq(Seq(S)), Len(ss) # 0
  PROVE  \E flat : /\ FlattenSeq(ss) = flat[Len(ss)] /\ flat[1] = ss[1]
                   /\ \A i \in 2 .. Len(ss) : flat[i] = flat[i - 1] \o ss[i]
<1> DEFINE n == Len(ss)
           Step(g, i) == IF i = 1 THEN ss[i] ELSE g[i - 1] \o ss[i]
           IsFlat(g) == g = [i \in 1 .. n |-> Step(g, i)]
           flat == CHOOSE g : IsFlat(g)
<1>1. n \in Nat \ {0} /\ \A i \in 1 .. n : ss[i] \in Seq(S) OBVIOUS
<1>2. FlattenSeq(ss) = flat[n] BY <1>1 DEF FlattenSeq
<1>3. \E g : IsFlat(g)
  <2> DEFINE Reached == {k \in Nat : k <= n =>
                           \E g \in [1 .. k -> Seq(S)] : \A i \in 1 .. k : g[i] = Step(g, i)}
  <2>1. 0 \in Reached
    <3> DEFINE g == [i \in {} |-> <<>>]
    <3>1. g \in [1 .. 0 -> Seq(S)] /\ \A i \in 1 .. 0 : g[i] = Step(g, i) OBVIOUS
    <3> QED BY <3>1
  <2>2. ASSUME NEW k \in Reached PROVE k + 1 \in Reached
    <3> SUFFICES ASSUME k + 1 <= n
                 PROVE  \E h \in [1 .. k + 1 -> Seq(S)] : \A i \in 1 .. k + 1 : h[i] = Step(h, i)
      <4> HIDE DEF Step
      <4>1. k + 1 \in Nat OBVIOUS
      <4> QED BY <4>1
    <3>1. k \in Nat /\ k <= n BY <1>1
    <3>2. PICK g \in [1 .. k -> Seq(S)] : \A i \in 1 .. k : g[i] = Step(g, i) BY <3>1
    <3> DEFINE last == Step(g, k + 1)
               h == [i \in 1 .. k + 1 |-> IF i = k + 1 THEN last ELSE g[i]]
    <3>3. last \in Seq(S)
      <4>1. ss[k + 1] \in Seq(S) BY <1>1, <3>1
      <4>2. k # 0 => g[k] \in Seq(S) BY <3>1
      <4>3. k # 0 => g[k] \o ss[k + 1] \in Seq(S) BY <4>1, <4>2
      <4> QED BY <3>1, <4>1, <4>3
    <3>4. h \in [1 .. k + 1 -> Seq(S)] BY <3>1, <3>3
    <3>5. ASSUME NEW i \in 1 .. k + 1 PROVE h[i] = Step(h, i)
      <4>1. CASE i = k + 1
        <5>1. k # 0 => h[k] = g[k] BY <3>1
        <5> QED BY <3>1, <4>1, <5>1
      <4>2. CASE i # k + 1
        <5>1. i \in 1 .. k /\ h[i] = g[i] BY <3>1, <4>2
        <5>2. i # 1 => i - 1 \in 1 .. k /\ h[i - 1] = g[i - 1] BY <3>1, <5>1
        <5> QED BY <3>2, <5>1, <5>2
      <4> QED BY <4>1, <4>2
    <3> HIDE DEF h
    <3> QED BY <3>4, <3>5
  <2> HIDE DEF Reached
  <2>3. Reached = Nat
    <3>1. Reached \in SUBSET Nat BY DEF Reached
    <3> QED BY <2>1, <2>2, <3>1, NatSet
  <2>4. \E g \in [1 .. n -> Seq(S)] : \A i \in 1 .. n : g[i] = Step(g, i)
    <3>1. n \in Reached BY <1>1, <2>3
    <3> HIDE DEF n, Step
    <3>2. n <= n BY <1>1
    <3> QED BY <3>1, <3>2 DEF Reached
  <2> PICK g \in [1 .. n -> Seq(S)] : \A i \in 1 .. n : g[i] = Step(g, i) BY <2>4
  <2>5. IsFlat(g) OBVIOUS
  <2> QED BY <2>5
<1>4. flat = [i \in 1 .. n |-> Step(flat, i)] BY <1>3
<1> HIDE DEF flat
<1>5. flat[1] = ss[1] BY <1>1, <1>4
<1>6. ASSUME NEW i \in 2 .. n PROVE flat[i] = flat[i - 1] \o ss[i]
  <2>1. i \in 1 .. n /\ i # 1 BY <1>1
  <2> QED BY <1>4, <2>1
<1> QED BY <1>2, <1>5, <1>6

\* Sequences of elements of S, one after the other, are a sequence of elements of S.
LEMMA Flattened ==
  ASSUME NEW S, NEW ss \in Seq(Seq(S))
  PROVE  FlattenSeq(ss) \in Seq(S)
<1> DEFINE n == Len(ss)
<1>1. n \in Nat /\ \A i \in 1 .. n : ss[i] \in Seq(S) OBVIOUS
<1>2. CASE n = 0
  <2>1. ss = <<>> BY <1>2
  <2> QED BY <2>1 DEF FlattenSeq
<1>3. CASE n # 0
  <2>1. PICK flat : /\ FlattenSeq(ss) = flat[n] /\ flat[1] = ss[1]
                    /\ \A i \in 2 .. n : flat[i] = flat[i - 1] \o ss[i]
    BY <1>3, Flattening
  <2> DEFINE Done == {k \in Nat : k + 1 <= n => flat[k + 1] \in Seq(S)}
  <2>2. 0 \in Done BY <1>1, <1>3, <2>1
  <2>3. ASSUME NEW k \in Done PROVE k + 1 \in Done
    <3> SUFFICES ASSUME k + 2 <= n PROVE flat[k + 2] \in Seq(S) OBVIOUS
    <3>1. k \in Nat /\ k + 1 <= n /\ k + 2 \in 2 .. n /\ (k + 2) - 1 = k + 1 BY <1>1
    <3>2. flat[k + 1] \in Seq(S) /\ ss[k + 2] \in Seq(S) BY <1>1, <3>1
    <3>3. flat[k + 2] = flat[k + 1] \o ss[k + 2] BY <2>1, <3>1
    <3> QED BY <3>2, <3>3
  <2> HIDE DEF Done
  <2>4. Done = Nat
    <3>1. Done \in SUBSET Nat BY DEF Done
    <3> QED BY <2>2, <2>3, <3>1, NatSet
  <2>5. n - 1 \in Done /\ (n - 1) + 1 = n BY <1>1, <1>3, <2>4
  <2>6. flat[n] \in Seq(S) BY <2>5 DEF Done
  <2> QED BY <2>1, <2>6
<1> QED BY <1>2, <1>3

\* Sequences one after the other are h at the end if h is what they go through.
LEMMA FlatIs ==
  ASSUME NEW S, NEW ss \in Seq(Seq(S)), Len(ss) # 0, NEW h,
         h[1] = ss[1], \A i \in 2 .. Len(ss) : h[i] = h[i - 1] \o ss[i]
  PROVE  FlattenSeq(ss) = h[Len(ss)]
<1> DEFINE n == Len(ss)
<1>1. n \in Nat \ {0} OBVIOUS
<1>2. PICK flat : /\ FlattenSeq(ss) = flat[n] /\ flat[1] = ss[1]
                  /\ \A i \in 2 .. n : flat[i] = flat[i - 1] \o ss[i]
  BY Flattening
<1> DEFINE Done == {k \in Nat : k + 1 <= n => flat[k + 1] = h[k + 1]}
<1>3. 0 \in Done BY <1>2
<1>4. ASSUME NEW k \in Done PROVE k + 1 \in Done
  <2> SUFFICES ASSUME k + 2 <= n PROVE flat[k + 2] = h[k + 2] OBVIOUS
  <2>1. k \in Nat /\ k + 1 <= n /\ k + 2 \in 2 .. n /\ (k + 2) - 1 = k + 1 BY <1>1
  <2>2. flat[k + 1] = h[k + 1] BY <2>1
  <2>3. flat[k + 2] = flat[k + 1] \o ss[k + 2] BY <1>2, <2>1
  <2>4. h[k + 2] = h[k + 1] \o ss[k + 2] BY <2>1
  <2> QED BY <2>2, <2>3, <2>4
<1> HIDE DEF Done
<1>5. Done = Nat
  <2>1. Done \in SUBSET Nat BY DEF Done
  <2> QED BY <1>3, <1>4, <2>1, NatSet
<1>6. n - 1 \in Done /\ (n - 1) + 1 = n BY <1>1, <1>5
<1>7. flat[n] = h[n] BY <1>6 DEF Done
<1> QED BY <1>2, <1>7

\* Where the parts of flat start, those of ss up to part n, one after the other.
AreStarts(start, flat, ss, n) ==
  /\ \A m \in 1 .. n : start[m] \in Nat /\ start[m] + Len(ss[m]) <= Len(flat)
  /\ \A m \in 1 .. n : \A i \in 1 .. Len(ss[m]) : flat[start[m] + i] = ss[m][i]
  /\ \A p \in 1 .. Len(flat) : \E m \in 1 .. n : \E i \in 1 .. Len(ss[m]) : p = start[m] + i
  /\ \A m, k \in 1 .. n : m < k => start[m] + Len(ss[m]) <= start[k]

LEMMA NextStart ==
  ASSUME NEW S, NEW ss \in Seq(Seq(S)), NEW n \in Nat, n + 1 <= Len(ss),
         NEW flat \in Seq(S), NEW start, AreStarts(start, flat, ss, n), start[n + 1] = Len(flat)
  PROVE  AreStarts(start, flat \o ss[n + 1], ss, n + 1)
<1> DEFINE last == ss[n + 1]
           both == flat \o last
<1>1. last \in Seq(S) /\ \A m \in 1 .. n + 1 : ss[m] \in Seq(S)
  <2>1. \A m \in 1 .. n + 1 : m \in 1 .. Len(ss) OBVIOUS
  <2>2. n + 1 \in 1 .. n + 1 OBVIOUS
  <2> QED BY <2>1, <2>2
<1>2. /\ both \in Seq(S) /\ Len(both) = Len(flat) + Len(last)
      /\ Len(flat) \in Nat /\ Len(last) \in Nat
      /\ \A i \in 1 .. Len(flat) : both[i] = flat[i]
      /\ \A i \in 1 .. Len(last) : both[Len(flat) + i] = last[i]
  BY <1>1
<1>3. /\ \A m \in 1 .. n : start[m] \in Nat /\ start[m] + Len(ss[m]) <= Len(flat)
      /\ \A m \in 1 .. n : \A i \in 1 .. Len(ss[m]) : flat[start[m] + i] = ss[m][i]
      /\ \A p \in 1 .. Len(flat) : \E m \in 1 .. n : \E i \in 1 .. Len(ss[m]) : p = start[m] + i
      /\ \A m, k \in 1 .. n : m < k => start[m] + Len(ss[m]) <= start[k]
  BY DEF AreStarts
<1>4. \A m \in 1 .. n + 1 : (m \in 1 .. n \/ m = n + 1) /\ Len(ss[m]) \in Nat BY <1>1
<1> HIDE DEF both
<1>5. ASSUME NEW m \in 1 .. n + 1
      PROVE  /\ start[m] \in Nat /\ start[m] + Len(ss[m]) <= Len(both)
             /\ \A i \in 1 .. Len(ss[m]) : both[start[m] + i] = ss[m][i]
  <2>1. CASE m \in 1 .. n
    <3>1. start[m] \in Nat /\ start[m] + Len(ss[m]) <= Len(flat) /\ Len(ss[m]) \in Nat
      BY <1>3, <1>4, <2>1
    <3>2. start[m] + Len(ss[m]) <= Len(both) BY <1>2, <3>1
    <3>3. ASSUME NEW i \in 1 .. Len(ss[m]) PROVE both[start[m] + i] = ss[m][i]
      <4> DEFINE x == start[m] + i
                 part == ss[m]
                 y == start[m]
      <4>0. Len(flat) \in Nat BY <1>2
      <4>1. start[m] \in Nat /\ i \in 1 .. Len(part) /\ Len(part) \in Nat
            /\ start[m] + Len(part) <= Len(flat) /\ x = start[m] + i
        BY <3>1
      <4>2. flat[x] = part[i] BY <1>3, <2>1
      <4> HIDE DEF x, part
      <4>3. x \in 1 .. Len(flat)
        <5>1. y \in Nat /\ y + Len(part) <= Len(flat) /\ x = y + i BY <4>1
        <5>2. i \in Nat \ {0} /\ i <= Len(part) /\ Len(part) \in Nat BY <4>1
        <5> HIDE DEF y
        <5> QED BY <4>0, <5>1, <5>2
      <4>4. both[x] = part[i] BY <1>2, <4>2, <4>3
      <4> QED BY <4>4 DEF x, part
    <3> QED BY <3>1, <3>2, <3>3
  <2>2. CASE m = n + 1
    <3>1. start[m] = Len(flat) /\ ss[m] = last BY <2>2
    <3> HIDE DEF last
    <3> QED BY <1>2, <3>1
  <2> QED BY <1>4, <2>1, <2>2
<1>6. ASSUME NEW p \in 1 .. Len(both)
      PROVE  \E m \in 1 .. n + 1 : \E i \in 1 .. Len(ss[m]) : p = start[m] + i
  <2>1. CASE p \in 1 .. Len(flat)
    <3>1. PICK m \in 1 .. n : \E i \in 1 .. Len(ss[m]) : p = start[m] + i BY <1>3, <2>1
    <3>2. m \in 1 .. n + 1 OBVIOUS
    <3> QED BY <3>1, <3>2
  <2>2. CASE p \notin 1 .. Len(flat)
    <3>1. p - Len(flat) \in 1 .. Len(last) /\ p = Len(flat) + (p - Len(flat)) BY <1>2, <2>2
    <3>2. n + 1 \in 1 .. n + 1 OBVIOUS
    <3> QED BY <3>1, <3>2
  <2> QED BY <2>1, <2>2
<1>7. ASSUME NEW m \in 1 .. n + 1, NEW k \in 1 .. n + 1, m < k
      PROVE  start[m] + Len(ss[m]) <= start[k]
  <2>1. m \in 1 .. n BY <1>7
  <2>2. CASE k \in 1 .. n BY <1>3, <1>7, <2>1, <2>2
  <2>3. CASE k = n + 1 BY <1>3, <2>1, <2>3
  <2> QED BY <1>4, <2>2, <2>3
<1> QED BY <1>5, <1>6, <1>7 DEF AreStarts, both

\* Each element of sequences put one after the other is one of theirs, and has a place
\* of its own.
LEMMA FlatPlaces ==
  ASSUME NEW S, NEW ss \in Seq(Seq(S)), Len(ss) # 0
  PROVE  \E start : AreStarts(start, FlattenSeq(ss), ss, Len(ss))
<1> DEFINE n == Len(ss)
<1>1. n \in Nat \ {0} /\ \A i \in 1 .. n : ss[i] \in Seq(S) OBVIOUS
<1>2. PICK flat : /\ FlattenSeq(ss) = flat[n] /\ flat[1] = ss[1]
                  /\ \A i \in 2 .. n : flat[i] = flat[i - 1] \o ss[i]
  BY Flattening
<1> DEFINE start == [m \in 1 .. n |-> IF m = 1 THEN 0 ELSE Len(flat[m - 1])]
           Done == {k \in Nat : k + 1 <= n =>
                      flat[k + 1] \in Seq(S) /\ AreStarts(start, flat[k + 1], ss, k + 1)}
<1>3. start[1] = 0 /\ \A m \in 2 .. n : start[m] = Len(flat[m - 1]) BY <1>1
<1> HIDE DEF n, start
<1>4. 0 \in Done
  <2>1. flat[1] \in Seq(S) /\ Len(flat[1]) \in Nat BY <1>1, <1>2
  <2>2. \A m \in 1 .. 1 : m = 1 OBVIOUS
  <2>3. \A p \in 1 .. Len(flat[1]) : p = 0 + p OBVIOUS
  <2>4. 1 \in 1 .. 1 OBVIOUS
  <2>5. \A p \in 1 .. Len(flat[1]) : \E m \in 1 .. 1 : \E i \in 1 .. Len(ss[m]) : p = start[m] + i
    <3> TAKE p \in 1 .. Len(flat[1])
    <3>1. p \in 1 .. Len(ss[1]) /\ p = start[1] + p BY <1>2, <1>3, <2>3
    <3> QED BY <2>4, <3>1
  <2>6. \A m \in 1 .. 1 : start[m] \in Nat /\ start[m] + Len(ss[m]) <= Len(flat[1])
    BY <1>2, <1>3, <2>1, <2>2
  <2>7. \A m \in 1 .. 1 : \A i \in 1 .. Len(ss[m]) : flat[1][start[m] + i] = ss[m][i]
    <3> TAKE m \in 1 .. 1
    <3> TAKE i \in 1 .. Len(ss[m])
    <3>1. m = 1 /\ start[m] + i = i BY <1>2, <1>3, <2>1, <2>2
    <3> QED BY <1>2, <3>1
  <2>8. \A m, k \in 1 .. 1 : m < k => start[m] + Len(ss[m]) <= start[k] BY <2>2
  <2>9. AreStarts(start, flat[1], ss, 1) BY <2>5, <2>6, <2>7, <2>8 DEF AreStarts
  <2>10. 0 + 1 = 1 OBVIOUS
  <2> QED BY <2>1, <2>9, <2>10
<1>5. ASSUME NEW k \in Done PROVE k + 1 \in Done
  <2>0. k + 1 \in Nat /\ (k + 1) + 1 = k + 2 BY DEF Done
  <2> SUFFICES ASSUME k + 2 <= n
               PROVE  flat[k + 2] \in Seq(S) /\ AreStarts(start, flat[k + 2], ss, k + 2)
    BY <2>0
  <2>1. /\ k \in Nat /\ k + 1 \in Nat /\ k + 1 <= n /\ k + 2 \in 2 .. n
        /\ (k + 2) - 1 = k + 1 /\ (k + 1) + 1 = k + 2 /\ (k + 1) + 1 <= Len(ss)
    BY <1>1, <2>0 DEF n
  <2>2. flat[k + 1] \in Seq(S) /\ AreStarts(start, flat[k + 1], ss, k + 1) BY <2>1
  <2>3. flat[k + 2] = flat[k + 1] \o ss[k + 2] /\ start[k + 2] = Len(flat[k + 1])
    BY <1>2, <1>3, <2>1
  <2>4. AreStarts(start, flat[k + 1] \o ss[(k + 1) + 1], ss, (k + 1) + 1)
    BY <2>1, <2>2, <2>3, NextStart
  <2>5. flat[k + 1] \o ss[k + 2] \in Seq(S) BY <1>1, <2>1, <2>2
  <2> QED BY <2>1, <2>3, <2>4, <2>5
<1> HIDE DEF Done
<1>6. Done = Nat
  <2>1. Done \in SUBSET Nat BY DEF Done
  <2> QED BY <1>4, <1>5, <2>1, NatSet
<1>7. n - 1 \in Done /\ (n - 1) + 1 = n /\ n <= n BY <1>1, <1>6
<1>8. AreStarts(start, flat[n], ss, n) BY <1>7 DEF Done
<1> QED BY <1>2, <1>8 DEF n

\* Sequences of one length, one after the other, have as much as their lengths.
LEMMA FlatLength ==
  ASSUME NEW S, NEW ss \in Seq(Seq(S)), Len(ss) # 0, NEW size \in Nat,
         \A i \in 1 .. Len(ss) : Len(ss[i]) = size
  PROVE  Len(FlattenSeq(ss)) = Len(ss) * size
<1> DEFINE n == Len(ss)
<1>1. n \in Nat \ {0} /\ \A i \in 1 .. n : ss[i] \in Seq(S) OBVIOUS
<1>2. PICK flat : /\ FlattenSeq(ss) = flat[n] /\ flat[1] = ss[1]
                  /\ \A i \in 2 .. n : flat[i] = flat[i - 1] \o ss[i]
  BY Flattening
<1> DEFINE Done == {k \in Nat : k + 1 <= n =>
                      flat[k + 1] \in Seq(S) /\ Len(flat[k + 1]) = (k + 1) * size}
<1>3. 0 \in Done
  <2>1. 1 \in 1 .. n BY <1>1
  <2>2. flat[1] \in Seq(S) /\ Len(flat[1]) = 1 * size BY <1>1, <1>2, <2>1
  <2>3. 0 + 1 = 1 OBVIOUS
  <2> HIDE DEF n
  <2> QED BY <2>2, <2>3
<1>4. ASSUME NEW k \in Done PROVE k + 1 \in Done
  <2> HIDE DEF n
  <2>0. k + 1 \in Nat /\ (k + 1) + 1 = k + 2 BY DEF Done
  <2> SUFFICES ASSUME k + 2 <= n
               PROVE  flat[k + 2] \in Seq(S) /\ Len(flat[k + 2]) = (k + 2) * size
    BY <2>0
  <2>1. /\ k \in Nat /\ k + 1 <= n /\ k + 2 \in 2 .. n /\ (k + 2) - 1 = k + 1
        /\ k + 2 \in 1 .. n
    BY <1>1, <2>0
  <2>2. flat[k + 1] \in Seq(S) /\ Len(flat[k + 1]) = (k + 1) * size BY <2>1
  <2>3. ss[k + 2] \in Seq(S) /\ Len(ss[k + 2]) = size BY <1>1, <2>1 DEF n
  <2>4. flat[k + 2] = flat[k + 1] \o ss[k + 2] BY <1>2, <2>1
  <2>5. flat[k + 2] \in Seq(S) /\ Len(flat[k + 2]) = (k + 1) * size + size
    <3> DEFINE before == flat[k + 1]
               next == ss[k + 2]
    <3>1. before \in Seq(S) /\ next \in Seq(S) /\ flat[k + 2] = before \o next
      BY <2>2, <2>3, <2>4
    <3>2. Len(before) = (k + 1) * size /\ Len(next) = size BY <2>2, <2>3
    <3> HIDE DEF before, next
    <3>3. before \o next \in Seq(S) /\ Len(before \o next) = Len(before) + Len(next) BY <3>1
    <3> QED BY <3>1, <3>2, <3>3
  <2>6. (k + 1) * size + size = (k + 2) * size BY <2>1
  <2> QED BY <2>5, <2>6
<1> HIDE DEF Done
<1>5. Done = Nat
  <2>1. Done \in SUBSET Nat BY DEF Done
  <2> QED BY <1>3, <1>4, <2>1, NatSet
<1>6. n - 1 \in Done /\ (n - 1) + 1 = n /\ n <= n BY <1>1, <1>5
<1>7. Len(flat[n]) = n * size BY <1>6 DEF Done
<1> QED BY <1>2, <1>7

\* A loop that adds at most one value for each item gives a sequence of such values.
LEMMA Collected ==
  ASSUME NEW S, NEW ss, NEW n \in Nat, ss \in [1 .. n -> {<<>>} \cup {<<v>> : v \in S}]
  PROVE  FlattenSeq(ss) \in Seq(S)
<1>1. ASSUME NEW i \in 1 .. n PROVE ss[i] \in Seq(S)
  <2>1. ss[i] = <<>> \/ \E v \in S : ss[i] = <<v>> OBVIOUS
  <2>2. <<>> \in Seq(S) /\ \A v \in S : <<v>> \in Seq(S) OBVIOUS
  <2> QED BY <2>1, <2>2
<1>2. ss \in Seq(Seq(S)) BY <1>1
<1> QED BY <1>2, Flattened

\* A part of a sequence of elements of S is one.
LEMMA Part ==
  ASSUME NEW S, NEW s \in Seq(S), NEW m \in Int, NEW k \in Int, m >= 1, k <= Len(s)
  PROVE  SubSeq(s, m, k) \in Seq(S)
<1>1. \A i \in m .. k : s[i] \in S OBVIOUS
<1> QED BY <1>1

\* What a product of natural numbers does to an order.
LEMMA ProductOrder ==
  ASSUME NEW a \in Nat, NEW b \in Nat, NEW k \in Nat, a <= b
  PROVE  a * k <= b * k /\ a * k \in Nat /\ b * k \in Nat
<1>1. b - a \in Nat OBVIOUS
<1>2. (b - a) * k \in Nat BY <1>1
<1>3. (b - a) * k = b * k - a * k OBVIOUS
<1> QED BY <1>2, <1>3

\* Batches lose no datum, repeat none and keep their order; all are full but the last,
\* which may be short, and none is empty (data.py:196-210).
THEOREM BatchesKeepTheDatums ==
  ASSUME NEW S, NEW datums \in Seq(S), datums # <<>>, NEW size \in Nat \ {0}
  PROVE  /\ FlattenSeq(Batches(datums, size)) = datums
         /\ \A b \in 1 .. Len(Batches(datums, size)) - 1 : Len(Batches(datums, size)[b]) = size
         /\ \A b \in 1 .. Len(Batches(datums, size)) : Len(Batches(datums, size)[b]) \in 1 .. size
<1> DEFINE n == Len(datums)
           count == (n + size - 1) \div size
           from(b) == (b - 1) * size
           to(b) == IF b * size < n THEN b * size ELSE n
           batches_ == [b \in 1 .. count |-> SubSeq(datums, from(b) + 1, to(b))]
           h == [b \in 1 .. count |-> SubSeq(datums, 1, to(b))]
<1>1. n \in Nat \ {0} OBVIOUS
<1>2. count \in Nat \ {0} /\ count * size <= n + size - 1 /\ n + size - 1 < count * size + size
  <2> DEFINE x == n + size - 1
  <2>1. x \in Nat /\ x >= size BY <1>1
  <2> HIDE DEF x
  <2>2. x \div size \in Nat /\ (x \div size) * size <= x /\ x < (x \div size) * size + size BY <2>1
  <2>3. x \div size # 0 BY <2>1, <2>2
  <2> QED BY <2>2, <2>3 DEF x
<1>3. Batches(datums, size) = batches_ BY DEF Batches, Least
<1> HIDE DEF n, count
<1>4. ASSUME NEW b \in 1 .. count
      PROVE  /\ from(b) \in 0 .. n - 1 /\ to(b) \in from(b) + 1 .. n
             /\ to(b) - from(b) \in 1 .. size
             /\ b # count => to(b) = from(b) + size /\ to(b) = from(b + 1)
             /\ b = count => to(b) = n
  <2> DEFINE x == b * size
  <2>1. from(b) = x - size /\ from(b + 1) = x BY <1>2
  <2>2. x \in Nat /\ size <= x
    <3>1. 1 * size <= b * size /\ b * size \in Nat BY <1>2, ProductOrder
    <3> QED BY <3>1
  <2>3. x <= count * size /\ count * size \in Nat BY <1>2, ProductOrder
  <2>4. b # count => x + size <= count * size
    <3>1. b # count => (b + 1) * size <= count * size BY <1>2, ProductOrder
    <3>2. (b + 1) * size = b * size + size BY <1>2
    <3> QED BY <3>1, <3>2
  <2>5. to(b) = IF x < n THEN x ELSE n OBVIOUS
  <2>6. b = count => x = count * size OBVIOUS
  <2> DEFINE all == count * size
  <2> HIDE DEF x, all, from, to
  <2>7. x <= all /\ all \in Nat /\ all <= n + size - 1 /\ n + size - 1 < all + size
        /\ (b # count => x + size <= all) /\ (b = count => x = all)
    BY <1>2, <2>3, <2>4, <2>6 DEF all
  <2> QED BY <1>1, <2>1, <2>2, <2>5, <2>7
<1> HIDE DEF from, to
<1>5. ASSUME NEW b \in 1 .. count
      PROVE  /\ batches_[b] \in Seq(S) /\ Len(batches_[b]) = to(b) - from(b)
  <2>1. /\ from(b) + 1 \in Int /\ to(b) \in Int /\ from(b) \in Int /\ from(b) + 1 <= to(b)
        /\ \A i \in from(b) + 1 .. to(b) : datums[i] \in S
    BY <1>1, <1>4 DEF n
  <2>2. /\ SubSeq(datums, from(b) + 1, to(b)) \in Seq(S)
        /\ Len(SubSeq(datums, from(b) + 1, to(b))) = to(b) - (from(b) + 1) + 1
    BY <2>1, SubSeqProperties
  <2> QED BY <2>1, <2>2
<1>6. batches_ \in Seq(Seq(S)) /\ Len(batches_) = count BY <1>2, <1>5
<1>7. h[1] = batches_[1]
  <2>1. from(1) = 0 BY DEF from
  <2> QED BY <1>2, <2>1
<1>8. ASSUME NEW b \in 2 .. count PROVE h[b] = h[b - 1] \o batches_[b]
  <2>1. b \in 1 .. count /\ b - 1 \in 1 .. count /\ b - 1 # count /\ (b - 1) + 1 = b BY <1>2
  <2>2. to(b - 1) = from(b) BY <1>4, <2>1
  <2>3. /\ 1 \in 1 .. Len(datums) + 1 /\ from(b) \in 1 - 1 .. Len(datums)
        /\ to(b) \in from(b) .. Len(datums)
    BY <1>1, <1>4, <2>1 DEF n
  <2>4. SubSeq(datums, 1, from(b)) \o SubSeq(datums, from(b) + 1, to(b)) = SubSeq(datums, 1, to(b))
    BY <2>3, ConcatAdjacentSubSeq
  <2> QED BY <2>1, <2>2, <2>4
<1>9. h[count] = datums
  <2>1. h[count] = SubSeq(datums, 1, n) BY <1>2, <1>4
  <2> QED BY <2>1, SubSeqFull DEF n
<1> HIDE DEF batches_, h
<1>10. FlattenSeq(batches_) = h[count] BY <1>2, <1>6, <1>7, <1>8, FlatIs
<1>11. ASSUME NEW b \in 1 .. count
       PROVE  Len(batches_[b]) \in 1 .. size /\ (b # count => Len(batches_[b]) = size)
  <2>1. from(b) \in 0 .. n - 1 /\ to(b) \in from(b) + 1 .. n BY <1>4
  <2>2. to(b) - from(b) \in 1 .. size /\ (b # count => to(b) = from(b) + size) BY <1>4
  <2>3. b # count => to(b) - from(b) = size BY <1>1, <2>1, <2>2
  <2> QED BY <1>5, <2>2, <2>3
<1> QED BY <1>2, <1>3, <1>6, <1>9, <1>10, <1>11

\* The examples of a data set, as lines of a file.
LEMMA LinesAreLines ==
  ASSUME NEW source \in Sources
  PROVE  Lines(source) \in Seq(FileLines)
<1> DEFINE shards == SelectedShards(source)
           records == FlattenSeq([i \in DOMAIN shards |-> shards[i].records])
           Kept(record) == Wanted(source, record) /\ HasExample(source, record)
           each == [i \in DOMAIN records |-> OnlyIf(Kept(records[i]), ExampleOf(source, records[i]))]
           found == FlattenSeq(each)
           examples == SubSeq(found, 1, Least(Len(found), source.max_examples))
<1>1. source.shards \in Seq(Shards) BY DEF Sources
<1>2. shards \in Seq(Shards)
  <2> DEFINE n == Len(source.shards)
             Earlier(i) == {k \in 1 .. i - 1 : /\ Eligible(source, source.shards[k])
                                               /\ source.shards[k].language = source.shards[i].language}
             Chosen(i) == /\ Eligible(source, source.shards[i])
                          /\ Cardinality(Earlier(i)) < source.max_files
             chosen == [i \in DOMAIN source.shards |-> OnlyIf(Chosen(i), source.shards[i])]
  <2>1. shards = IF source.format = "starcoder" THEN FlattenSeq(chosen) ELSE source.shards
    BY DEF SelectedShards
  <2>2. n \in Nat /\ DOMAIN source.shards = 1 .. n BY <1>1
  <2> HIDE DEF Chosen
  <2>3. ASSUME NEW i \in 1 .. n
        PROVE  OnlyIf(Chosen(i), source.shards[i]) \in {<<>>} \cup {<<v>> : v \in Shards}
    BY <1>1 DEF OnlyIf
  <2>4. chosen \in [1 .. n -> {<<>>} \cup {<<v>> : v \in Shards}] BY <2>2, <2>3
  <2> HIDE DEF chosen, n, shards
  <2>5. FlattenSeq(chosen) \in Seq(Shards) BY <2>2, <2>4, Collected
  <2> QED BY <1>1, <2>1, <2>5
<1>3. records \in Seq(SourceRecords)
  <2> DEFINE all == [i \in DOMAIN shards |-> shards[i].records]
  <2> HIDE DEF shards
  <2>1. all \in Seq(Seq(SourceRecords))
    <3>1. \A i \in DOMAIN shards : shards[i] \in Shards BY <1>2
    <3>2. \A i \in DOMAIN shards : shards[i].records \in Seq(SourceRecords) BY <3>1 DEF Shards
    <3> QED BY <1>2, <3>2
  <2> HIDE DEF all
  <2>2. FlattenSeq(all) \in Seq(SourceRecords) BY <2>1, Flattened
  <2> QED BY <2>2 DEF all
<1> HIDE DEF records
<1>4. found \in Seq(SFTExamples)
  <2> DEFINE n == Len(records)
  <2>1. n \in Nat /\ DOMAIN records = 1 .. n BY <1>3
  <2>2. ASSUME NEW i \in 1 .. n PROVE ExampleOf(source, records[i]) \in SFTExamples
    <3>1. records[i] \in SourceRecords /\ source.max_chars \in Nat BY <1>3 DEF Sources
    <3> QED BY <3>1 DEF ExampleOf, SFTExamples, SourceRecords, Least
  <2> HIDE DEF Kept
  <2>3. ASSUME NEW i \in 1 .. n
        PROVE  OnlyIf(Kept(records[i]), ExampleOf(source, records[i]))
                 \in {<<>>} \cup {<<v>> : v \in SFTExamples}
    BY <2>2 DEF OnlyIf
  <2>4. each \in [1 .. n -> {<<>>} \cup {<<v>> : v \in SFTExamples}] BY <2>1, <2>3
  <2> HIDE DEF each, n
  <2> QED BY <2>1, <2>4, Collected
<1> HIDE DEF found
<1>5. examples \in Seq(SFTExamples)
  <2>1. Len(found) \in Nat /\ source.max_examples \in Nat BY <1>4 DEF Sources
  <2>2. Least(Len(found), source.max_examples) \in Int
        /\ Least(Len(found), source.max_examples) <= Len(found)
    BY <2>1 DEF Least
  <2> QED BY <1>4, <2>2, Part
<1>6. Examples(source) = examples BY DEF Examples, found, records, Kept, each
<1> HIDE DEF examples
<1>7. ASSUME NEW i \in DOMAIN examples
      PROVE  [blank |-> FALSE, columns |-> TRUE, prompt |-> examples[i].prompt,
              completion |-> examples[i].completion, weight |-> examples[i].weight] \in FileLines
  <2> DEFINE e == examples[i]
  <2>1. e \in SFTExamples BY <1>5
  <2> HIDE DEF e
  <2>2. [blank |-> FALSE, columns |-> TRUE, prompt |-> e.prompt,
         completion |-> e.completion, weight |-> e.weight] \in FileLines
    BY <2>1 DEF SFTExamples, FileLines
  <2> QED BY <2>2 DEF e
<1> QED BY <1>5, <1>6, <1>7 DEF Lines

\* The examples of a file.
LEMMA ExamplesAreExamples ==
  ASSUME NEW lines \in Seq(FileLines)
  PROVE  LoadExamples(lines).value \in Seq(SFTExamples)
<1> DEFINE n == Len(lines)
           Example(line) ==
             [prompt |-> line.prompt, completion |-> line.completion, weight |-> line.weight]
           each == [i \in DOMAIN lines |-> OnlyIf(~lines[i].blank, Example(lines[i]))]
<1>1. n \in Nat /\ DOMAIN lines = 1 .. n OBVIOUS
<1>2. ASSUME NEW i \in 1 .. n
      PROVE  OnlyIf(~lines[i].blank, Example(lines[i])) \in {<<>>} \cup {<<v>> : v \in SFTExamples}
  <2>1. lines[i] \in FileLines OBVIOUS
  <2>2. Example(lines[i]) \in SFTExamples BY <2>1 DEF FileLines, SFTExamples
  <2> HIDE DEF Example
  <2> QED BY <2>2 DEF OnlyIf
<1>3. each \in [1 .. n -> {<<>>} \cup {<<v>> : v \in SFTExamples}] BY <1>1, <1>2
<1>4. LoadExamples(lines).value = <<>> \/ LoadExamples(lines).value = FlattenSeq(each)
  BY DEF LoadExamples, Raised, Returned
<1> HIDE DEF each, n
<1>5. FlattenSeq(each) \in Seq(SFTExamples) BY <1>1, <1>3, Collected
<1>6. <<>> \in Seq(SFTExamples) OBVIOUS
<1> QED BY <1>4, <1>5, <1>6

\* One position of an example that is trained is enough: then all are that should be.
LEMMA DatumTrains ==
  ASSUME NEW e \in SFTExamples, NEW length \in Int,
         \E i \in 1 .. length : Datum(e, length).weights[i] > 0
  PROVE  Trains(Datum(e, length))
<1> DEFINE p == e.prompt
           n == e.prompt + e.completion + 2
           ids == InputIds(e)
           next == Append(Tail(ids), Pad)
           w == [i \in DOMAIN ids |->
                   IF i \in LossPositions(e) /\ i < Len(ids) THEN e.weight ELSE 0]
           d == Datum(e, length)
<1>1. p \in Nat /\ n \in Nat /\ n >= p + 2 /\ e.completion \in Nat /\ e.weight \in Int
  BY DEF SFTExamples
<1>2. DOMAIN ids = 1 .. n /\ ids \in Seq({ids[i] : i \in 1 .. n}) /\ Len(ids) = n
  BY <1>1 DEF InputIds
<1>3. /\ \A i \in 1 .. n : i <= p + 1 => ids[i][1] \in {"bos", "prompt"}
      /\ \A i \in 1 .. n : i > p + 1 => ids[i][1] \in {"completion", "eos"}
  BY <1>1 DEF InputIds
<1>4. Len(next) = n /\ \A i \in 1 .. n : next[i] = IF i < n THEN ids[i + 1] ELSE Pad
  <2> HIDE DEF ids, n
  <2> QED BY <1>1, <1>2
<1>5. Len(w) = n /\ \A i \in 1 .. n : w[i] = IF i >= p + 1 /\ i < n THEN e.weight ELSE 0
  <2>1. LossPositions(e) = p + 1 .. n - 1 BY <1>1 DEF LossPositions
  <2> HIDE DEF ids, n
  <2> QED BY <1>1, <1>2, <2>1
<1>6. /\ d.target = [i \in 1 .. length |-> IF i <= n THEN next[i] ELSE Pad]
      /\ d.weights = [i \in 1 .. length |-> IF i <= n THEN w[i] ELSE 0]
  <2> HIDE DEF n
  <2> QED BY <1>4, <1>5 DEF Datum, Fitted
<1> HIDE DEF d, next, w, ids, n, p
<1>7. \A i \in 1 .. length :
        d.weights[i] = IF i >= p + 1 /\ i < n THEN e.weight ELSE 0
  BY <1>1, <1>5, <1>6
<1>8. e.weight > 0 BY <1>1, <1>7 DEF d
<1>9. Pad[1] = "pad" BY DEF Pad
<1>10. ASSUME NEW i \in 1 .. length
       PROVE  d.weights[i] > 0 <=> d.target[i][1] \in {"completion", "eos"}
  <2>1. CASE i < n
    <3>1. d.target[i] = ids[i + 1] /\ i + 1 \in 1 .. n BY <1>1, <1>4, <1>6, <2>1
    <3>2. CASE i >= p + 1 BY <1>1, <1>3, <1>7, <1>8, <2>1, <3>1, <3>2
    <3>3. CASE i < p + 1
      <4>1. ids[i + 1][1] \in {"bos", "prompt"} BY <1>1, <1>3, <3>1, <3>3
      <4>2. d.weights[i] = 0 BY <1>1, <1>7, <3>3
      <4> QED BY <3>1, <4>1, <4>2
    <3> QED BY <1>1, <3>2, <3>3
  <2>2. CASE i >= n
    <3>1. d.target[i] = Pad BY <1>1, <1>4, <1>6, <2>2
    <3>2. d.weights[i] = 0 BY <1>1, <1>7, <2>2
    <3> QED BY <1>9, <3>1, <3>2
  <2> QED BY <1>1, <2>1, <2>2
<1>11. DOMAIN d.target = 1 .. length BY <1>6
<1> QED BY <1>10, <1>11 DEF Trains, d

\* The batches of a file are made of such datums.
LEMMA BatchesTrain ==
  ASSUME NEW lines \in Seq(FileLines), NEW length \in Int, NEW size \in Nat \ {0}
  PROVE  HaveTrainingData(LoadBatches(lines, length, size))
<1> DEFINE examples == LoadExamples(lines)
           datums == EncodeAll(examples.value, length)
           S == {t \in {Datum(e, length) : e \in SFTExamples} : Trains(t)}
           each == [i \in DOMAIN examples.value |-> DatumsOf(examples.value[i], length)]
           loaded == LoadBatches(lines, length, size).value
<1>1. examples.value \in Seq(SFTExamples) BY ExamplesAreExamples
<1> HIDE DEF examples
<1>2. datums.value \in Seq(S)
  <2> DEFINE n == Len(examples.value)
  <2>1. n \in Nat /\ DOMAIN examples.value = 1 .. n BY <1>1
  <2>2. ASSUME NEW i \in 1 .. n
        PROVE  DatumsOf(examples.value[i], length) \in {<<>>} \cup {<<v>> : v \in S}
    <3> DEFINE e == examples.value[i]
    <3>1. e \in SFTExamples BY <1>1
    <3> HIDE DEF e
    <3>2. CASE \E k \in 1 .. length : Datum(e, length).weights[k] > 0
      <4>1. Trains(Datum(e, length)) BY <3>1, <3>2, DatumTrains
      <4>2. Datum(e, length) \in S BY <3>1, <4>1
      <4>3. DatumsOf(e, length) = <<Datum(e, length)>> BY <3>2 DEF DatumsOf, OnlyIf
      <4> HIDE DEF S
      <4> QED BY <4>2, <4>3 DEF e
    <3>3. CASE ~ \E k \in 1 .. length : Datum(e, length).weights[k] > 0
      <4>1. DatumsOf(e, length) = <<>> BY <3>3 DEF DatumsOf, OnlyIf
      <4> QED BY <4>1 DEF e
    <3> QED BY <3>2, <3>3
  <2> HIDE DEF S
  <2>3. each \in [1 .. n -> {<<>>} \cup {<<v>> : v \in S}] BY <2>1, <2>2
  <2>4. datums.value = <<>> \/ datums.value = FlattenSeq(each)
    BY DEF EncodeAll, Raised, Returned
  <2> HIDE DEF each, n, datums
  <2>5. FlattenSeq(each) \in Seq(S) BY <2>1, <2>3, Collected
  <2>6. <<>> \in Seq(S) OBVIOUS
  <2> QED BY <2>4, <2>5, <2>6
<1>3. loaded = <<>> \/ loaded = Batches(datums.value, size)
  BY DEF LoadBatches, Raised, Returned, examples
<1> HIDE DEF datums, loaded, S
<1>4. ASSUME loaded = Batches(datums.value, size),
             NEW b \in DOMAIN loaded, NEW d \in DOMAIN loaded[b]
      PROVE  loaded[b][d] \in S
  <2> DEFINE count == (Len(datums.value) + size - 1) \div size
             first == (b - 1) * size + 1
             last == Least(b * size, Len(datums.value))
  <2>1. loaded = [c \in 1 .. count |-> SubSeq(datums.value, (c - 1) * size + 1,
                                               Least(c * size, Len(datums.value)))]
    BY <1>4 DEF Batches
  <2>2. Len(datums.value) \in Nat BY <1>2
  <2>3. b \in Nat /\ b >= 1
    <3>1. count \in Int BY <2>2
    <3> HIDE DEF count
    <3> QED BY <2>1, <3>1
  <2>4. loaded[b] = SubSeq(datums.value, first, last)
    <3> HIDE DEF count
    <3> QED BY <2>1
  <2>5. first \in Int /\ first >= 1
    <3>1. (b - 1) * size \in Nat BY <2>3
    <3> QED BY <3>1
  <2>6. last \in Int /\ last <= Len(datums.value)
    <3>1. b * size \in Int BY <2>3
    <3> QED BY <2>2, <3>1 DEF Least
  <2> HIDE DEF first, last
  <2>7. loaded[b] \in Seq(S) BY <1>2, <2>4, <2>5, <2>6, Part
  <2> QED BY <2>7
<1>5. \A b \in DOMAIN loaded : \A d \in DOMAIN loaded[b] : loaded[b][d] \in S
  BY <1>3, <1>4
<1>6. \A t \in S : Trains(t) BY DEF S
<1>7. LoadBatches(lines, length, size).ok =>
        Len(loaded) \in Nat \ {0} /\ \A b \in 1 .. Len(loaded) : Len(loaded[b]) \in Nat \ {0}
  <2> SUFFICES ASSUME LoadBatches(lines, length, size).ok
               PROVE  /\ Len(loaded) \in Nat \ {0}
                      /\ \A b \in 1 .. Len(loaded) : Len(loaded[b]) \in Nat \ {0}
    OBVIOUS
  <2> DEFINE n == Len(datums.value)
             count == (n + size - 1) \div size
  <2>1. loaded = Batches(datums.value, size) /\ datums.value # <<>>
    BY DEF LoadBatches, Raised, Returned, examples, datums, loaded
  <2>2. n \in Nat \ {0} BY <1>2, <2>1
  <2>3. count \in Nat \ {0}
    <3> HIDE DEF n
    <3>1. n + size - 1 >= size /\ n + size - 1 \in Nat BY <2>2
    <3> QED BY <3>1
  <2>4. loaded = [b \in 1 .. count |-> SubSeq(datums.value, (b - 1) * size + 1,
                                               Least(b * size, Len(datums.value)))]
    BY <2>1 DEF Batches
  <2> HIDE DEF count
  <2>5. Len(loaded) = count BY <2>3, <2>4
  <2>6. \A b \in 1 .. Len(loaded) : Len(loaded[b]) \in 1 .. size
    BY <1>2, <2>1, BatchesKeepTheDatums
  <2> QED BY <2>3, <2>5, <2>6
<1> QED BY <1>5, <1>6, <1>7 DEF loaded, HaveTrainingData

-----------------------------------------------------------------------------
(* Sizes and layout                                                         *)

\* The sizes of a deployed job.
LEMMA DeployedSizes ==
  ASSUME NEW j \in Jobs, NEW d, d = Deployed(j)
  PROVE  /\ d.mode \in Modes
         /\ d.nodes \in Nat \ {0} /\ d.gpus \in Nat \ {0}
         /\ d.steps \in Nat /\ d.writer \in Nat /\ d.max_faults \in Nat
         /\ d.tp \in Nat \ {0} /\ d.pp \in Nat \ {0}
         /\ d.micro_batch_size \in Nat \ {0} /\ d.global_batch_size \in Nat \ {0}
         /\ d.lines \in Seq(FileLines) /\ d.sources \in Seq(Sources) /\ d.sequence_length \in Int
<1>0. j \in JobRequests BY JobsAssumption
<1>1. j.mode \in Modes /\ j.nodes \in Nat \ {0} /\ j.gpus \in Nat \ {0}
      /\ j.steps \in Nat /\ j.writer \in Nat /\ j.max_faults \in Nat
      /\ j.tp \in Nat \ {0} /\ j.pp \in Nat \ {0}
      /\ j.micro_batch_size \in Nat \ {0} /\ j.global_batch_size \in Nat \ {0}
      /\ j.lines \in Seq(FileLines) /\ j.sources \in Seq(Sources) /\ j.sequence_length \in Int
  BY <1>0 DEF JobRequests
<1>2. CASE j.app = "starcoder-single"
  <2> DEFINE e == [j EXCEPT !.nodes = 1, !.gpus = 1, !.global_batch_size = j.micro_batch_size]
  <2>1. d = e BY <1>2 DEF Deployed
  <2>2. e.mode = j.mode /\ e.nodes = 1 /\ e.gpus = 1 /\ e.steps = j.steps
        /\ e.writer = j.writer /\ e.max_faults = j.max_faults
        /\ e.tp = j.tp /\ e.pp = j.pp /\ e.micro_batch_size = j.micro_batch_size
        /\ e.global_batch_size = j.micro_batch_size
        /\ e.lines = j.lines /\ e.sources = j.sources /\ e.sequence_length = j.sequence_length
    BY <1>0 DEF JobRequests
  <2> QED BY <1>1, <2>1, <2>2
<1>3. CASE j.app = "qwen-single"
  <2> DEFINE e == [j EXCEPT !.nodes = 1, !.gpus = 1, !.global_batch_size = j.micro_batch_size,
                            !.tp = 1, !.pp = 1]
  <2>1. d = e BY <1>3 DEF Deployed
  <2>2. e.mode = j.mode /\ e.nodes = 1 /\ e.gpus = 1 /\ e.steps = j.steps
        /\ e.writer = j.writer /\ e.max_faults = j.max_faults
        /\ e.tp = 1 /\ e.pp = 1 /\ e.micro_batch_size = j.micro_batch_size
        /\ e.global_batch_size = j.micro_batch_size
        /\ e.lines = j.lines /\ e.sources = j.sources /\ e.sequence_length = j.sequence_length
    BY <1>0 DEF JobRequests
  <2> QED BY <1>1, <2>1, <2>2
<1>4. CASE j.app \notin {"starcoder-single", "qwen-single"}
  BY <1>1, <1>4 DEF Deployed
<1> QED BY <1>2, <1>3, <1>4

\* Ranks fill the nodes one after the other.
LEMMA Layout ==
  ASSUME NEW nodes \in Nat \ {0}, NEW gpus \in Nat \ {0}, NEW r \in Nat
  PROVE  r \div gpus \in Nat /\ (r < nodes * gpus <=> r \div gpus < nodes)
<1> DEFINE q == r \div gpus
<1>1. q \in Nat /\ gpus * q <= r /\ r < gpus * (q + 1) OBVIOUS
<1> HIDE DEF q
<1>2. q < nodes => r < nodes * gpus
  <2> SUFFICES ASSUME q < nodes PROVE r < nodes * gpus OBVIOUS
  <2>1. nodes - (q + 1) \in Nat BY <1>1
  <2>2. gpus * (nodes - (q + 1)) \in Nat BY <2>1
  <2>3. gpus * (nodes - (q + 1)) = gpus * nodes - gpus * (q + 1) BY <1>1
  <2> QED BY <1>1, <2>2, <2>3
<1>3. r < nodes * gpus => q < nodes
  <2> SUFFICES ASSUME q >= nodes PROVE r >= nodes * gpus BY <1>1
  <2>1. q - nodes \in Nat BY <1>1
  <2>2. gpus * (q - nodes) \in Nat BY <2>1
  <2>3. gpus * (q - nodes) = gpus * q - gpus * nodes BY <1>1
  <2> QED BY <1>1, <2>2, <2>3
<1> QED BY <1>1, <1>2, <1>3 DEF q

\* The sizes of the job, and where its ranks are.
LEMMA JobFacts ==
  ASSUME job \in {Deployed(j) : j \in Jobs}
  PROVE  /\ job.mode \in Modes /\ job.steps \in Nat /\ job.max_faults \in Nat
         /\ 0 \in Ranks /\ 0 \in Nodes /\ 0 \in RanksOf(0)
         /\ Ranks \subseteq Nat
         /\ \A r \in Ranks : NodeOf(r) \in Nodes
         /\ NodeOf(job.writer) = 0 => job.writer \in Ranks
<1>1. PICK j \in Jobs : job = Deployed(j) OBVIOUS
<1>2. /\ job.mode \in Modes /\ job.nodes \in Nat \ {0} /\ job.gpus \in Nat \ {0}
      /\ job.steps \in Nat /\ job.writer \in Nat /\ job.max_faults \in Nat
  BY <1>1, DeployedSizes
<1> DEFINE nodes == job.nodes
           gpus == job.gpus
           size == nodes * gpus
           writer == job.writer
<1>3. Ranks = 0 .. size - 1 /\ Nodes = 0 .. nodes - 1 /\ \A r : NodeOf(r) = r \div gpus
  BY DEF Ranks, Nodes, WorldSize, NodeOf
<1>4. nodes \in Nat \ {0} /\ gpus \in Nat \ {0} /\ writer \in Nat BY <1>2
<1> HIDE DEF nodes, gpus, writer
<1>5. size \in Nat BY <1>4
<1>6. \A r \in Nat : r \div gpus \in Nat /\ (r < size <=> r \div gpus < nodes)
  BY <1>4, Layout
<1> HIDE DEF size
<1>7. 0 \div gpus = 0 BY <1>4
<1>8. 0 \in Nodes /\ 0 \in Ranks /\ NodeOf(0) = 0 BY <1>3, <1>4, <1>5, <1>6, <1>7
<1>9. Ranks \subseteq Nat BY <1>3, <1>5
<1>10. ASSUME NEW r \in Ranks PROVE NodeOf(r) \in Nodes
  <2>1. r \in Nat /\ r < size BY <1>3, <1>5
  <2>2. r \div gpus \in Nat /\ r \div gpus < nodes BY <1>6, <2>1
  <2> QED BY <1>3, <1>4, <2>2
<1>11. NodeOf(writer) = 0 => writer \in Ranks BY <1>3, <1>4, <1>5, <1>6
<1> QED BY <1>2, <1>8, <1>9, <1>10, <1>11 DEF RanksOf, writer

\* What depends on the job alone stays as it is.
LEMMA JobIsFixed ==
  ASSUME job' = job
  PROVE  /\ Ranks' = Ranks /\ Nodes' = Nodes /\ AdapterBarrier' = AdapterBarrier
         /\ Saves' <=> Saves
         /\ \A r : NodeOf(r)' = NodeOf(r)
         /\ \A n : RanksOf(n)' = RanksOf(n)
BY DEF Ranks, Nodes, WorldSize, AdapterBarrier, Saves, NodeOf, RanksOf

-----------------------------------------------------------------------------
(* The deal of the data                                                     *)

\* Quotient and remainder are what they are multiplied and added from.
LEMMA QuotientIs ==
  ASSUME NEW q \in Int, NEW d \in Nat \ {0}, NEW r \in 0 .. d - 1
  PROVE  (q * d + r) \div d = q /\ (q * d + r) % d = r
<1> DEFINE x == q * d + r
           y == x \div d
           z == x % d
<1>1. x \in Int /\ y \in Int /\ z \in 0 .. d - 1 /\ x = y * d + z OBVIOUS
<1>2. (y - q) * d = r - z BY <1>1
<1> HIDE DEF x, y, z
<1>3. ASSUME y - q >= 1 PROVE FALSE
  <2>1. (y - q) * d >= 1 * d BY <1>1, <1>3, ProductOrder
  <2> QED BY <1>1, <1>2, <2>1
<1>4. ASSUME q - y >= 1 PROVE FALSE
  <2>1. (q - y) * d >= 1 * d BY <1>1, <1>4, ProductOrder
  <2>2. (q - y) * d = z - r BY <1>1, <1>2
  <2> QED BY <1>1, <2>1, <2>2
<1>5. y = q BY <1>1, <1>3, <1>4
<1>6. z = r BY <1>1, <1>2, <1>5
<1> QED BY <1>5, <1>6 DEF x, y, z

\* The first rank of a replica: it has the number of the replica, and none before it has.
LEMMA FirstOfReplica ==
  ASSUME NEW tp \in Nat \ {0}, NEW dp \in Nat \ {0}, NEW pp \in Nat \ {0}, NEW d \in 0 .. dp - 1
  PROVE  /\ d * tp \in Nat /\ d * tp < (tp * pp) * dp
         /\ ((d * tp) \div tp) % dp = d
         /\ \A q \in Nat : (q \div tp) % dp = d => d * tp <= q
<1>1. (d * tp) \div tp = d
  <2>1. (d * tp + 0) \div tp = d BY QuotientIs
  <2>2. d * tp + 0 = d * tp OBVIOUS
  <2> QED BY <2>1, <2>2
<1>2. d % dp = d OBVIOUS
<1>3. d * tp < (tp * pp) * dp
  <2> DEFINE n == tp * pp
  <2>1. n \in Nat /\ tp <= n
    <3>1. 1 * tp <= pp * tp BY ProductOrder
    <3> QED BY <3>1
  <2>2. dp * tp <= (tp * pp) * dp
    <3> HIDE DEF n
    <3>1. tp * dp <= n * dp BY <2>1, ProductOrder
    <3> QED BY <3>1 DEF n
  <2>3. (d + 1) * tp <= dp * tp BY ProductOrder
  <2>4. (d + 1) * tp = d * tp + tp OBVIOUS
  <2>5. d * tp \in Nat /\ dp * tp \in Nat /\ n * dp \in Nat OBVIOUS
  <2> QED BY <2>2, <2>3, <2>4, <2>5
<1>4. ASSUME NEW q \in Nat, (q \div tp) % dp = d PROVE d * tp <= q
  <2> DEFINE y == q \div tp
  <2>1. y \in Nat /\ y * tp <= q OBVIOUS
  <2>2. y % dp <= y BY <2>1
  <2> HIDE DEF y
  <2>3. d <= y BY <1>4, <2>2 DEF y
  <2>4. d * tp <= y * tp BY <2>1, <2>3, ProductOrder
  <2>5. d * tp \in Nat OBVIOUS
  <2> QED BY <2>1, <2>4, <2>5
<1> QED BY <1>1, <1>2, <1>3, <1>4

\* Every position of a global batch is that of one microbatch of one replica.
LEMMA Deal ==
  ASSUME NEW G \in Nat, NEW D \in Nat \ {0}, NEW s \in Nat
  PROVE  /\ \A m \in 0 .. G - 1, d \in 0 .. D - 1 :
              /\ (s * G + m) * D + d \in s * (G * D) .. (s + 1) * (G * D) - 1
              /\ ((s * G + m) * D + d) \div D = s * G + m
              /\ ((s * G + m) * D + d) % D = d
         /\ \A p \in s * (G * D) .. (s + 1) * (G * D) - 1 :
              /\ (p \div D) - s * G \in 0 .. G - 1
              /\ p % D \in 0 .. D - 1
              /\ p = (s * G + ((p \div D) - s * G)) * D + (p % D)
<1>0. /\ s * G \in Nat /\ G * D \in Nat
      /\ s * (G * D) = (s * G) * D
      /\ (s + 1) * (G * D) = (s * G + G) * D
  <2>1. s * (G * D) = (s * G) * D OBVIOUS
  <2>2. (s + 1) * (G * D) = s * (G * D) + G * D OBVIOUS
  <2>3. (s * G + G) * D = (s * G) * D + G * D OBVIOUS
  <2> QED BY <2>1, <2>2, <2>3
<1> DEFINE b == s * G
           lo == s * (G * D)
           hi == (s + 1) * (G * D)
<1> HIDE DEF b, lo, hi
<1>1. b \in Nat /\ lo = b * D /\ hi = (b + G) * D BY <1>0 DEF b, lo, hi
<1>1a. lo \in Nat /\ hi \in Nat BY <1>1
<1>2. ASSUME NEW m \in 0 .. G - 1, NEW d \in 0 .. D - 1
      PROVE  /\ (b + m) * D + d \in lo .. hi - 1
             /\ ((b + m) * D + d) \div D = b + m
             /\ ((b + m) * D + d) % D = d
  <2>1. b * D <= (b + m) * D /\ (b + m) * D \in Nat BY <1>1, ProductOrder
  <2>2. (b + m + 1) * D <= (b + G) * D BY <1>1, ProductOrder
  <2>3. (b + m + 1) * D = (b + m) * D + D BY <1>1
  <2>4. (b + m) * D + d >= lo /\ (b + m) * D + d < hi BY <1>1, <1>1a, <2>1, <2>2, <2>3
  <2>5. b + m \in Int BY <1>1
  <2>6. ((b + m) * D + d) \div D = b + m /\ ((b + m) * D + d) % D = d BY <2>5, QuotientIs
  <2> QED BY <1>1a, <2>1, <2>4, <2>6
<1>3. ASSUME NEW p \in lo .. hi - 1
      PROVE  /\ (p \div D) - b \in 0 .. G - 1 /\ p % D \in 0 .. D - 1
             /\ p = (b + ((p \div D) - b)) * D + (p % D)
  <2> DEFINE y == p \div D
             z == p % D
  <2>1. p \in Nat /\ y \in Nat /\ z \in 0 .. D - 1 /\ p = y * D + z BY <1>1a
  <2> HIDE DEF y, z
  <2>2. y >= b
    <3> SUFFICES ASSUME y + 1 <= b PROVE FALSE BY <1>1, <2>1
    <3>1. (y + 1) * D <= b * D BY <1>1, <2>1, ProductOrder
    <3>2. (y + 1) * D = y * D + D BY <2>1
    <3>3. y * D \in Nat BY <2>1
    <3> QED BY <1>1, <1>1a, <2>1, <3>1, <3>2, <3>3
  <2>3. y < b + G
    <3> SUFFICES ASSUME b + G <= y PROVE FALSE BY <1>1, <2>1
    <3>1. (b + G) * D <= y * D /\ y * D \in Nat BY <1>1, <2>1, ProductOrder
    <3> QED BY <1>1, <1>1a, <2>1, <3>1
  <2>4. y - b \in 0 .. G - 1 /\ b + (y - b) = y BY <1>1, <2>1, <2>2, <2>3
  <2>5. p = (b + (y - b)) * D + z BY <2>1, <2>4
  <2>6. y - b \in 0 .. G - 1 /\ z \in 0 .. D - 1 /\ p = (b + (y - b)) * D + z
    BY <2>1, <2>4, <2>5
  <2> QED BY <2>6 DEF y, z
<1> QED BY <1>2, <1>3 DEF b, lo, hi

\* The parallel sizes of a job that is accepted.
LEMMA ParallelSizes ==
  ASSUME job \in {Deployed(j) : j \in Jobs}, IsConfig(job)
  PROVE  /\ job.tp \in Nat \ {0} /\ job.pp \in Nat \ {0}
         /\ DataParallelSize(job) \in Nat \ {0} /\ GradAccumSteps(job) \in Nat \ {0}
         /\ WorldSize(job) = (job.tp * job.pp) * DataParallelSize(job)
<1>1. PICK j \in Jobs : job = Deployed(j) OBVIOUS
<1>2. /\ job.nodes \in Nat \ {0} /\ job.gpus \in Nat \ {0}
      /\ job.tp \in Nat \ {0} /\ job.pp \in Nat \ {0}
      /\ job.micro_batch_size \in Nat \ {0} /\ job.global_batch_size \in Nat \ {0}
  BY <1>1, DeployedSizes
<1> DEFINE w == job.nodes * job.gpus
           n == job.tp * job.pp
           d == w \div n
           k == job.micro_batch_size * d
           b == job.global_batch_size
<1>3. w \in Nat \ {0} /\ n \in Nat \ {0} /\ b \in Nat \ {0}
  <2>1. 1 * job.gpus <= job.nodes * job.gpus /\ job.nodes * job.gpus \in Nat BY <1>2, ProductOrder
  <2>2. 1 * job.pp <= job.tp * job.pp /\ job.tp * job.pp \in Nat BY <1>2, ProductOrder
  <2> QED BY <1>2, <2>1, <2>2
<1>4. w % n = 0 /\ b % k = 0
  BY DEF IsConfig, WorldSize, ModelParallelSize, DataParallelSize
<1>5. /\ WorldSize(job) = w /\ DataParallelSize(job) = d /\ GradAccumSteps(job) = b \div k
  BY DEF WorldSize, ModelParallelSize, DataParallelSize, GradAccumSteps
<1> HIDE DEF w, n, b
<1>6. d \in Nat /\ w = n * d BY <1>3, <1>4
<1> HIDE DEF d
<1>7. d # 0 BY <1>3, <1>6
<1>8. k \in Nat \ {0}
  <2>1. 1 * d <= job.micro_batch_size * d /\ job.micro_batch_size * d \in Nat
    BY <1>2, <1>6, ProductOrder
  <2> QED BY <1>6, <1>7, <2>1
<1> HIDE DEF k
<1>9. b \div k \in Nat \ {0}
  <2>1. b = (b \div k) * k /\ b \div k \in Nat BY <1>3, <1>4, <1>8
  <2> QED BY <1>3, <1>8, <2>1
<1> QED BY <1>2, <1>5, <1>6, <1>7, <1>9 DEF n

\* The ranks that come first in their model group.
Leaders == {r \in Ranks : \A q \in ModelGroup(r) : r <= q}

\* There is one for each replica.
LEMMA LeadersAre ==
  ASSUME job \in {Deployed(j) : j \in Jobs}, IsConfig(job)
  PROVE  /\ \A r \in Ranks : ReplicaOf(r) \in 0 .. DataParallelSize(job) - 1
         /\ \A r \in Leaders : r = ReplicaOf(r) * job.tp
         /\ \A d \in 0 .. DataParallelSize(job) - 1 :
              d * job.tp \in Leaders /\ ReplicaOf(d * job.tp) = d
<1> DEFINE tp == job.tp
           pp == job.pp
           dp == DataParallelSize(job)
<1>1. /\ tp \in Nat \ {0} /\ pp \in Nat \ {0} /\ dp \in Nat \ {0}
      /\ WorldSize(job) = (tp * pp) * dp
  BY ParallelSizes
<1>2. /\ Ranks = 0 .. (tp * pp) * dp - 1
      /\ \A r : ReplicaOf(r) = (r \div tp) % dp
      /\ \A r : ModelGroup(r) = {q \in Ranks : ReplicaOf(q) = ReplicaOf(r)}
  BY <1>1 DEF Ranks, ReplicaOf, RankInfo, ModelGroup
<1> HIDE DEF tp, pp, dp
<1>3. (tp * pp) * dp \in Nat BY <1>1
<1>4. Ranks \subseteq Nat BY <1>2, <1>3
<1>5. ASSUME NEW r \in Ranks PROVE ReplicaOf(r) \in 0 .. dp - 1
  <2>1. r \in Nat BY <1>4
  <2>2. r \div tp \in Nat BY <1>1, <2>1
  <2>3. (r \div tp) % dp \in 0 .. dp - 1 BY <1>1, <2>2
  <2> QED BY <1>2, <2>3
<1>6. ASSUME NEW d \in 0 .. dp - 1
      PROVE  /\ d * tp \in Ranks /\ ReplicaOf(d * tp) = d
             /\ \A q \in Ranks : ReplicaOf(q) = d => d * tp <= q
  <2>1. /\ d * tp \in Nat /\ d * tp < (tp * pp) * dp
        /\ ((d * tp) \div tp) % dp = d
        /\ \A q \in Nat : (q \div tp) % dp = d => d * tp <= q
    BY <1>1, FirstOfReplica
  <2> DEFINE size == (tp * pp) * dp
             first == d * tp
  <2>2. first \in Nat /\ first < size /\ size \in Nat BY <1>3, <2>1
  <2>3. Ranks = 0 .. size - 1 BY <1>2
  <2> HIDE DEF size
  <2>4. first \in Ranks BY <2>2, <2>3
  <2>5. ReplicaOf(first) = d BY <1>2, <2>1
  <2>6. \A q \in Ranks : ReplicaOf(q) = d => first <= q BY <1>2, <1>4, <2>1
  <2> QED BY <2>4, <2>5, <2>6
<1>7. ASSUME NEW d \in 0 .. dp - 1 PROVE d * tp \in Leaders
  BY <1>2, <1>6 DEF Leaders
<1>8. ASSUME NEW r \in Leaders PROVE r = ReplicaOf(r) * tp
  <2> DEFINE d == ReplicaOf(r)
  <2>1. r \in Ranks BY DEF Leaders
  <2>2. d \in 0 .. dp - 1 BY <1>5, <2>1
  <2>3. d * tp \in ModelGroup(r) BY <1>2, <1>6, <2>2
  <2>4. r <= d * tp BY <2>3 DEF Leaders
  <2>5. d * tp <= r BY <1>6, <2>1, <2>2
  <2>6. d * tp \in Nat /\ r \in Nat BY <1>4, <1>6, <2>1, <2>2
  <2> HIDE DEF d
  <2>7. r = d * tp BY <2>4, <2>5, <2>6
  <2> QED BY <2>7 DEF d
<1> QED BY <1>5, <1>6, <1>7, <1>8 DEF tp, dp

\* The position of microbatch m of replica d in step s.
Place(s, d, m) == (s * GradAccumSteps(job) + m) * DataParallelSize(job) + d

\* The places of a step are the positions of its global batch, each taken once.
LEMMA Places ==
  ASSUME job \in {Deployed(j) : j \in Jobs}, IsConfig(job), NEW s \in Nat
  PROVE  /\ \A m \in MicroSteps(job), d \in 0 .. DataParallelSize(job) - 1 :
              /\ Place(s, d, m) \in GlobalBatch(s)
              /\ Place(s, d, m) \div DataParallelSize(job) = s * GradAccumSteps(job) + m
              /\ Place(s, d, m) % DataParallelSize(job) = d
         /\ \A p \in GlobalBatch(s) :
              \E d \in 0 .. DataParallelSize(job) - 1, m \in MicroSteps(job) : p = Place(s, d, m)
         /\ IsFiniteSet(GlobalBatch(s)) /\ GlobalBatch(s) \subseteq Int
         /\ IsFiniteSet(MicroSteps(job)) /\ MicroSteps(job) \subseteq Nat
         /\ s * GradAccumSteps(job) \in Nat
<1> DEFINE G == GradAccumSteps(job)
           D == DataParallelSize(job)
           positions == s * (G * D) .. (s + 1) * (G * D) - 1
<1>1. G \in Nat /\ D \in Nat \ {0} BY ParallelSizes
<1>2. /\ MicroSteps(job) = 0 .. G - 1
      /\ GlobalBatch(s) = positions
      /\ \A d, m : Place(s, d, m) = (s * G + m) * D + d
  BY DEF MicroSteps, GlobalBatch, Place
<1> HIDE DEF G, D
<1>3. /\ \A m \in 0 .. G - 1, d \in 0 .. D - 1 :
           /\ (s * G + m) * D + d \in positions
           /\ ((s * G + m) * D + d) \div D = s * G + m
           /\ ((s * G + m) * D + d) % D = d
      /\ \A p \in positions :
           /\ (p \div D) - s * G \in 0 .. G - 1
           /\ p % D \in 0 .. D - 1
           /\ p = (s * G + ((p \div D) - s * G)) * D + (p % D)
  BY <1>1, Deal
<1>4. /\ s * (G * D) \in Int /\ (s + 1) * (G * D) - 1 \in Int /\ 0 \in Int /\ G - 1 \in Int
      /\ s * G \in Nat
  BY <1>1
<1>5. IsFiniteSet(positions) /\ IsFiniteSet(0 .. G - 1) BY <1>4, FS_Interval
<1>6. positions \subseteq Int /\ 0 .. G - 1 \subseteq Nat BY <1>1, <1>4
<1> HIDE DEF positions
<1>7. ASSUME NEW p \in positions
      PROVE  \E d \in 0 .. D - 1, m \in 0 .. G - 1 : p = Place(s, d, m)
  <2> DEFINE d == p % D
             m == (p \div D) - s * G
  <2>1. d \in 0 .. D - 1 /\ m \in 0 .. G - 1 /\ p = Place(s, d, m) BY <1>2, <1>3
  <2> HIDE DEF d, m
  <2> QED BY <2>1
<1>8. \A m \in 0 .. G - 1, d \in 0 .. D - 1 :
        Place(s, d, m) \in positions /\ Place(s, d, m) \div D = s * G + m /\ Place(s, d, m) % D = d
  BY <1>2, <1>3
<1>9. /\ \A m \in MicroSteps(job), d \in 0 .. D - 1 :
           /\ Place(s, d, m) \in GlobalBatch(s)
           /\ Place(s, d, m) \div D = s * G + m
           /\ Place(s, d, m) % D = d
      /\ \A p \in GlobalBatch(s) : \E d \in 0 .. D - 1, m \in MicroSteps(job) : p = Place(s, d, m)
  BY <1>2, <1>7, <1>8
<1>10. /\ IsFiniteSet(GlobalBatch(s)) /\ GlobalBatch(s) \subseteq Int
       /\ IsFiniteSet(MicroSteps(job)) /\ MicroSteps(job) \subseteq Nat
       /\ s * G \in Nat
  BY <1>2, <1>4, <1>5, <1>6
<1> QED BY <1>9, <1>10 DEF G, D

\* Who takes batch b of n in step s, and where it occurs in the global batch.
Takers(s, n, b) ==
  {rm \in Leaders \X MicroSteps(job) : DealtIndex(job, ReplicaOf(rm[1]), s, rm[2], n) = b}
Occurrences(s, n, b) == {p \in GlobalBatch(s) : p % n = b}

\* In a step, the leaders take each position of the global batch once.
LEMMA LeadersTakeTheBatch ==
  ASSUME job \in {Deployed(j) : j \in Jobs}, IsConfig(job), NEW s \in Nat, NEW n, NEW b
  PROVE  Cardinality(Takers(s, n, b)) = Cardinality(Occurrences(s, n, b))
<1> DEFINE tp == job.tp
           D == DataParallelSize(job)
           A == Takers(s, n, b)
           B == Occurrences(s, n, b)
           F == [rm \in A |-> Place(s, ReplicaOf(rm[1]), rm[2])]
<1>1. /\ \A r \in Leaders : ReplicaOf(r) \in 0 .. D - 1 /\ r = ReplicaOf(r) * tp
      /\ \A d \in 0 .. D - 1 : d * tp \in Leaders /\ ReplicaOf(d * tp) = d
  BY LeadersAre DEF Leaders
<1>2. /\ \A m \in MicroSteps(job), d \in 0 .. D - 1 :
           /\ Place(s, d, m) \in GlobalBatch(s) /\ Place(s, d, m) % D = d
           /\ Place(s, d, m) \div D = s * GradAccumSteps(job) + m
      /\ \A p \in GlobalBatch(s) :
           \E d \in 0 .. D - 1, m \in MicroSteps(job) : p = Place(s, d, m)
      /\ IsFiniteSet(GlobalBatch(s)) /\ MicroSteps(job) \subseteq Nat
      /\ s * GradAccumSteps(job) \in Nat
  BY Places
<1>3. /\ A = {rm \in Leaders \X MicroSteps(job) : Place(s, ReplicaOf(rm[1]), rm[2]) % n = b}
      /\ B = {p \in GlobalBatch(s) : p % n = b}
  BY DEF Takers, Occurrences, DealtIndex, Place
<1> HIDE DEF tp, D, A, B
<1>4. F \in [A -> B]
  <2> SUFFICES ASSUME NEW rm \in A PROVE Place(s, ReplicaOf(rm[1]), rm[2]) \in B OBVIOUS
  <2>1. /\ rm[1] \in Leaders /\ rm[2] \in MicroSteps(job)
        /\ Place(s, ReplicaOf(rm[1]), rm[2]) % n = b
    BY <1>3
  <2> QED BY <1>1, <1>2, <1>3, <2>1
<1>5. ASSUME NEW x \in A, NEW y \in A, F[x] = F[y] PROVE x = y
  <2>1. /\ x[1] \in Leaders /\ x[2] \in MicroSteps(job) /\ x = <<x[1], x[2]>>
        /\ y[1] \in Leaders /\ y[2] \in MicroSteps(job) /\ y = <<y[1], y[2]>>
    BY <1>3
  <2>2. Place(s, ReplicaOf(x[1]), x[2]) = Place(s, ReplicaOf(y[1]), y[2]) BY <1>5
  <2>3. /\ ReplicaOf(x[1]) = ReplicaOf(y[1])
        /\ s * GradAccumSteps(job) + x[2] = s * GradAccumSteps(job) + y[2]
    BY <1>1, <1>2, <2>1, <2>2
  <2>4. x[1] = y[1] BY <1>1, <2>1, <2>3
  <2>5. x[2] = y[2] BY <1>2, <2>1, <2>3
  <2> QED BY <2>1, <2>4, <2>5
<1>6. ASSUME NEW p \in B PROVE \E x \in A : F[x] = p
  <2>1. PICK d \in 0 .. D - 1, m \in MicroSteps(job) : p = Place(s, d, m) BY <1>2, <1>3
  <2>2. d * tp \in Leaders /\ ReplicaOf(d * tp) = d /\ p % n = b BY <1>1, <1>3
  <2>3. <<d * tp, m>> \in A BY <1>3, <2>1, <2>2
  <2>4. F[<<d * tp, m>>] = p BY <2>1, <2>2, <2>3
  <2> QED BY <2>3, <2>4
<1>7. F \in Injection(A, B) BY <1>4, <1>5 DEF Injection, IsInjective
<1>8. F \in Surjection(A, B) BY <1>4, <1>6 DEF Surjection
<1>9. IsFiniteSet(B)
  <2>1. B \in SUBSET GlobalBatch(s) BY <1>3
  <2> QED BY <1>2, <2>1, FS_Subset
<1> HIDE DEF F
<1>10. Cardinality(A) = Cardinality(B) <=> F \in Surjection(A, B) BY <1>7, <1>9, FS_Injection
<1>11. Cardinality(A) = Cardinality(B) BY <1>8, <1>10
<1> QED BY <1>11 DEF A, B

-----------------------------------------------------------------------------
(* The average of the losses                                                *)

\* The ranks that report the loss of their replica.
Reporters == {q \in Ranks : IsLossReporter(job, q)}

\* The first rank of the last stage of a replica: its place, and that there is one.
LEMMA FirstOfLastStage ==
  ASSUME NEW tp \in Nat \ {0}, NEW dp \in Nat \ {0}, NEW pp \in Nat \ {0}
  PROVE  /\ \A d \in 0 .. dp - 1 : \E r \in Nat :
              /\ r < (tp * pp) * dp /\ r % tp = 0
              /\ r \div (tp * dp) = pp - 1 /\ (r \div tp) % dp = d
         /\ \A r \in Nat : r % tp = 0 /\ r \div (tp * dp) = pp - 1 =>
              r = ((pp - 1) * dp + ((r \div tp) % dp)) * tp
<1> DEFINE k == pp - 1
           w == tp * dp
<1>0. k \in Nat /\ w \in Nat \ {0} /\ w = dp * tp /\ k + 1 = pp
  <2>1. 1 * tp <= dp * tp /\ dp * tp \in Nat BY ProductOrder
  <2>2. tp * dp = dp * tp OBVIOUS
  <2>3. 1 * tp = tp OBVIOUS
  <2> HIDE DEF w
  <2>4. w = dp * tp BY <2>2 DEF w
  <2> QED BY <2>1, <2>3, <2>4
<1> HIDE DEF k
<1>1. ASSUME NEW z \in Nat, NEW d \in 0 .. dp - 1
      PROVE  /\ (z * dp + d) * tp \in Nat
             /\ (z * dp + d) * tp = z * w + d * tp
             /\ d * tp \in 0 .. w - 1
             /\ ((z * dp + d) * tp) % tp = 0 /\ ((z * dp + d) * tp) \div tp = z * dp + d
             /\ ((z * dp + d) * tp) \div w = z
  <2> DEFINE y == z * dp + d
  <2>1. y \in Nat OBVIOUS
  <2>2. (z * dp + d) * tp = z * (dp * tp) + d * tp OBVIOUS
  <2>3. y * tp = z * w + d * tp BY <1>0, <2>2
  <2>4. d * tp \in Nat /\ (d + 1) * tp <= dp * tp /\ (d + 1) * tp = d * tp + tp
    BY ProductOrder
  <2>5. d * tp \in 0 .. w - 1
    <3> DEFINE x == d * tp
    <3>1. x \in Nat /\ x + tp <= w BY <1>0, <2>4
    <3> HIDE DEF x, w
    <3>2. x \in 0 .. w - 1 BY <1>0, <3>1
    <3> QED BY <3>2 DEF x
  <2> HIDE DEF y, w
  <2>6. (y * tp + 0) \div tp = y /\ (y * tp + 0) % tp = 0 BY <2>1, QuotientIs
  <2>7. y * tp \in Nat /\ y * tp + 0 = y * tp BY <2>1
  <2>8. (z * w + d * tp) \div w = z BY <1>0, <2>5, QuotientIs
  <2> QED BY <2>3, <2>5, <2>6, <2>7, <2>8 DEF y
<1>2. ASSUME NEW d \in 0 .. dp - 1
      PROVE  \E r \in Nat : /\ r < (tp * pp) * dp /\ r % tp = 0
                           /\ r \div w = k /\ (r \div tp) % dp = d
  <2> DEFINE y == k * dp + d
             r == y * tp
  <2>1. /\ r \in Nat /\ r % tp = 0 /\ r \div tp = y /\ r \div w = k
        /\ r = k * w + d * tp /\ d * tp \in 0 .. w - 1
    BY <1>0, <1>1
  <2>2. y % dp = d BY <1>0, QuotientIs
  <2>3. (tp * pp) * dp = k * w + w
    <3>1. (tp * (k + 1)) * dp = k * (tp * dp) + tp * dp BY <1>0
    <3> QED BY <1>0, <3>1
  <2>4. r < (tp * pp) * dp
    <3> DEFINE a == k * w
               x == d * tp
    <3>1. a \in Nat BY <1>0
    <3> HIDE DEF a, x, w, r
    <3>2. r = a + x /\ x \in 0 .. w - 1 /\ (tp * pp) * dp = a + w BY <2>1, <2>3 DEF a, x
    <3> QED BY <1>0, <3>1, <3>2
  <2> HIDE DEF y, r, w
  <2> QED BY <2>1, <2>2, <2>4
<1>3. ASSUME NEW r \in Nat, r % tp = 0, r \div w = k
      PROVE  r = (k * dp + ((r \div tp) % dp)) * tp
  <2> DEFINE y == r \div tp
             z == y \div dp
             d == y % dp
  <2>1. y \in Nat /\ r = y * tp BY <1>3
  <2> HIDE DEF y
  <2>2. z \in Nat /\ d \in 0 .. dp - 1 /\ y = z * dp + d BY <2>1
  <2> HIDE DEF z, d, w
  <2>3. r = (z * dp + d) * tp BY <2>1, <2>2
  <2>4. r \div w = z BY <1>1, <2>2, <2>3
  <2>5. z = k BY <1>3, <2>4
  <2>6. r = (k * dp + d) * tp BY <2>3, <2>5
  <2>7. d = (r \div tp) % dp BY DEF d, y
  <2> QED BY <2>6, <2>7
<1> QED BY <1>2, <1>3 DEF k

\* Each replica has one reporter.
LEMMA ReportersAre ==
  ASSUME job \in {Deployed(j) : j \in Jobs}, IsConfig(job)
  PROVE  /\ \A r \in Reporters : ReplicaOf(r) \in 0 .. DataParallelSize(job) - 1
         /\ \A d \in 0 .. DataParallelSize(job) - 1 : \E r \in Reporters : ReplicaOf(r) = d
         /\ \A q, r \in Reporters : ReplicaOf(q) = ReplicaOf(r) => q = r
         /\ IsFiniteSet(Reporters) /\ Cardinality(Reporters) = DataParallelSize(job)
<1> DEFINE tp == job.tp
           pp == job.pp
           dp == DataParallelSize(job)
<1>1. /\ tp \in Nat \ {0} /\ pp \in Nat \ {0} /\ dp \in Nat \ {0}
      /\ WorldSize(job) = (tp * pp) * dp
  BY ParallelSizes
<1>2. /\ Ranks = 0 .. (tp * pp) * dp - 1
      /\ \A r : ReplicaOf(r) = (r \div tp) % dp
      /\ Reporters = {r \in Ranks : r % tp = 0 /\ r \div (tp * dp) = pp - 1}
  BY <1>1 DEF Ranks, ReplicaOf, RankInfo, Reporters, IsLossReporter
<1>3. \A r \in Ranks : ReplicaOf(r) \in 0 .. dp - 1 BY LeadersAre
<1>4. /\ \A d \in 0 .. dp - 1 : \E r \in Nat :
           /\ r < (tp * pp) * dp /\ r % tp = 0
           /\ r \div (tp * dp) = pp - 1 /\ (r \div tp) % dp = d
      /\ \A r \in Nat : r % tp = 0 /\ r \div (tp * dp) = pp - 1 =>
           r = ((pp - 1) * dp + ((r \div tp) % dp)) * tp
  BY <1>1, FirstOfLastStage
<1> DEFINE size == (tp * pp) * dp
<1>5. size \in Nat BY <1>1
<1> HIDE DEF tp, pp, dp
<1>6. ASSUME NEW d \in 0 .. dp - 1 PROVE \E r \in Reporters : ReplicaOf(r) = d
  <2>1. PICK r \in Nat : /\ r < size /\ r % tp = 0
                         /\ r \div (tp * dp) = pp - 1 /\ (r \div tp) % dp = d
    BY <1>4
  <2> HIDE DEF size
  <2>2. r \in 0 .. size - 1 BY <1>5, <2>1
  <2>3. r \in Reporters BY <1>2, <2>1, <2>2 DEF size
  <2>4. ReplicaOf(r) = d BY <1>2, <2>1
  <2> QED BY <2>3, <2>4
<1>7. ASSUME NEW r \in Reporters PROVE r = ((pp - 1) * dp + ReplicaOf(r)) * tp
  <2>1. r \in 0 .. size - 1 /\ r % tp = 0 /\ r \div (tp * dp) = pp - 1 BY <1>2
  <2> HIDE DEF size
  <2>2. r \in Nat BY <1>5, <2>1
  <2>3. r = ((pp - 1) * dp + ((r \div tp) % dp)) * tp BY <1>4, <2>1, <2>2
  <2>4. ReplicaOf(r) = (r \div tp) % dp BY <1>2
  <2> QED BY <2>3, <2>4
<1>8. ASSUME NEW q \in Reporters, NEW r \in Reporters, ReplicaOf(q) = ReplicaOf(r) PROVE q = r
  <2>1. q = ((pp - 1) * dp + ReplicaOf(q)) * tp BY <1>7
  <2>2. r = ((pp - 1) * dp + ReplicaOf(r)) * tp BY <1>7
  <2> QED BY <1>8, <2>1, <2>2
<1>9. IsFiniteSet(Reporters) /\ Cardinality(Reporters) = dp
  <2> DEFINE F == [r \in Reporters |-> ReplicaOf(r)]
             D == 0 .. dp - 1
  <2>1. Reporters \subseteq Ranks BY DEF Reporters
  <2>2. F \in Injection(Reporters, D)
    BY <1>3, <1>8, <2>1 DEF Injection, IsInjective
  <2>3. F \in Surjection(Reporters, D) BY <1>3, <1>6, <2>1 DEF Surjection
  <2>4. IsFiniteSet(D) /\ Cardinality(D) = dp BY <1>1, FS_Interval
  <2> HIDE DEF F, D
  <2> QED BY <2>2, <2>3, <2>4, FS_Injection
<1> QED BY <1>2, <1>3, <1>6, <1>8, <1>9 DEF dp, Reporters

\* The datums dealt to a rank, by batch.
Parts(q, s) ==
  [m \in 1 .. GradAccumSteps(job) |-> Datums(LocalBatches(q, s)[m - 1])]

\* Its batches are those at its places in the global batch, none of them empty.
LEMMA DealtParts ==
  ASSUME job \in {Deployed(j) : j \in Jobs}, IsConfig(job), batches.ok, HaveTrainingData(batches),
         NEW s \in Nat, NEW q \in Ranks
  PROVE  /\ Parts(q, s) \in Seq(Seq(Nat \X Nat)) /\ Len(Parts(q, s)) = GradAccumSteps(job)
         /\ GradAccumSteps(job) \in Nat \ {0}
         /\ LogicalBatch(LocalBatches(q, s)) = FlattenSeq(Parts(q, s))
         /\ \A k \in 1 .. GradAccumSteps(job) :
              LET b == Place(s, ReplicaOf(q), k - 1) % BatchCount
              IN /\ k - 1 \in MicroSteps(job) /\ b \in 0 .. BatchCount - 1
                 /\ Place(s, ReplicaOf(q), k - 1) \in GlobalBatch(s)
                 /\ Len(Parts(q, s)[k]) = Len(batches.value[b + 1])
                 /\ Len(Parts(q, s)[k]) \in Nat \ {0}
                 /\ \A i \in 1 .. Len(Parts(q, s)[k]) : Parts(q, s)[k][i] = <<b, i>>
<1> DEFINE G == GradAccumSteps(job)
           n == BatchCount
           b(k) == Place(s, ReplicaOf(q), k - 1) % n
<1>1. G \in Nat \ {0} /\ MicroSteps(job) = 0 .. G - 1
  BY ParallelSizes DEF MicroSteps
<1>2. n \in Nat \ {0} /\ \A c \in 1 .. n : Len(batches.value[c]) \in Nat \ {0}
  BY DEF HaveTrainingData, BatchCount
<1> HIDE DEF G, n
<1>3. ASSUME NEW c \in 0 .. n - 1
      PROVE  /\ Datums(c) \in Seq(Nat \X Nat) /\ Len(Datums(c)) = Len(batches.value[c + 1])
             /\ Len(Datums(c)) \in Nat \ {0}
             /\ \A i \in 1 .. Len(Datums(c)) : Datums(c)[i] = <<c, i>>
  <2> DEFINE size == Len(batches.value[c + 1])
  <2>1. c \in Nat /\ size \in Nat \ {0} BY <1>2
  <2>2. Datums(c) = [i \in 1 .. size |-> <<c, i>>] BY DEF Datums
  <2> HIDE DEF size
  <2>3. Datums(c) \in Seq(Nat \X Nat) /\ Len(Datums(c)) = size BY <2>1, <2>2
  <2> QED BY <2>1, <2>2, <2>3 DEF size
<1>4. ASSUME NEW k \in 1 .. G
      PROVE  /\ k - 1 \in MicroSteps(job) /\ Place(s, ReplicaOf(q), k - 1) \in GlobalBatch(s)
             /\ b(k) \in 0 .. n - 1 /\ Parts(q, s)[k] = Datums(b(k))
  <2>1. k - 1 \in MicroSteps(job) BY <1>1
  <2>2. ReplicaOf(q) \in 0 .. DataParallelSize(job) - 1 BY LeadersAre
  <2>3. Place(s, ReplicaOf(q), k - 1) \in GlobalBatch(s) /\ GlobalBatch(s) \subseteq Int
    BY <2>1, <2>2, Places
  <2>4. b(k) \in 0 .. n - 1
    <3> DEFINE p == Place(s, ReplicaOf(q), k - 1)
    <3>1. p \in Int BY <2>3
    <3> HIDE DEF p
    <3>2. p % n \in 0 .. n - 1 BY <1>2, <3>1
    <3> QED BY <3>2 DEF p
  <2>5. LocalBatches(q, s)[k - 1] = b(k)
    BY <2>1 DEF LocalBatches, DealtIndex, Place, n
  <2>6. Parts(q, s)[k] = Datums(LocalBatches(q, s)[k - 1]) BY DEF Parts, G
  <2> QED BY <2>1, <2>3, <2>4, <2>5, <2>6
<1>5. Parts(q, s) \in Seq(Seq(Nat \X Nat)) /\ Len(Parts(q, s)) = G
  <2>1. DOMAIN Parts(q, s) = 1 .. G /\ Parts(q, s) = [k \in 1 .. G |-> Parts(q, s)[k]]
    BY DEF Parts, G
  <2>2. \A k \in 1 .. G : Parts(q, s)[k] \in Seq(Nat \X Nat) BY <1>3, <1>4
  <2>3. Parts(q, s) \in [1 .. G -> Seq(Nat \X Nat)] BY <2>1, <2>2
  <2> QED BY <1>1, <2>3
<1>6. LogicalBatch(LocalBatches(q, s)) = FlattenSeq(Parts(q, s)) BY DEF LogicalBatch, Parts
<1> HIDE DEF b
<1>7. ASSUME NEW k \in 1 .. G
      PROVE  /\ Len(Parts(q, s)[k]) = Len(batches.value[b(k) + 1])
             /\ Len(Parts(q, s)[k]) \in Nat \ {0}
             /\ \A i \in 1 .. Len(Parts(q, s)[k]) : Parts(q, s)[k][i] = <<b(k), i>>
  BY <1>3, <1>4
<1> QED BY <1>1, <1>4, <1>5, <1>6, <1>7 DEF G, n, b

\* The microbatches of a rank have the datums that were dealt to it, in their order, and
\* are as many as were dealt where all the batches of the step are full.
LEMMA LossIsOfParts ==
  ASSUME job \in {Deployed(j) : j \in Jobs}, IsConfig(job), batches.ok, HaveTrainingData(batches),
         NEW s \in Nat, NEW q \in Ranks, trained[q][s + 1] = LocalBatches(q, s)
  PROVE  /\ FlattenSeq(LossOf(q, s)) = FlattenSeq(Parts(q, s))
         /\ (\A p \in GlobalBatch(s) : IsFull(p % BatchCount)) =>
              Len(LossOf(q, s)) = GradAccumSteps(job)
<1> DEFINE G == GradAccumSteps(job)
           ss == Parts(q, s)
           all == FlattenSeq(ss)
           size == job.micro_batch_size
<1>1. /\ ss \in Seq(Seq(Nat \X Nat)) /\ Len(ss) = G /\ G \in Nat \ {0}
      /\ LogicalBatch(LocalBatches(q, s)) = all
      /\ \A k \in 1 .. G :
           /\ Place(s, ReplicaOf(q), k - 1) \in GlobalBatch(s)
           /\ Len(ss[k]) = Len(batches.value[(Place(s, ReplicaOf(q), k - 1) % BatchCount) + 1])
           /\ Len(ss[k]) \in Nat \ {0}
  BY DealtParts
<1>2. size \in Nat \ {0}
  <2>1. PICK j \in Jobs : job = Deployed(j) OBVIOUS
  <2> QED BY <2>1, DeployedSizes
<1>3. LossOf(q, s) = Batches(all, size) BY <1>1 DEF LossOf
<1> HIDE DEF ss, size, G
<1>4. all \in Seq(Nat \X Nat) BY <1>1, Flattened
<1>5. all # <<>>
  <2>1. PICK start : AreStarts(start, all, ss, Len(ss)) BY <1>1, FlatPlaces
  <2>2. 1 \in 1 .. Len(ss) /\ Len(ss[1]) \in Nat \ {0} BY <1>1
  <2>3. start[1] \in Nat /\ start[1] + Len(ss[1]) <= Len(all) BY <2>1, <2>2 DEF AreStarts
  <2>4. Len(all) # 0 BY <1>4, <2>2, <2>3
  <2> QED BY <2>4
<1> HIDE DEF all
<1>6. FlattenSeq(LossOf(q, s)) = all BY <1>2, <1>3, <1>4, <1>5, BatchesKeepTheDatums
<1>7. ASSUME \A p \in GlobalBatch(s) : IsFull(p % BatchCount)
      PROVE  Len(LossOf(q, s)) = G
  <2>1. \A k \in 1 .. Len(ss) : Len(ss[k]) = size BY <1>1, <1>7 DEF IsFull, size
  <2>2. Len(all) = G * size BY <1>1, <1>2, <2>1, FlatLength DEF all
  <2>3. ((G * size) + (size - 1)) \div size = G
    <3>1. size - 1 \in 0 .. size - 1 BY <1>2
    <3> QED BY <1>1, <1>2, <3>1, QuotientIs
  <2> DEFINE count == (Len(all) + size - 1) \div size
  <2>4. count = G
    <3> DEFINE x == G * size
    <3>1. x \in Nat BY <1>1, <1>2
    <3> HIDE DEF x
    <3>2. Len(all) + (size - 1) = x + (size - 1) BY <2>2 DEF x
    <3>3. (x + (size - 1)) \div size = G BY <2>3 DEF x
    <3>4. count = (Len(all) + (size - 1)) \div size OBVIOUS
    <3> HIDE DEF count
    <3> QED BY <3>2, <3>3, <3>4
  <2>5. LossOf(q, s) = [c \in 1 .. count |-> SubSeq(all, (c - 1) * size + 1,
                                                    Least(c * size, Len(all)))]
    BY <1>3 DEF Batches
  <2> HIDE DEF count
  <2> QED BY <1>1, <2>4, <2>5
<1> QED BY <1>6, <1>7 DEF all, ss, G

\* Where the datums of a rank start, by batch, and who reports the loss of a replica.
StartsOf(q, s) ==
  CHOOSE start : AreStarts(start, FlattenSeq(Parts(q, s)), Parts(q, s), Len(Parts(q, s)))
ReporterOf(d) == CHOOSE q \in Reporters : ReplicaOf(q) = d

\* A loss counts datum i of batch b once for each time b occurs in the global batch.
LEMMA EachDatumCounts ==
  ASSUME job \in {Deployed(j) : j \in Jobs}, IsConfig(job), batches.ok, HaveTrainingData(batches),
         NEW s \in Nat, \A q \in Ranks : trained[q][s + 1] = LocalBatches(q, s),
         NEW b \in 0 .. BatchCount - 1, NEW i \in 1 .. Len(batches.value[b + 1])
  PROVE  Cardinality(Counted(Average(s), b, i)) = Cardinality(Occurrences(s, BatchCount, b))
<1> DEFINE n == BatchCount
           D == DataParallelSize(job)
           G == GradAccumSteps(job)
           A == Counted(Average(s), b, i)
           B == Occurrences(s, n, b)
           flat(q) == FlattenSeq(Parts(q, s))
           by(p) == ReporterOf(p % D)
           part(p) == (p \div D) - s * G + 1
           F == [p \in B |-> <<by(p), StartsOf(by(p), s)[part(p)] + i>>]
<1>1. Reporters \subseteq Ranks BY DEF Reporters
<1>2. /\ \A q \in Reporters : ReplicaOf(q) \in 0 .. D - 1
      /\ \A d \in 0 .. D - 1 : ReporterOf(d) \in Reporters /\ ReplicaOf(ReporterOf(d)) = d
      /\ \A q \in Reporters : ReporterOf(ReplicaOf(q)) = q
  BY ReportersAre DEF ReporterOf
<1>3. /\ \A m \in MicroSteps(job), d \in 0 .. D - 1 :
           /\ Place(s, d, m) \in GlobalBatch(s) /\ Place(s, d, m) % D = d
           /\ Place(s, d, m) \div D = s * G + m
      /\ \A p \in GlobalBatch(s) : \E d \in 0 .. D - 1, m \in MicroSteps(job) : p = Place(s, d, m)
      /\ IsFiniteSet(GlobalBatch(s)) /\ MicroSteps(job) \subseteq Nat /\ s * G \in Nat
  BY Places
<1>4. B = {p \in GlobalBatch(s) : p % n = b} BY DEF Occurrences
<1>5. ASSUME NEW q \in Reporters
      PROVE  /\ flat(q) \in Seq(Nat \X Nat) /\ G \in Nat \ {0}
             /\ FlattenSeq(Average(s)[q]) = flat(q)
             /\ AreStarts(StartsOf(q, s), flat(q), Parts(q, s), G)
             /\ \A k \in 1 .. G :
                  LET c == Place(s, ReplicaOf(q), k - 1) % n
                  IN /\ k - 1 \in MicroSteps(job)
                     /\ Len(Parts(q, s)[k]) = Len(batches.value[c + 1])
                     /\ Len(Parts(q, s)[k]) \in Nat \ {0}
                     /\ \A x \in 1 .. Len(Parts(q, s)[k]) : Parts(q, s)[k][x] = <<c, x>>
  <2>1. q \in Ranks BY <1>1
  <2>2. Average(s)[q] = LossOf(q, s) BY DEF Average, Reporters
  <2>3. /\ Parts(q, s) \in Seq(Seq(Nat \X Nat)) /\ Len(Parts(q, s)) = G /\ G \in Nat \ {0}
        /\ \A k \in 1 .. G :
             LET c == Place(s, ReplicaOf(q), k - 1) % n
             IN /\ k - 1 \in MicroSteps(job)
                /\ Len(Parts(q, s)[k]) = Len(batches.value[c + 1])
                /\ Len(Parts(q, s)[k]) \in Nat \ {0}
                /\ \A x \in 1 .. Len(Parts(q, s)[k]) : Parts(q, s)[k][x] = <<c, x>>
    BY <2>1, DealtParts
  <2>4. FlattenSeq(LossOf(q, s)) = flat(q) BY <2>1, LossIsOfParts
  <2>5. flat(q) \in Seq(Nat \X Nat) BY <2>3, Flattened
  <2>6. AreStarts(StartsOf(q, s), flat(q), Parts(q, s), G)
    <3> HIDE DEF G
    <3>1. \E start : AreStarts(start, flat(q), Parts(q, s), Len(Parts(q, s)))
      BY <2>3, FlatPlaces
    <3>2. AreStarts(StartsOf(q, s), flat(q), Parts(q, s), Len(Parts(q, s)))
      BY <3>1 DEF StartsOf
    <3> QED BY <2>3, <3>2
  <2> HIDE DEF flat, G
  <2> QED BY <2>2, <2>3, <2>4, <2>5, <2>6
<1>6. A = {qp \in UNION {{q} \X (1 .. Len(flat(q))) : q \in Reporters} :
             flat(qp[1])[qp[2]] = <<b, i>>}
  <2>1. DOMAIN Average(s) = Reporters BY DEF Average, Reporters
  <2>2. \A q \in Reporters : DOMAIN FlattenSeq(Average(s)[q]) = 1 .. Len(flat(q)) BY <1>5
  <2>3. UNION {{q} \X DOMAIN FlattenSeq(Average(s)[q]) : q \in DOMAIN Average(s)}
          = UNION {{q} \X (1 .. Len(flat(q))) : q \in Reporters}
    BY <2>1, <2>2
  <2>4. \A qp \in UNION {{q} \X (1 .. Len(flat(q))) : q \in Reporters} :
          FlattenSeq(Average(s)[qp[1]])[qp[2]] = flat(qp[1])[qp[2]]
    BY <1>5
  <2> HIDE DEF flat
  <2> QED BY <2>3, <2>4 DEF Counted
<1> HIDE DEF A, B, n, D, G, flat
<1>7. \A q, x : <<q, x>> \in A <=>
        q \in Reporters /\ x \in 1 .. Len(flat(q)) /\ flat(q)[x] = <<b, i>>
  BY <1>6
<1>8. ASSUME NEW p \in B
      PROVE  /\ by(p) \in Reporters /\ part(p) \in 1 .. G
             /\ p = Place(s, ReplicaOf(by(p)), part(p) - 1)
             /\ p % n = b
             /\ i \in 1 .. Len(Parts(by(p), s)[part(p)])
  <2>1. PICK d \in 0 .. D - 1, m \in MicroSteps(job) : p = Place(s, d, m) BY <1>3, <1>4
  <2>2. p % D = d /\ p \div D = s * G + m /\ m \in Nat /\ p % n = b /\ s * G \in Nat
    BY <1>3, <1>4, <2>1
  <2>3. by(p) \in Reporters /\ ReplicaOf(by(p)) = d BY <1>2, <2>2
  <2>4. part(p) = m + 1
    <3> DEFINE y == s * G
    <3> HIDE DEF y
    <3>1. y \in Nat /\ p \div D = y + m BY <2>2 DEF y
    <3>2. (p \div D) - y + 1 = m + 1 BY <2>2, <3>1
    <3> QED BY <3>2 DEF y
  <2> HIDE DEF by, part
  <2>5. part(p) \in 1 .. G
    <3>1. m \in 0 .. G - 1 BY DEF MicroSteps, G
    <3> QED BY <1>5, <2>3, <2>4, <3>1
  <2>6. part(p) - 1 = m BY <2>2, <2>4
  <2>7. Len(Parts(by(p), s)[part(p)]) = Len(batches.value[b + 1])
    BY <1>5, <2>1, <2>2, <2>3, <2>5, <2>6
  <2> QED BY <2>1, <2>2, <2>3, <2>5, <2>6, <2>7
<1> HIDE DEF by, part
<1>9. \A p \in B : F[p] = <<by(p), StartsOf(by(p), s)[part(p)] + i>> OBVIOUS
<1>10. F \in [B -> A]
  <2> SUFFICES ASSUME NEW p \in B PROVE <<by(p), StartsOf(by(p), s)[part(p)] + i>> \in A
    OBVIOUS
  <2> DEFINE q == by(p)
             k == part(p)
             x == StartsOf(q, s)[k]
  <2>1. /\ q \in Reporters /\ k \in 1 .. G /\ i \in 1 .. Len(Parts(q, s)[k])
        /\ Place(s, ReplicaOf(q), k - 1) % n = b
    BY <1>8
  <2> HIDE DEF q, k
  <2>2. AreStarts(StartsOf(q, s), flat(q), Parts(q, s), G) BY <1>5, <2>1
  <2>3. /\ x \in Nat /\ x + Len(Parts(q, s)[k]) <= Len(flat(q))
        /\ flat(q)[x + i] = Parts(q, s)[k][i]
    BY <2>1, <2>2 DEF AreStarts
  <2>4. Parts(q, s)[k][i] = <<b, i>> /\ Len(Parts(q, s)[k]) \in Nat /\ Len(flat(q)) \in Nat
    <3>1. Parts(q, s)[k][i] = <<Place(s, ReplicaOf(q), k - 1) % n, i>> BY <1>5, <2>1
    <3>2. Len(Parts(q, s)[k]) \in Nat BY <1>5, <2>1
    <3>3. Len(flat(q)) \in Nat
      <4>1. flat(q) \in Seq(Nat \X Nat) BY <1>5, <2>1
      <4> QED BY <4>1
    <3> QED BY <2>1, <3>1, <3>2, <3>3
  <2> HIDE DEF x
  <2>5. x + i \in 1 .. Len(flat(q)) BY <2>1, <2>3, <2>4
  <2>6. <<q, x + i>> \in A BY <1>7, <2>1, <2>3, <2>4, <2>5
  <2> QED BY <2>6 DEF q, k, x
<1>11. ASSUME NEW x \in B, NEW y \in B, F[x] = F[y] PROVE x = y
  <2> DEFINE q == by(x)
             start == StartsOf(q, s)
             k == part(x)
             l == part(y)
  <2>1. by(y) = q /\ start[k] + i = start[l] + i BY <1>9, <1>11
  <2>2. /\ q \in Reporters /\ k \in 1 .. G /\ l \in 1 .. G
        /\ x = Place(s, ReplicaOf(q), k - 1) /\ y = Place(s, ReplicaOf(q), l - 1)
        /\ i \in 1 .. Len(Parts(q, s)[k]) /\ i \in 1 .. Len(Parts(q, s)[l])
    BY <1>8, <2>1
  <2>3. AreStarts(start, flat(q), Parts(q, s), G) BY <1>5, <2>2
  <2>4. Len(Parts(q, s)[k]) \in Nat /\ Len(Parts(q, s)[l]) \in Nat /\ G \in Nat BY <1>5, <2>2
  <2> HIDE DEF q, start, k, l
  <2>5. start[k] \in Nat /\ start[l] \in Nat BY <2>2, <2>3 DEF AreStarts
  <2>6. ~(k < l)
    <3>1. k < l => start[k] + Len(Parts(q, s)[k]) <= start[l] BY <2>2, <2>3 DEF AreStarts
    <3> QED BY <2>1, <2>2, <2>4, <2>5, <3>1
  <2>7. ~(l < k)
    <3>1. l < k => start[l] + Len(Parts(q, s)[l]) <= start[k] BY <2>2, <2>3 DEF AreStarts
    <3> QED BY <2>1, <2>2, <2>4, <2>5, <3>1
  <2>8. k = l BY <2>2, <2>4, <2>6, <2>7
  <2> QED BY <2>2, <2>8
<1>12. ASSUME NEW a \in A PROVE \E p \in B : F[p] = a
  <2>0. PICK q \in Reporters : \E x \in 1 .. Len(flat(q)) : a = <<q, x>> /\ flat(q)[x] = <<b, i>>
    BY <1>6
  <2>1. PICK x \in 1 .. Len(flat(q)) : a = <<q, x>> /\ flat(q)[x] = <<b, i>> BY <2>0
  <2>2. AreStarts(StartsOf(q, s), flat(q), Parts(q, s), G) /\ G \in Nat BY <1>5
  <2>3. PICK k \in 1 .. G : \E z \in 1 .. Len(Parts(q, s)[k]) : x = StartsOf(q, s)[k] + z
    BY <2>1, <2>2 DEF AreStarts
  <2>4. PICK z \in 1 .. Len(Parts(q, s)[k]) : x = StartsOf(q, s)[k] + z BY <2>3
  <2>5. flat(q)[x] = Parts(q, s)[k][z] BY <2>2, <2>4 DEF AreStarts
  <2> DEFINE p == Place(s, ReplicaOf(q), k - 1)
  <2>6. k - 1 \in MicroSteps(job) /\ Parts(q, s)[k][z] = <<p % n, z>> BY <1>5
  <2>7. p % n = b /\ z = i BY <2>1, <2>5, <2>6
  <2>8. /\ p \in GlobalBatch(s) /\ p % D = ReplicaOf(q) /\ p \div D = s * G + (k - 1)
    BY <1>2, <1>3, <2>6
  <2>9. p \in B BY <1>4, <2>7, <2>8
  <2>10. by(p) = q BY <1>2, <2>8 DEF by
  <2>11. part(p) = k
    <3> DEFINE y == s * G
    <3> HIDE DEF y, p
    <3>1. y \in Nat /\ p \div D = y + (k - 1) /\ k \in Int BY <1>3, <2>2, <2>8 DEF y
    <3>2. (p \div D) - y + 1 = k BY <3>1
    <3> QED BY <3>2 DEF y, part
  <2> HIDE DEF p
  <2>12. F[p] = <<q, StartsOf(q, s)[k] + i>> BY <1>9, <2>9, <2>10, <2>11
  <2> QED BY <2>1, <2>4, <2>7, <2>9, <2>12
<1> HIDE DEF F
<1>13. F \in Injection(B, A) BY <1>10, <1>11 DEF Injection, IsInjective
<1>14. F \in Surjection(B, A) BY <1>10, <1>12 DEF Surjection
<1>15. IsFiniteSet(B)
  <2>1. B \in SUBSET GlobalBatch(s) BY <1>4
  <2> QED BY <1>3, <2>1, FS_Subset
<1>16. Cardinality(A) = Cardinality(B) BY <1>13, <1>14, <1>15, FS_Surjection
<1> QED BY <1>16 DEF A, B, n

\* What rank 0 gets in a step that all ranks have trained is the mean of it.
LEMMA AverageIsTheMean ==
  ASSUME job \in {Deployed(j) : j \in Jobs}, IsConfig(job), batches.ok, HaveTrainingData(batches),
         NEW s \in Nat, \A q \in Ranks : trained[q][s + 1] = LocalBatches(q, s)
  PROVE  IsMeanOf(Average(s), s)
<1>1. DOMAIN Average(s) = Reporters /\ \A q \in Reporters : Average(s)[q] = LossOf(q, s)
  BY DEF Average, Reporters
<1>2. /\ \A d \in 0 .. DataParallelSize(job) - 1 : \E r \in Reporters : ReplicaOf(r) = d
      /\ \A q, r \in Reporters : ReplicaOf(q) = ReplicaOf(r) => q = r
  BY ReportersAre
<1>3. ASSUME NEW b \in 0 .. BatchCount - 1, NEW i \in 1 .. Len(batches.value[b + 1])
      PROVE  Cardinality(Counted(Average(s), b, i))
               = Cardinality({p \in GlobalBatch(s) : p % BatchCount = b})
  BY EachDatumCounts DEF Occurrences
<1>4. ASSUME \A p \in GlobalBatch(s) : IsFull(p % BatchCount), NEW q \in Reporters
      PROVE  Len(Average(s)[q]) = GradAccumSteps(job)
  <2>1. q \in Ranks BY DEF Reporters
  <2> QED BY <1>1, <1>4, <2>1, LossIsOfParts
<1> QED BY <1>1, <1>2, <1>3, <1>4 DEF IsMeanOf

-----------------------------------------------------------------------------
(* The shapes of the steps, as the ranks see them                           *)

\* Ranks that run are lost, or nothing happens to any rank.
Loses ==
  /\ at' \in [Ranks -> Stages]
  /\ \A q \in Ranks : at'[q] = at[q] \/ (Alive(q) /\ at'[q] \in Lost)
  /\ UNCHANGED <<job, step, entered, trained, files>>

\* Rank r goes on to its next stage, out of a collective when all have entered it.
Advances(r) ==
  /\ r \in Ranks /\ Alive(r)
  /\ at[r] \in Collectives => \A q \in Group(r) : Occasion(r) \in entered[q]
  /\ at[r] = "load" => batches.ok
  /\ step' = [step EXCEPT ![r] = IF at[r] \in {"train_step", "optim_step"} THEN @ + 1 ELSE @]
  /\ at' = [at EXCEPT ![r] = Following(at[r], step'[r])]
  /\ stored' = [stored EXCEPT ![r] = IF at[r] = "store" THEN TRUE ELSE @]
  /\ payload' = IF at[r] = "store" /\ r = 0 THEN adapter ELSE payload
  /\ result' = (result \/ (at[r] = "result" /\ r = 0))
  /\ adapter' = (adapter \/ (at[r] = "export" /\ r = job.writer /\ NodeOf(r) = 0))
  /\ losses' = IF at[r] = "average" /\ r = 0 THEN Append(losses, Average(step[r] - 1)) ELSE losses
  /\ trained' = IF at[r] = "forward_backward"
                THEN [trained EXCEPT ![r] = Append(@, LocalBatches(r, step[r]))]
                ELSE trained
  /\ UNCHANGED <<job, batches, entered>>

\* Container n starts its ranks.
Starts(n) ==
  /\ n \in Nodes /\ node[n] = "called"
  /\ at' = [r \in Ranks |-> IF NodeOf(r) = n THEN FirstStage ELSE at[r]]
  /\ IsConfig(job)
  /\ UNCHANGED <<job, batches, step, entered, trained, files>>

\* The stages that follow one another.
LEMMA FollowingStages ==
  ASSUME NEW stage \in Collectives \cup LocalStages, NEW s \in Nat, job.steps \in Nat, job.mode \in Modes
  PROVE  /\ stage = "init" => Following(stage, s) \in
              CASE job.mode = "torchrun-env" -> {"gather"}
                [] job.mode = "nccl-smoke" -> {"all_reduce"}
                [] OTHER -> {"load"}
         /\ stage \in {"load", "average", "train_step"} /\ Saves => Following(stage, s) =
              IF s < job.steps THEN "forward_backward" ELSE "train_barrier"
         /\ stage \in {"load", "average", "train_step"} /\ ~Saves => Following(stage, s) =
              IF s < job.steps THEN "train_step" ELSE "result"
         /\ stage = "forward_backward" => Following(stage, s) = "optim_step"
         /\ stage = "optim_step" => Following(stage, s) = "average"
         /\ stage = "train_barrier" => Following(stage, s) = "export"
         /\ stage = "export" => Following(stage, s) = "adapter_barrier"
         /\ stage = "adapter_barrier" => Following(stage, s) = "store"
         /\ stage = "store" => Following(stage, s) = "saved_barrier"
         /\ stage \in {"saved_barrier", "gather", "all_reduce"} => Following(stage, s) = "result"
         /\ stage = "result" => Following(stage, s) = IF Saves THEN "close" ELSE "end_barrier"
         /\ stage = "end_barrier" => Following(stage, s) = "close"
         /\ stage = "close" => Following(stage, s) = "done"
BY DEF Following, AfterInit, LoopOrAfter, Loop, BaselineLoop, AfterSaving, SaveStages, Saves, Modes

\* A rank's own step is one of three.
LEMMA RankShapes ==
  ASSUME TypeOK, NEW r \in Ranks, RankMoves(r) \/ RankFails(r)
  PROVE  Loses \/ Enter(r) \/ Advances(r)
<1> USE DEF TypeOK, Reaches, files, launch
<1>0. ASSUME at' = [at EXCEPT ![r] = "failed"], Alive(r),
             UNCHANGED <<job, step, entered, trained, files>>
      PROVE  Loses
  BY <1>0 DEF Loses, Lost, Stages
<1>1. CASE Enter(r) BY <1>1
<1>2. CASE Leave(r)
  <2>1. Alive(r) /\ at[r] # "store" /\ at[r] # "result" /\ at[r] # "optim_step"
    BY <1>2 DEF Leave, Alive, Collectives
  <2>2. step' = [step EXCEPT ![r] = IF at[r] \in {"train_step", "optim_step"} THEN @ + 1 ELSE @]
    BY <1>2, <2>1 DEF Leave
  <2>3. stored' = [stored EXCEPT ![r] = IF at[r] = "store" THEN TRUE ELSE @]
    BY <1>2, <2>1 DEF Leave
  <2>4. result' = (result \/ (at[r] = "result" /\ r = 0)) BY <1>2, <2>1 DEF Leave
  <2>5. payload' = IF at[r] = "store" /\ r = 0 THEN adapter ELSE payload
    BY <1>2, <2>1 DEF Leave
  <2>6. at[r] # "load" BY <1>2 DEF Leave, Collectives
  <2> QED BY <1>2, <2>1, <2>2, <2>3, <2>4, <2>5, <2>6 DEF Leave, Advances
<1>3. CASE Load(r)
  <2>1. at[r] = "load" /\ Alive(r) /\ at[r] \notin Collectives
    BY <1>3 DEF Load, Alive, LocalStages, Collectives
  <2>2. CASE at' = [at EXCEPT ![r] = "failed"]
    BY <1>0, <1>3, <2>1, <2>2 DEF Load
  <2>3. CASE batches.ok /\ at' = [at EXCEPT ![r] = Following("load", step[r])]
    <3>1. step' = [step EXCEPT ![r] = IF at[r] \in {"train_step", "optim_step"} THEN @ + 1 ELSE @]
      BY <1>3, <2>1 DEF Load
    <3>2. stored' = [stored EXCEPT ![r] = IF at[r] = "store" THEN TRUE ELSE @]
      BY <1>3, <2>1 DEF Load
    <3>3. at' = [at EXCEPT ![r] = Following(at[r], step'[r])] BY <1>3, <2>1, <2>3 DEF Load
    <3> QED BY <1>3, <2>1, <2>3, <3>1, <3>2, <3>3 DEF Load, Advances
  <2> QED BY <1>3, <2>2, <2>3 DEF Load
<1>4. CASE OptimStep(r)
  <2>1. at[r] = "optim_step" /\ Alive(r) /\ at[r] \notin Collectives
    BY <1>4 DEF OptimStep, Alive, LocalStages, Collectives
  <2>2. stored' = [stored EXCEPT ![r] = IF at[r] = "store" THEN TRUE ELSE @]
    BY <1>4, <2>1 DEF OptimStep
  <2> QED BY <1>4, <2>1, <2>2 DEF OptimStep, Advances
<1>5. CASE Store(r)
  <2>1. at[r] = "store" /\ Alive(r) /\ at[r] \notin Collectives
    BY <1>5 DEF Store, Alive, LocalStages, Collectives
  <2>2. step' = [step EXCEPT ![r] = IF at[r] \in {"train_step", "optim_step"} THEN @ + 1 ELSE @]
    BY <1>5, <2>1 DEF Store
  <2> QED BY <1>5, <2>1, <2>2 DEF Store, Advances
<1>6. CASE WriteResult(r)
  <2>1. at[r] = "result" /\ Alive(r) /\ at[r] \notin Collectives
    BY <1>6 DEF WriteResult, Alive, LocalStages, Collectives
  <2>2. step' = [step EXCEPT ![r] = IF at[r] \in {"train_step", "optim_step"} THEN @ + 1 ELSE @]
    BY <1>6, <2>1 DEF WriteResult
  <2>3. stored' = [stored EXCEPT ![r] = IF at[r] = "store" THEN TRUE ELSE @]
    BY <1>6, <2>1 DEF WriteResult
  <2> QED BY <1>6, <2>1, <2>2, <2>3 DEF WriteResult, Advances
<1>7. CASE Close(r)
  <2>1. at[r] = "close" /\ Alive(r) /\ at[r] \notin Collectives
    BY <1>7 DEF Close, Alive, LocalStages, Collectives
  <2>2. step' = [step EXCEPT ![r] = IF at[r] \in {"train_step", "optim_step"} THEN @ + 1 ELSE @]
    BY <1>7, <2>1 DEF Close
  <2>3. stored' = [stored EXCEPT ![r] = IF at[r] = "store" THEN TRUE ELSE @]
    BY <1>7, <2>1 DEF Close
  <2> QED BY <1>7, <2>1, <2>2, <2>3 DEF Close, Advances
<1>8. CASE RefuseBatch(r) BY <1>0, <1>8 DEF RefuseBatch, Alive, Collectives
<1>9. CASE PeerLost(r) BY <1>0, <1>9 DEF PeerLost, Alive
<1>10. CASE RankFails(r) BY <1>0, <1>10 DEF RankFails
<1> QED BY <1>1, <1>2, <1>3, <1>4, <1>5, <1>6, <1>7, <1>8, <1>9, <1>10 DEF RankMoves

\* What happens to a container, or in the launcher, starts ranks or loses some.
LEMMA NodeShapes ==
  ASSUME TypeOK, NEW n \in Nodes, NodeMoves(n) \/ NodeFails(n)
  PROVE  Loses \/ Starts(n)
<1> USE DEF TypeOK, files, launch
<1>1. CASE StartNode(n)
  BY <1>1 DEF StartNode, Loses, Starts, IsSupported
<1>2. CASE AgentReturns(n) BY <1>2 DEF AgentReturns, Loses
<1>3. CASE AgentRaises(n) BY <1>3 DEF AgentRaises, Loses, Killed, Lost, Stages
<1>4. CASE NodeFails(n) BY <1>4 DEF NodeFails, Loses, Killed, Lost, Stages
<1> QED BY <1>1, <1>2, <1>3, <1>4 DEF NodeMoves

LEMMA StepShapes ==
  ASSUME TypeOK, [Next]_vars
  PROVE  \/ Loses
         \/ \E r \in Ranks : Enter(r) \/ Advances(r)
         \/ \E n \in Nodes : Starts(n)
<1> USE DEF files, launch, TypeOK
<1>1. CASE PrepareDataset BY <1>1 DEF PrepareDataset, Loses
<1>2. CASE CallTrainer BY <1>2 DEF CallTrainer, Loses
<1>3. CASE Commit BY <1>3 DEF Commit, Loses
<1>4. CASE ReturnResult BY <1>4 DEF ReturnResult, Loses
<1>5. CASE UNCHANGED vars BY <1>5 DEF vars, Loses
<1>6. CASE \E n \in Nodes : NodeMoves(n) \/ NodeFails(n) BY <1>6, NodeShapes
<1>7. CASE \E r \in Ranks : RankMoves(r) \/ RankFails(r) BY <1>7, RankShapes
<1> QED BY <1>1, <1>2, <1>3, <1>4, <1>5, <1>6, <1>7 DEF Next, Moves, Faults

-----------------------------------------------------------------------------
(* What the ranks have done                                                 *)

\* Losing ranks takes nothing back.
LEMMA LosesRanks ==
  ASSUME TypeOK, RanksAreRight, Loses
  PROVE  RanksAreRight'
<1>0. job' = job /\ UNCHANGED <<step, entered, stored, adapter>> BY DEF Loses, files
<1>1. Ranks' = Ranks /\ AdapterBarrier' = AdapterBarrier /\ (Saves' <=> Saves)
      /\ \A r : NodeOf(r)' = NodeOf(r)
  BY <1>0, JobIsFixed
<1> SUFFICES ASSUME NEW r \in Ranks
             PROVE  StageIsRight(r)' /\ EnteredAfterwards(r)' /\ PassedTogether(r)'
  BY <1>1 DEF RanksAreRight
<1>2. StageIsRight(r) /\ EnteredAfterwards(r) /\ PassedTogether(r) BY DEF RanksAreRight
<1>3. at'[r] = at[r] \/ (Alive(r) /\ at'[r] \in Lost) BY DEF Loses
<1>4. HasExported(r)' <=> HasExported(r) BY <1>0, <1>1 DEF HasExported
<1>5. StageIsRight(r)' BY <1>0, <1>1, <1>2, <1>3, <1>4 DEF StageIsRight, SavingStages, Lost
<1>6. EnteredAfterwards(r)'
  BY <1>0, <1>1, <1>2, <1>3, <1>4 DEF EnteredAfterwards
<1>7. PassedTogether(r)' BY <1>0, <1>1, <1>2, <1>3 DEF PassedTogether, Lost
<1> QED BY <1>5, <1>6, <1>7

\* A rank enters a collective with its work for it done.
LEMMA EntersRanks ==
  ASSUME TypeOK, RanksAreRight, NEW e \in Ranks, Enter(e)
  PROVE  RanksAreRight'
<1>0. job' = job /\ UNCHANGED <<at, step, stored, adapter>> BY DEF Enter, files, launch
<1>1. Ranks' = Ranks /\ AdapterBarrier' = AdapterBarrier /\ (Saves' <=> Saves)
      /\ \A r : NodeOf(r)' = NodeOf(r)
  BY <1>0, JobIsFixed
<1>2. /\ entered' = [entered EXCEPT ![e] = @ \cup {<<at[e], step[e]>>}]
      /\ entered \in [Ranks -> SUBSET (Collectives \X (0 .. job.steps))]
      /\ at[e] \in Collectives
  BY DEF Enter, Occasion, TypeOK
<1>3. \A q \in Ranks : entered[q] \subseteq entered'[q] BY <1>2
<1> SUFFICES ASSUME NEW r \in Ranks
             PROVE  StageIsRight(r)' /\ EnteredAfterwards(r)' /\ PassedTogether(r)'
  BY <1>1 DEF RanksAreRight
<1>4. StageIsRight(r) /\ EnteredAfterwards(r) /\ PassedTogether(r) BY DEF RanksAreRight
<1>5. HasExported(r) => HasExported(r)' BY <1>0, <1>1, <1>3 DEF HasExported
<1>6. at[r] = "unstarted" => entered'[r] = entered[r] BY <1>2 DEF Collectives
<1>7. StageIsRight(r)' BY <1>0, <1>1, <1>4, <1>5, <1>6 DEF StageIsRight, SavingStages
<1>8. EnteredAfterwards(r)'
  <2> SUFFICES ASSUME NEW o \in entered'[r]
               PROVE /\ o[1] = "adapter_barrier" =>
                          o[2] = job.steps /\ step[r] = job.steps /\ HasExported(r)
                     /\ o[1] = "saved_barrier" => stored[r]
                     /\ o[1] = "end_barrier" =>
                          o[2] = step[r] /\ at[r] \in {"end_barrier", "close", "done"} \cup Lost
    BY <1>0, <1>5 DEF EnteredAfterwards
  <2>1. CASE o \in entered[r] BY <1>4, <2>1 DEF EnteredAfterwards
  <2>2. CASE o \notin entered[r]
    <3>1. r = e /\ o = <<at[r], step[r]>> BY <1>2, <2>2
    <3>2. o[1] = at[r] /\ o[2] = step[r] BY <3>1
    <3> QED BY <1>4, <3>2 DEF StageIsRight, SavingStages
  <2> QED BY <2>1, <2>2
<1>9. PassedTogether(r)' BY <1>0, <1>1, <1>3, <1>4 DEF PassedTogether
<1> QED BY <1>7, <1>8, <1>9

\* A rank starts with nothing done.
LEMMA StartsRanks ==
  ASSUME TypeOK, RanksAreRight, NodesAreRight, NEW n, Starts(n)
  PROVE  RanksAreRight'
<1>0. job' = job /\ UNCHANGED <<step, entered, stored, adapter>> BY DEF Starts, files
<1>1. Ranks' = Ranks /\ AdapterBarrier' = AdapterBarrier /\ (Saves' <=> Saves)
      /\ \A r : NodeOf(r)' = NodeOf(r)
  BY <1>0, JobIsFixed
<1> SUFFICES ASSUME NEW r \in Ranks
             PROVE  StageIsRight(r)' /\ EnteredAfterwards(r)' /\ PassedTogether(r)'
  BY <1>1 DEF RanksAreRight
<1>2. StageIsRight(r) /\ EnteredAfterwards(r) /\ PassedTogether(r) BY DEF RanksAreRight
<1>3. CASE NodeOf(r) = n
  <2>1. at[r] = "unstarted" BY <1>3 DEF NodesAreRight, RanksOf, Starts
  <2>2. at'[r] = FirstStage BY <1>3 DEF Starts
  <2>3. at'[r] \in {"init", "load"} /\ (at'[r] = "load" => job.mode = "hf-ddp-baseline")
    BY <2>2 DEF FirstStage
  <2>4. step[r] = 0 /\ entered[r] = {} BY <1>2, <2>1 DEF StageIsRight
  <2>5. StageIsRight(r)' BY <1>0, <2>3, <2>4 DEF StageIsRight, SavingStages
  <2>6. EnteredAfterwards(r)' BY <1>0, <2>4 DEF EnteredAfterwards
  <2>7. PassedTogether(r)' BY <1>0, <1>1, <1>2, <2>3 DEF PassedTogether
  <2> QED BY <2>5, <2>6, <2>7
<1>4. CASE NodeOf(r) # n
  <2>1. at'[r] = at[r] BY <1>4 DEF Starts
  <2>2. HasExported(r)' <=> HasExported(r) BY <1>0, <1>1 DEF HasExported
  <2>3. StageIsRight(r)' BY <1>0, <1>1, <1>2, <2>1, <2>2 DEF StageIsRight, SavingStages
  <2>4. EnteredAfterwards(r)' BY <1>0, <1>1, <1>2, <2>1, <2>2 DEF EnteredAfterwards
  <2>5. PassedTogether(r)' BY <1>0, <1>1, <1>2, <2>1 DEF PassedTogether
  <2> QED BY <2>3, <2>4, <2>5
<1> QED BY <1>3, <1>4

\* A rank goes on: it leaves a barrier only when all have done what comes before it.
LEMMA AdvancesRanks ==
  ASSUME TypeOK, RanksAreRight, NEW a \in Ranks, Advances(a)
  PROVE  RanksAreRight'
<1>0. job' = job /\ entered' = entered /\ job.steps \in Nat /\ job.mode \in Modes
  BY JobFacts DEF Advances, TypeOK
<1>1. Ranks' = Ranks /\ AdapterBarrier' = AdapterBarrier /\ (Saves' <=> Saves)
      /\ \A r : NodeOf(r)' = NodeOf(r)
  BY <1>0, JobIsFixed
<1>2. /\ at[a] \in Collectives \cup LocalStages /\ step[a] \in 0 .. job.steps
      /\ at'[a] = Following(at[a], step'[a])
      /\ step'[a] = IF at[a] \in {"train_step", "optim_step"} THEN step[a] + 1 ELSE step[a]
  BY DEF Advances, Alive, TypeOK
<1>3. \A r \in Ranks : r # a => at'[r] = at[r] /\ step'[r] = step[r] /\ stored'[r] = stored[r]
  BY DEF Advances, TypeOK
<1>4. /\ adapter => adapter'
      /\ \A r \in Ranks : stored[r] => stored'[r]
      /\ at[a] = "store" => stored'[a]
      /\ at[a] # "store" => stored'[a] = stored[a]
  BY DEF Advances, TypeOK
<1>5. step'[a] \in Nat BY <1>0, <1>2
<1>6. \A r \in Ranks : StageIsRight(r) /\ EnteredAfterwards(r) /\ PassedTogether(r)
  BY DEF RanksAreRight
<1>7. at[a] \in Collectives /\ at[a] \notin {"forward_backward", "gather"} =>
        \A q \in Ranks : <<at[a], step[a]>> \in entered[q]
  BY DEF Advances, Group, Occasion
<1>8. \A r \in Ranks : HasExported(r) => HasExported(r)'
  BY <1>0, <1>1, <1>4 DEF HasExported
<1>9. at[a] = "export" => HasExported(a)'
  <2> SUFFICES ASSUME at[a] = "export" PROVE HasExported(a)' OBVIOUS
  <2>1. step[a] = job.steps BY <1>6 DEF StageIsRight, SavingStages
  <2>2. <<"export", job.steps>> \in entered[a] BY <1>7, <2>1 DEF Collectives
  <2>3. a = job.writer /\ NodeOf(a) = 0 => adapter' BY DEF Advances
  <2> QED BY <1>0, <1>1, <2>2, <2>3 DEF HasExported
<1> DEFINE s == step[a]
           x == at'[a]
           t == step'[a]
\* Where rank a comes from and goes to.
<1>10. \/ at[a] = "init" /\ x \in {"gather", "all_reduce"} /\ ~Saves /\ t = s
       \/ at[a] = "init" /\ x = "load" /\ job.mode \in {"qwen-lora-sft", "hf-ddp-baseline"} /\ t = s
       \/ at[a] \in {"load", "average"} /\ Saves /\ t = s
          /\ x = IF t < job.steps THEN "forward_backward" ELSE "train_barrier"
       \/ at[a] = "load" /\ ~Saves /\ t = s /\ x = IF t < job.steps THEN "train_step" ELSE "result"
       \/ at[a] = "train_step" /\ ~Saves /\ t = s + 1
          /\ x = IF t < job.steps THEN "train_step" ELSE "result"
       \/ at[a] = "forward_backward" /\ x = "optim_step" /\ t = s
       \/ at[a] = "optim_step" /\ x = "average" /\ t = s + 1
       \/ at[a] = "train_barrier" /\ x = "export" /\ t = s
       \/ at[a] = "export" /\ x = "adapter_barrier" /\ t = s
       \/ at[a] = "adapter_barrier" /\ x = "store" /\ t = s
       \/ at[a] = "store" /\ x = "saved_barrier" /\ t = s
       \/ at[a] \in {"saved_barrier", "gather", "all_reduce"} /\ x = "result" /\ t = s
       \/ at[a] = "result" /\ x = (IF Saves THEN "close" ELSE "end_barrier") /\ t = s
       \/ at[a] = "end_barrier" /\ x = "close" /\ t = s
       \/ at[a] = "close" /\ x = "done" /\ t = s
  <2> DEFINE k == at[a]
  <2>1. k \in Collectives \cup LocalStages /\ t \in Nat /\ x = Following(k, t)
    BY <1>2, <1>5
  <2>2. k = "average" => Saves BY <1>6 DEF StageIsRight
  <2>3. k = "train_step" => ~Saves BY <1>6 DEF StageIsRight
  <2>4. t = IF k \in {"train_step", "optim_step"} THEN s + 1 ELSE s BY <1>2
  <2> HIDE DEF k, t, x, s
  <2>5. k \in {"init", "load", "average", "train_step", "forward_backward", "optim_step",
               "train_barrier", "export", "adapter_barrier", "store", "saved_barrier", "gather",
               "all_reduce", "result", "end_barrier", "close"}
    BY <2>1 DEF Collectives, LocalStages
  <2>6. CASE k = "init"
    <3>1. x \in CASE job.mode = "torchrun-env" -> {"gather"}
                  [] job.mode = "nccl-smoke" -> {"all_reduce"}
                  [] OTHER -> {"load"}
      BY <1>0, <2>1, <2>6, FollowingStages
    <3> QED BY <1>0, <2>4, <2>6, <3>1 DEF Modes, Saves, k
  <2>7. CASE k # "init"
    BY <1>0, <2>1, <2>2, <2>3, <2>4, <2>5, <2>7, FollowingStages DEF k
  <2> QED BY <2>6, <2>7
<1> HIDE DEF x, t, s
<1> SUFFICES ASSUME NEW r \in Ranks
             PROVE  StageIsRight(r)' /\ EnteredAfterwards(r)' /\ PassedTogether(r)'
  BY <1>1 DEF RanksAreRight
<1>11. StageIsRight(r)'
  <2>1. CASE r # a
    BY <1>0, <1>1, <1>3, <1>4, <1>6, <1>8, <2>1 DEF StageIsRight, SavingStages
  <2>2. CASE r = a
    BY <1>0, <1>1, <1>2, <1>4, <1>6, <1>8, <1>9, <1>10, <2>2
    DEF StageIsRight, SavingStages, x, t, s
  <2> QED BY <2>1, <2>2
<1>12. EnteredAfterwards(r)'
  <2>1. CASE r # a
    BY <1>0, <1>3, <1>4, <1>6, <1>8, <2>1 DEF EnteredAfterwards
  <2>2. CASE r = a
    <3>1. step'[a] # step[a] => step[a] < job.steps /\ at[a] \in {"train_step", "optim_step"}
      BY <1>2, <1>6 DEF StageIsRight
    <3>2. at[a] \in {"end_barrier", "close"} => at'[a] \in {"close", "done"} BY <1>10 DEF x
    <3>3. at[a] \notin {"done"} \cup Lost BY <1>2 DEF Collectives, LocalStages, Lost
    <3> QED BY <1>0, <1>4, <1>6, <1>8, <2>2, <3>1, <3>2, <3>3 DEF EnteredAfterwards
  <2> QED BY <2>1, <2>2
<1>13. PassedTogether(r)'
  <2>1. CASE r # a
    BY <1>0, <1>1, <1>3, <1>4, <1>6, <2>1 DEF PassedTogether
  <2>2. CASE r = a
    <3>1. x \in {"store", "saved_barrier"} => \A q \in Ranks : AdapterBarrier \in entered[q]
      <4>1. CASE at[a] = "store" BY <1>6, <4>1 DEF PassedTogether
      <4>2. CASE at[a] = "adapter_barrier"
        <5>1. step[a] = job.steps BY <1>6, <4>2 DEF StageIsRight, SavingStages
        <5> QED BY <1>7, <4>2, <5>1 DEF AdapterBarrier, Collectives
      <4> QED BY <1>10, <4>1, <4>2
    <3>2. stored'[a] => Saves /\ \A q \in Ranks : AdapterBarrier \in entered[q]
      <4>1. CASE at[a] = "store" BY <1>6, <4>1 DEF PassedTogether, StageIsRight, SavingStages
      <4>2. CASE at[a] # "store" BY <1>4, <1>6, <4>2 DEF PassedTogether
      <4> QED BY <4>1, <4>2
    <3>3. x \in {"result", "close", "done"} /\ Saves => \A q \in Ranks : stored'[q]
      <4>1. CASE at[a] \in {"result", "close"} BY <1>4, <1>6, <4>1 DEF PassedTogether
      <4>2. CASE at[a] = "saved_barrier"
        <5>1. \A q \in Ranks : <<"saved_barrier", step[a]>> \in entered[q]
          BY <1>7, <4>2 DEF Collectives
        <5>2. \A q \in Ranks : stored[q] BY <1>6, <5>1 DEF EnteredAfterwards
        <5> QED BY <1>4, <5>2
      <4>3. CASE at[a] \in {"gather", "all_reduce", "end_barrier", "train_step"}
        BY <1>6, <4>3 DEF StageIsRight
      <4> QED BY <1>10, <4>1, <4>2, <4>3
    <3>4. x \in {"close", "done"} /\ ~Saves =>
            \A q \in Ranks : \E u \in 0 .. job.steps : <<"end_barrier", u>> \in entered[q]
      <4>1. CASE at[a] = "end_barrier"
        <5>1. \A q \in Ranks : <<"end_barrier", step[a]>> \in entered[q]
          BY <1>7, <4>1 DEF Collectives
        <5> QED BY <1>2, <5>1
      <4>2. CASE at[a] = "close" BY <1>6, <4>2 DEF PassedTogether
      <4> QED BY <1>10, <4>1, <4>2
    <3> QED BY <1>0, <1>1, <2>2, <3>1, <3>2, <3>3, <3>4 DEF PassedTogether, x
  <2> QED BY <2>1, <2>2
<1> QED BY <1>11, <1>12, <1>13

\* The ranks' part of the invariant.
LEMMA StepRanks ==
  ASSUME TypeOK, RanksAreRight, NodesAreRight, [Next]_vars
  PROVE  RanksAreRight'
BY StepShapes, LosesRanks, EntersRanks, StartsRanks, AdvancesRanks

-----------------------------------------------------------------------------
(* What rank 0 and the containers publish                                   *)

\* Rank 0 averages once per step, and has its result when it is done.
LEMMA StepRankZero ==
  ASSUME TypeOK, RanksAreRight, NodesAreRight, RankZeroIsRight, [Next]_vars
  PROVE  RankZeroIsRight'
<1>0. 0 \in Ranks /\ job.steps \in Nat /\ job.mode \in Modes BY JobFacts DEF TypeOK
<1>1. StageIsRight(0) BY <1>0 DEF RanksAreRight
<1>2. CASE Loses
  <2>1. (Saves' <=> Saves) /\ UNCHANGED <<step, losses, result>>
    BY <1>2, JobIsFixed DEF Loses, files
  <2>2. at'[0] = at[0] \/ at'[0] \in Lost BY <1>0, <1>2 DEF Loses
  <2> QED BY <2>1, <2>2 DEF RankZeroIsRight, Lost
<1>3. CASE \E r \in Ranks : Enter(r)
  <2>1. (Saves' <=> Saves) /\ UNCHANGED <<at, step, losses, result>>
    BY <1>3, JobIsFixed DEF Enter, files, launch
  <2> QED BY <2>1 DEF RankZeroIsRight
<1>4. CASE \E n \in Nodes : Starts(n)
  <2> PICK n \in Nodes : Starts(n) BY <1>4
  <2>1. (Saves' <=> Saves) /\ UNCHANGED <<step, losses, result>>
    BY JobIsFixed DEF Starts, files
  <2>2. at'[0] = at[0] \/ (at[0] = "unstarted" /\ at'[0] \in {"init", "load"})
    BY <1>0 DEF Starts, NodesAreRight, RanksOf, FirstStage
  <2> QED BY <2>1, <2>2 DEF RankZeroIsRight, Lost
<1>5. CASE \E r \in Ranks : Advances(r)
  <2> PICK r \in Ranks : Advances(r) BY <1>5
  <2>1. Saves' <=> Saves BY JobIsFixed DEF Advances
  <2>2. CASE r # 0
    <3>1. UNCHANGED <<losses, at[0], step[0]>> /\ (result => result')
      BY <1>0, <2>2 DEF Advances, TypeOK
    <3> QED BY <2>1, <3>1 DEF RankZeroIsRight
  <2>3. CASE r = 0
    <3> DEFINE k == at[0]
               x == at'[0]
               s == step[0]
               t == step'[0]
    <3>1. /\ k \in Collectives \cup LocalStages /\ s \in 0 .. job.steps
          /\ x = Following(k, t)
          /\ t = IF k \in {"train_step", "optim_step"} THEN s + 1 ELSE s
          /\ losses' = IF k = "average" THEN Append(losses, Average(step[0] - 1)) ELSE losses
          /\ result' = (result \/ k = "result")
      BY <1>0, <2>3 DEF Advances, Alive, TypeOK
    <3>2. t \in Nat BY <1>0, <3>1
    <3>3. PICK S : losses \in Seq(S) BY DEF RankZeroIsRight
    <3>4. k = "average" => losses' \in Seq(S \cup {Average(step[0] - 1)})
                           /\ Len(losses') = Len(losses) + 1
      <4>1. losses \in Seq(S \cup {Average(step[0] - 1)}) BY <3>3
      <4> HIDE DEF k
      <4> QED BY <3>1, <3>3, <4>1
    <3>5. \E T : losses' \in Seq(T) BY <3>1, <3>3, <3>4
    <3>6. x \in {"end_barrier", "close", "done"} => k \in {"result", "end_barrier", "close"}
      BY <1>0, <3>1, <3>2, FollowingStages DEF Collectives, LocalStages, Modes, Saves
    <3>7. x = "average" <=> k = "optim_step"
      BY <1>0, <3>1, <3>2, FollowingStages DEF Collectives, LocalStages, Modes, Saves
    <3>8. k = "train_step" => ~Saves BY <1>1 DEF StageIsRight
    <3>9. k \notin Lost BY <3>1 DEF Collectives, LocalStages, Lost
    <3>10. Saves => Len(losses) = IF k = "average" THEN s - 1 ELSE s
      BY <3>9 DEF RankZeroIsRight
    <3>11. k \in {"end_barrier", "close"} => result BY DEF RankZeroIsRight
    <3> HIDE DEF k, x, s, t
    <3>12. Saves => Len(losses') = IF x = "average" THEN t - 1 ELSE t
      BY <1>0, <3>1, <3>4, <3>7, <3>8, <3>10
    <3>13. x \in {"end_barrier", "close", "done"} => result' BY <3>1, <3>6, <3>11
    <3> QED BY <2>1, <3>5, <3>12, <3>13 DEF RankZeroIsRight, x, t
  <2> QED BY <2>2, <2>3
<1> QED BY <1>2, <1>3, <1>4, <1>5, StepShapes

\* Rank 0 looks for the adapter's files after the writer has written them.
LEMMA StepPayload ==
  ASSUME TypeOK, RanksAreRight, PayloadIsRight, [Next]_vars
  PROVE  PayloadIsRight'
<1>0. 0 \in Ranks /\ (NodeOf(job.writer) = 0 => job.writer \in Ranks) BY JobFacts DEF TypeOK
<1>1. CASE UNCHANGED <<job, adapter, stored, payload>>
  BY <1>1, JobIsFixed DEF PayloadIsRight, NodeOf
<1>2. CASE \E r \in Ranks : Advances(r)
  <2> PICK r \in Ranks : Advances(r) BY <1>2
  <2>1. job' = job /\ NodeOf(job.writer)' = NodeOf(job.writer) BY DEF Advances, NodeOf
  <2>2. adapter' => NodeOf(job.writer) = 0 BY DEF Advances, PayloadIsRight
  <2>3. CASE at[r] = "store" /\ r = 0
    <3>1. payload' = adapter BY <2>3 DEF Advances
    <3>2. \A q \in Ranks : AdapterBarrier \in entered[q]
      BY <1>0, <2>3 DEF RanksAreRight, PassedTogether
    <3>3. NodeOf(job.writer) = 0 => HasExported(job.writer)
      BY <1>0, <3>2 DEF RanksAreRight, EnteredAfterwards, AdapterBarrier
    <3>4. NodeOf(job.writer) = 0 => adapter BY <3>3 DEF HasExported
    <3> QED BY <2>1, <2>2, <3>1, <3>4 DEF PayloadIsRight
  <2>4. CASE ~(at[r] = "store" /\ r = 0)
    <3>1. stored'[0] = stored[0] /\ payload' = payload BY <1>0, <2>4 DEF Advances, TypeOK
    <3> QED BY <2>1, <2>2, <3>1 DEF PayloadIsRight
  <2> QED BY <2>3, <2>4
<1>3. Loses \/ (\E r \in Ranks : Enter(r)) \/ (\E n \in Nodes : Starts(n))
        => UNCHANGED <<job, adapter, stored, payload>>
  BY DEF Loses, Enter, Starts, files, launch
<1> QED BY <1>1, <1>2, <1>3, StepShapes

\* A rank touches no container and no launcher; a stage that is over stays over.
LEMMA RankFrame ==
  ASSUME TypeOK, NEW r \in Ranks, RankMoves(r) \/ RankFails(r)
  PROVE  /\ UNCHANGED <<launch, node, committed>>
         /\ RankMoves(r) => faults' = faults
         /\ RankFails(r) => faults < job.max_faults /\ faults' = faults + 1
         /\ result => result'
         /\ \A q \in Ranks : at'[q] # at[q] => Alive(q)
<1>1. UNCHANGED <<launch, node, committed>>
  BY DEF RankMoves, RankFails, Enter, Leave, Load, OptimStep, Store, WriteResult, Close,
     RefuseBatch, PeerLost, Reaches
<1>5. result => result'
  BY RankShapes DEF Loses, Enter, Advances, files
<1>2. RankMoves(r) => faults' = faults
  BY DEF RankMoves, Enter, Leave, Load, OptimStep, Store, WriteResult, Close, RefuseBatch,
     PeerLost, Reaches
<1>3. RankFails(r) => faults < job.max_faults /\ faults' = faults + 1 BY DEF RankFails
<1>4. \A q \in Ranks : at'[q] # at[q] => Alive(q)
  BY RankShapes DEF Loses, Enter, Advances, TypeOK
<1> QED BY <1>1, <1>2, <1>3, <1>4, <1>5

\* Containers call their ranks to life once, and container 0 answers with what is there.
LEMMA StepNodes ==
  ASSUME TypeOK, RanksAreRight, RankZeroIsRight, NodesAreRight, [Next]_vars
  PROVE  NodesAreRight'
<1>0. 0 \in Ranks /\ 0 \in Nodes /\ 0 \in RanksOf(0) /\ \A r \in Ranks : NodeOf(r) \in Nodes
  BY JobFacts DEF TypeOK
<1>1. job' = job /\ Ranks' = Ranks /\ Nodes' = Nodes /\ (\A n : RanksOf(n)' = RanksOf(n))
  <2>1. job' = job BY StepShapes DEF Loses, Enter, Advances, Starts, launch
  <2> QED BY <2>1, JobIsFixed
<1>2. CASE UNCHANGED <<launcher, node, committed, result, at>>
  BY <1>1, <1>2 DEF NodesAreRight
<1>3. CASE \E r \in Ranks : RankMoves(r) \/ RankFails(r)
  <2> PICK r \in Ranks : RankMoves(r) \/ RankFails(r) BY <1>3
  <2>1. UNCHANGED <<launcher, node, committed>> /\ (result => result')
        /\ \A q \in Ranks : at'[q] # at[q] => Alive(q)
    BY RankFrame DEF launch
  <2>2. at[0] = "done" => at'[0] = "done" BY <1>0, <2>1 DEF Alive, Collectives, LocalStages
  <2>3. \A q \in Ranks : at[q] = "unstarted" => at'[q] = "unstarted"
    BY <2>1 DEF Alive, Collectives, LocalStages
  <2> QED BY <1>0, <1>1, <2>1, <2>2, <2>3 DEF NodesAreRight, RanksOf
<1>4. CASE PrepareDataset \/ CallTrainer
  <2>1. launcher # "called" /\ UNCHANGED <<node, at, committed, result>>
    BY <1>4 DEF PrepareDataset, CallTrainer, files
  <2> QED BY <1>1, <2>1 DEF NodesAreRight
<1>5. CASE Commit
  <2>1. at[0] = "done" BY <1>5 DEF Commit, NodesAreRight
  <2>2. Saves => stored[0] BY <1>0, <2>1 DEF RanksAreRight, PassedTogether
  <2>3. committed' BY <1>5, <2>2 DEF Commit, Saves
  <2>4. node' = [node EXCEPT ![0] = "committed"] /\ UNCHANGED <<launcher, at, result>>
        /\ node[0] = "finished"
    BY <1>5 DEF Commit, launch, files
  <2>5. launcher = "called" BY <1>0, <2>4 DEF NodesAreRight
  <2> QED BY <1>0, <1>1, <2>1, <2>3, <2>4, <2>5 DEF NodesAreRight, TypeOK
<1>6. CASE ReturnResult
  <2>1. at[0] = "done" /\ committed /\ result
    BY <1>6 DEF ReturnResult, NodesAreRight, RankZeroIsRight
  <2>2. node' = [node EXCEPT ![0] = "returned"] /\ UNCHANGED <<launcher, at, result, committed>>
        /\ node[0] = "committed"
    BY <1>6, <2>1 DEF ReturnResult, launch, files
  <2>3. launcher = "called" BY <1>0, <2>2 DEF NodesAreRight
  <2> QED BY <1>0, <1>1, <2>1, <2>2, <2>3 DEF NodesAreRight, TypeOK
<1>7. CASE \E n \in Nodes : StartNode(n)
  <2> PICK n \in Nodes : StartNode(n) BY <1>7
  <2>1. /\ launcher = "called" /\ launcher' = launcher /\ UNCHANGED <<committed, result>>
        /\ node[n] = "called"
        /\ \E v \in {"running", "raised"} : node' = [node EXCEPT ![n] = v]
        /\ at' = at \/ at' = [r \in Ranks |-> IF NodeOf(r) = n THEN FirstStage ELSE at[r]]
    BY DEF StartNode, launch, files
  <2>2. at[0] = "done" => at'[0] = "done" \/ n = 0
    <3>1. NodeOf(0) = 0 BY <1>0 DEF RanksOf
    <3> QED BY <1>0, <2>1, <3>1
  <2>3. \A m \in Nodes : m # n => node'[m] = node[m] /\ \A r \in RanksOf(m) : at'[r] = at[r]
    BY <2>1 DEF RanksOf, TypeOK
  <2>4. node'[n] \in {"running", "raised"} BY <2>1 DEF TypeOK
  <2> QED BY <1>0, <1>1, <2>1, <2>2, <2>3, <2>4 DEF NodesAreRight
<1>8. CASE \E n \in Nodes : AgentReturns(n)
  <2> PICK n \in Nodes : AgentReturns(n) BY <1>8
  <2>1. /\ UNCHANGED <<launcher, at, committed, result>> /\ node[n] = "running"
        /\ node' = [node EXCEPT ![n] = IF n = 0 THEN "finished" ELSE "returned"]
        /\ n = 0 => at[0] = "done"
    BY <1>0 DEF AgentReturns, launch, files
  <2> QED BY <1>0, <1>1, <2>1 DEF NodesAreRight, TypeOK
<1>9. CASE \E n \in Nodes : AgentRaises(n) \/ NodeFails(n)
  <2> PICK n \in Nodes : AgentRaises(n) \/ NodeFails(n) BY <1>9
  <2>1. /\ UNCHANGED <<launcher, committed, result>>
        /\ node' = [node EXCEPT ![n] = "raised"]
        /\ at' = [r \in Ranks |-> IF NodeOf(r) = n /\ Alive(r) THEN "killed" ELSE at[r]]
        /\ launcher = "called" \/ node[n] = "running"
    BY DEF AgentRaises, NodeFails, Killed, launch, files
  <2>2. \A r \in Ranks : at[r] \in {"unstarted", "done"} => at'[r] = at[r]
    BY <2>1 DEF Alive, Collectives, LocalStages
  <2>3. \A m \in Nodes : node'[m] = IF m = n THEN "raised" ELSE node[m] BY <2>1 DEF TypeOK
  <2> QED BY <1>0, <1>1, <2>1, <2>2, <2>3 DEF NodesAreRight, RanksOf
<1>10. UNCHANGED vars => UNCHANGED <<launcher, node, committed, result, at>>
  BY DEF vars, launch, files
<1> QED BY <1>2, <1>3, <1>4, <1>5, <1>6, <1>7, <1>8, <1>9, <1>10
       DEF Next, Moves, Faults, NodeMoves

-----------------------------------------------------------------------------
(* Sound jobs, types and the theorems                                       *)

\* What is dealt depends on the job and its data.
LEMMA DealIsFixed ==
  ASSUME job' = job, batches' = batches
  PROVE  \A r, s : LocalBatches(r, s)' = LocalBatches(r, s)
BY DEF LocalBatches, MicroSteps, GradAccumSteps, DataParallelSize, WorldSize,
   ModelParallelSize, DealtIndex, ReplicaOf, RankInfo, BatchCount

LEMMA RefusedIsFixed ==
  ASSUME job' = job, batches' = batches
  PROVE  \A r, s : IsRefused(r, s)' <=> IsRefused(r, s)
<1>1. \A r, s : LocalBatches(r, s)' = LocalBatches(r, s) BY DealIsFixed
<1>2. \A b : Datums(b)' = Datums(b) BY DEF Datums
<1>3. GradAccumSteps(job)' = GradAccumSteps(job)
  BY DEF GradAccumSteps, DataParallelSize, WorldSize, ModelParallelSize
<1> QED BY <1>1, <1>2, <1>3 DEF IsRefused, LogicalBatch

\* Without faults, nothing but the sizes and the data of the job makes a rank fail.
LEMMA StepSound ==
  ASSUME TypeOK, RanksAreRight, RankZeroIsRight, NodesAreRight, SoundJobsDoNotFail, [Next]_vars
  PROVE  SoundJobsDoNotFail'
<1> SUFFICES ASSUME faults' = 0, launcher' = "called", IsSound'
             PROVE  /\ \A r \in Ranks' : at'[r] \notin Lost
                    /\ \A n \in Nodes' : node'[n] # "raised"
  BY DEF SoundJobsDoNotFail
<1>0. 0 \in Ranks /\ 0 \in Nodes /\ job.max_faults \in Nat /\ \A r \in Ranks : NodeOf(r) \in Nodes
  BY JobFacts DEF TypeOK
<1>1. job' = job /\ Ranks' = Ranks /\ Nodes' = Nodes
  <2>1. job' = job BY StepShapes DEF Loses, Enter, Advances, Starts, launch
  <2> QED BY <2>1, JobIsFixed
<1> DEFINE Fine == /\ \A r \in Ranks : at[r] \notin Lost
                   /\ \A n \in Nodes : node[n] # "raised"
<1>2. ASSUME launcher = "called", faults = 0, UNCHANGED <<job, batches>>
      PROVE  Fine /\ IsSound
  <2>1. IsSound
    <3>1. /\ IsSupported(job)
          /\ job.mode \in {"qwen-lora-sft", "hf-ddp-baseline"} => batches.ok
          /\ job.mode = "hf-ddp-baseline" => job.steps > 0
      BY <1>2 DEF IsSound
    <3>2. Saves => \A r \in Ranks, s \in 0 .. job.steps - 1 : ~IsRefused(r, s)
      <4>1. \A r, s : IsRefused(r, s)' <=> IsRefused(r, s)
        BY <1>1, <1>2, RefusedIsFixed
      <4> QED BY <1>1, <1>2, <4>1 DEF IsSound, Saves
    <3> QED BY <3>1, <3>2 DEF IsSound
  <2> QED BY <1>2, <2>1 DEF SoundJobsDoNotFail
<1>3. CASE UNCHANGED <<launch, node, at, faults>>
  BY <1>1, <1>2, <1>3 DEF launch
<1>4. CASE PrepareDataset
  BY <1>4 DEF PrepareDataset
<1>5. CASE CallTrainer
  <2>1. launcher # "called" /\ UNCHANGED <<node, at>> BY <1>5 DEF CallTrainer
  <2>2. \A n \in Nodes : node[n] = "called" BY <2>1 DEF NodesAreRight
  <2>3. \A r \in Ranks : at[r] = "unstarted" BY <1>0, <2>2 DEF NodesAreRight, RanksOf
  <2> QED BY <1>1, <2>1, <2>2, <2>3 DEF Lost
<1>6. CASE Commit
  <2>1. Fine BY <1>2, <1>6 DEF Commit, launch
  <2>2. UNCHANGED at /\ node' = [node EXCEPT ![0] = "committed"] BY <1>6 DEF Commit
  <2> QED BY <1>0, <1>1, <2>1, <2>2 DEF TypeOK
<1>7. CASE ReturnResult
  <2>1. Fine BY <1>2, <1>7 DEF ReturnResult, launch
  <2>2. result BY <1>7 DEF ReturnResult, NodesAreRight, RankZeroIsRight
  <2>3. UNCHANGED at /\ node' = [node EXCEPT ![0] = "returned"]
    BY <1>7, <2>2 DEF ReturnResult
  <2> QED BY <1>0, <1>1, <2>1, <2>3 DEF TypeOK
<1>8. CASE \E n \in Nodes : StartNode(n)
  <2> PICK n \in Nodes : StartNode(n) BY <1>8
  <2>1. Fine /\ IsSupported(job) BY <1>2 DEF StartNode, launch, IsSound
  <2>2. /\ node' = [node EXCEPT ![n] = "running"]
        /\ at' = [r \in Ranks |-> IF NodeOf(r) = n THEN FirstStage ELSE at[r]]
    BY <2>1 DEF StartNode
  <2>3. FirstStage \notin Lost BY DEF FirstStage, Lost
  <2> QED BY <1>1, <2>1, <2>2, <2>3 DEF TypeOK
<1>9. CASE \E n \in Nodes : AgentReturns(n)
  <2> PICK n \in Nodes : AgentReturns(n) BY <1>9
  <2>1. Fine BY <1>2 DEF AgentReturns, launch
  <2>2. UNCHANGED at /\ node' = [node EXCEPT ![n] = IF n = 0 THEN "finished" ELSE "returned"]
    BY DEF AgentReturns
  <2> QED BY <1>1, <2>1, <2>2 DEF TypeOK
<1>10. CASE \E n \in Nodes : AgentRaises(n)
  <2> PICK n \in Nodes : AgentRaises(n) BY <1>10
  <2>1. Fine BY <1>2 DEF AgentRaises, launch
  <2> QED BY <2>1 DEF AgentRaises, RanksOf, Lost
<1>11. CASE \E r \in Ranks : RankMoves(r)
  <2> PICK r \in Ranks : RankMoves(r) BY <1>11
  <2>1. UNCHANGED <<launch, node, faults>> BY RankFrame
  <2>2. Fine /\ IsSound BY <1>2, <2>1 DEF launch
  <2>3. StageIsRight(r) BY DEF RanksAreRight
  <2>4. at'[r] \notin Lost
    <3>0. ASSUME NEW k \in Collectives \cup LocalStages, NEW u \in Nat
          PROVE  Following(k, u) \notin Lost
      <4>1. job.steps \in Nat /\ job.mode \in Modes BY JobFacts DEF TypeOK
      <4> QED BY <4>1, FollowingStages DEF Collectives, LocalStages, Lost, Modes, Saves
    <3>1. ASSUME Load(r) PROVE at'[r] \notin Lost
      <4>1. at[r] = "load" /\ job.mode \in {"qwen-lora-sft", "hf-ddp-baseline"}
        BY <2>3, <3>1 DEF Load, StageIsRight
      <4>2. batches.ok /\ (job.mode = "hf-ddp-baseline" => job.steps > 0)
        BY <2>2, <4>1 DEF IsSound
      <4>3. at'[r] = Following("load", step[r])
        BY <3>1, <4>1, <4>2 DEF Load, Reaches, TypeOK
      <4>4. step[r] \in Nat /\ "load" \in LocalStages BY JobFacts DEF TypeOK, LocalStages
      <4>5. Following("load", step[r]) \notin Lost BY <3>0, <4>4
      <4> QED BY <4>3, <4>5
    <3>2. ASSUME RefuseBatch(r) PROVE FALSE
      <4>1. Saves /\ step[r] \in 0 .. job.steps - 1
        BY <2>3, <3>2, JobFacts DEF RefuseBatch, StageIsRight, TypeOK
      <4> QED BY <2>2, <3>2, <4>1 DEF RefuseBatch, IsSound
    <3>3. ASSUME PeerLost(r) PROVE FALSE
      <4>1. Group(r) \subseteq Ranks BY DEF Group, ModelGroup
      <4>2. PICK q \in Ranks : IsGone(q) BY <3>3, <4>1 DEF PeerLost
      <4> QED BY <1>0, <2>2, <4>2 DEF IsGone
    <3>4. ASSUME Leave(r) \/ OptimStep(r) \/ Store(r) \/ WriteResult(r) \/ Close(r)
          PROVE  at'[r] = Following(at[r], step'[r]) /\ at[r] \in Collectives \cup LocalStages
                 /\ step'[r] \in Nat
      <4>1. step[r] \in Nat BY JobFacts DEF TypeOK
      <4>2. at'[r] = Following(at[r], step'[r])
        BY <3>4 DEF Leave, OptimStep, Store, WriteResult, Close, Reaches, TypeOK
      <4>3. at[r] \in Collectives \cup LocalStages
        BY <3>4 DEF Leave, OptimStep, Store, WriteResult, Close, LocalStages
      <4>4. step'[r] = step[r] \/ step'[r] = step[r] + 1
        BY <3>4 DEF Leave, OptimStep, Store, WriteResult, Close, TypeOK, files
      <4> QED BY <4>1, <4>2, <4>3, <4>4
    <3>5. ASSUME Enter(r) PROVE at'[r] = at[r] BY <3>5 DEF Enter
    <3> QED BY <2>2, <3>0, <3>1, <3>2, <3>3, <3>4, <3>5 DEF RankMoves
  <2>5. \A q \in Ranks : q # r => at'[q] = at[q]
    BY DEF RankMoves, Enter, Leave, Load, OptimStep, Store, WriteResult, Close, RefuseBatch,
       PeerLost, Reaches, TypeOK
  <2> QED BY <1>1, <2>1, <2>2, <2>4, <2>5
<1>12. CASE Faults
  BY <1>0, <1>12, RankFrame DEF Faults, NodeFails, TypeOK
<1> QED BY <1>3, <1>4, <1>5, <1>6, <1>7, <1>8, <1>9, <1>10, <1>11, <1>12
       DEF Next, Moves, NodeMoves, vars

\* No rank takes more steps than the job has.
LEMMA StepBound ==
  ASSUME TypeOK, RanksAreRight, [Next]_vars
  PROVE  /\ job' = job
         /\ step' \in [Ranks -> 0 .. job.steps]
         /\ entered' \in [Ranks -> SUBSET (Collectives \X (0 .. job.steps))]
         /\ at' \in [Ranks -> Stages]
         /\ <<adapter', payload', result'>> \in BOOLEAN \X BOOLEAN \X BOOLEAN
         /\ stored' \in [Ranks -> BOOLEAN]
<1>0. job.steps \in Nat /\ job.mode \in Modes BY JobFacts DEF TypeOK
<1>1. CASE Loses BY <1>1 DEF Loses, files, TypeOK
<1>2. CASE \E r \in Ranks : Enter(r)
  <2> PICK r \in Ranks : Enter(r) BY <1>2
  <2>1. UNCHANGED <<job, at, step, adapter, payload, result, stored>>
    BY DEF Enter, launch, files
  <2>2. <<at[r], step[r]>> \in Collectives \X (0 .. job.steps) BY DEF Enter, TypeOK
  <2>3. entered' = [entered EXCEPT ![r] = @ \cup {<<at[r], step[r]>>}] BY DEF Enter, Occasion
  <2>4. entered' \in [Ranks -> SUBSET (Collectives \X (0 .. job.steps))]
    BY <2>2, <2>3 DEF TypeOK
  <2> QED BY <2>1, <2>4 DEF TypeOK
<1>3. CASE \E n \in Nodes : Starts(n)
  <2>1. at' \in [Ranks -> Stages]
    BY <1>3 DEF Starts, FirstStage, Stages, Collectives, LocalStages, TypeOK
  <2> QED BY <1>3, <2>1 DEF Starts, files, TypeOK
<1>4. CASE \E r \in Ranks : Advances(r)
  <2> PICK r \in Ranks : Advances(r) BY <1>4
  <2>1. StageIsRight(r) BY DEF RanksAreRight
  <2>2. step' \in [Ranks -> 0 .. job.steps]
    BY <1>0, <2>1 DEF Advances, StageIsRight, TypeOK
  <2>3. step'[r] \in Nat BY <1>0, <2>2
  <2>4. Following(at[r], step'[r]) \in Stages
    <3>1. at[r] \in Collectives \cup LocalStages BY DEF Advances, Alive
    <3> DEFINE k == at[r]
               u == step'[r]
    <3> HIDE DEF k, u
    <3>2. k \in Collectives \cup LocalStages /\ u \in Nat BY <2>3, <3>1 DEF k, u
    <3>3. Following(k, u) \in Stages
      BY <1>0, <3>2, FollowingStages DEF Collectives, LocalStages, Stages, Modes, Saves
    <3> QED BY <3>3 DEF k, u
  <2>5. at' \in [Ranks -> Stages] BY <2>4 DEF Advances, TypeOK
  <2>6. stored' \in [Ranks -> BOOLEAN] BY DEF Advances, TypeOK
  <2>7. adapter' \in BOOLEAN /\ payload' \in BOOLEAN /\ result' \in BOOLEAN
    BY DEF Advances, TypeOK
  <2> QED BY <2>2, <2>5, <2>6, <2>7 DEF Advances, TypeOK
<1> QED BY <1>1, <1>2, <1>3, <1>4, StepShapes

\* Every variable keeps its type.
LEMMA StepType ==
  ASSUME TypeOK, RanksAreRight, [Next]_vars
  PROVE  TypeOK'
<1>0. job.max_faults \in Nat /\ 0 \in Nodes BY JobFacts DEF TypeOK
<1>1. /\ job' = job
      /\ step' \in [Ranks -> 0 .. job.steps]
      /\ entered' \in [Ranks -> SUBSET (Collectives \X (0 .. job.steps))]
      /\ at' \in [Ranks -> Stages]
      /\ <<adapter', payload', result'>> \in BOOLEAN \X BOOLEAN \X BOOLEAN
      /\ stored' \in [Ranks -> BOOLEAN]
  BY StepBound
<1>2. Ranks' = Ranks /\ Nodes' = Nodes BY <1>1, JobIsFixed
<1>3. \/ UNCHANGED <<launcher, node, committed, inside, faults>>
      \/ PrepareDataset \/ CallTrainer \/ Commit \/ ReturnResult
      \/ \E n \in Nodes : NodeMoves(n) \/ NodeFails(n)
      \/ \E r \in Ranks : RankMoves(r) \/ RankFails(r)
  BY DEF Next, Moves, Faults, vars, launch
<1>4. launcher' \in {"starting", "prepared", "called", "raised"}
  <2>1. CASE PrepareDataset BY <2>1 DEF PrepareDataset
  <2>2. CASE CallTrainer BY <2>2 DEF CallTrainer
  <2>3. CASE ~PrepareDataset /\ ~CallTrainer
    <3>1. launcher' = launcher
      BY <1>3, <2>3, RankFrame DEF Commit, ReturnResult, NodeMoves, StartNode, AgentReturns,
         AgentRaises, NodeFails, launch
    <3> QED BY <3>1 DEF TypeOK
  <2> QED BY <2>1, <2>2, <2>3
<1>5. node' \in [Nodes -> NodeStates]
  <2>1. CASE \E n \in Nodes : NodeMoves(n) \/ NodeFails(n)
    BY <2>1 DEF NodeMoves, StartNode, AgentReturns, AgentRaises, NodeFails, NodeStates, TypeOK
  <2>2. CASE Commit \/ ReturnResult
    BY <1>0, <2>2 DEF Commit, ReturnResult, NodeStates, TypeOK
  <2>3. CASE UNCHANGED node BY <2>3 DEF TypeOK
  <2> QED BY <1>3, <2>1, <2>2, <2>3, RankFrame DEF PrepareDataset, CallTrainer
<1>6. committed' \in BOOLEAN
  <2>1. CASE Commit BY <2>1 DEF Commit
  <2>2. CASE UNCHANGED committed BY <2>2 DEF TypeOK
  <2> QED BY <1>3, <2>1, <2>2, RankFrame DEF PrepareDataset, CallTrainer, ReturnResult,
             NodeMoves, StartNode, AgentReturns, AgentRaises, NodeFails
<1>7. inside' \in [Ranks -> BOOLEAN]
  <2>1. CASE \E r \in Ranks : RankMoves(r) \/ RankFails(r)
    BY <2>1 DEF RankMoves, RankFails, Enter, Leave, Load, OptimStep, Store, WriteResult, Close,
       RefuseBatch, PeerLost, Reaches, TypeOK
  <2>2. CASE UNCHANGED inside BY <2>2 DEF TypeOK
  <2> QED BY <1>3, <2>1, <2>2 DEF PrepareDataset, CallTrainer, Commit, ReturnResult,
             NodeMoves, StartNode, AgentReturns, AgentRaises, NodeFails
<1>8. faults' \in 0 .. job.max_faults
  <2>1. faults' = faults \/ (faults < job.max_faults /\ faults' = faults + 1)
    BY <1>3, RankFrame DEF PrepareDataset, CallTrainer, Commit, ReturnResult,
             NodeMoves, StartNode, AgentReturns, AgentRaises, NodeFails
  <2> QED BY <1>0, <2>1 DEF TypeOK
<1> QED BY <1>1, <1>2, <1>4, <1>5, <1>6, <1>7, <1>8 DEF TypeOK

\* The file is made of lines, and what is read from it of datums.
LEMMA StepBatches ==
  ASSUME TypeOK, BatchesAreRight, [Next]_vars
  PROVE  BatchesAreRight'
<1>1. PICK j \in Jobs : job = Deployed(j) BY DEF TypeOK
<1>2. /\ job.sources \in Seq(Sources) /\ job.sequence_length \in Int
      /\ job.micro_batch_size \in Nat \ {0}
  BY <1>1, DeployedSizes
<1>3. CASE PrepareDataset
  <2> DEFINE source == Head(job.sources)
  <2>1. job.sources # <<>> /\ dataset' = FileAfter(source, dataset) /\ batches' = batches
    BY <1>3 DEF PrepareDataset
  <2>2. source \in Sources BY <1>2, <2>1
  <2> HIDE DEF source
  <2>3. Lines(source) \in Seq(FileLines) BY <2>2, LinesAreLines
  <2> QED BY <2>1, <2>3 DEF BatchesAreRight, FileAfter
<1>4. CASE CallTrainer
  <2>1. /\ dataset' = dataset
        /\ batches' = LoadBatches(dataset, job.sequence_length, job.micro_batch_size)
    BY <1>4 DEF CallTrainer
  <2>2. HaveTrainingData(LoadBatches(dataset, job.sequence_length, job.micro_batch_size))
    BY <1>2, BatchesTrain DEF BatchesAreRight
  <2> QED BY <2>1, <2>2 DEF BatchesAreRight
<1>5. CASE UNCHANGED <<dataset, batches>> BY <1>5 DEF BatchesAreRight
<1>6. PrepareDataset \/ CallTrainer \/ UNCHANGED <<dataset, batches>>
  BY RankFrame DEF Next, Moves, Faults, vars, launch, NodeMoves, Commit, ReturnResult,
     StartNode, AgentReturns, AgentRaises, NodeFails
<1> QED BY <1>3, <1>4, <1>5, <1>6

\* Each step trains what was dealt for it.
LEMMA StepData ==
  ASSUME TypeOK, RanksAreRight, NodesAreRight, DataIsRight, [Next]_vars
  PROVE  DataIsRight'
<1>0. job.steps \in Nat /\ job.mode \in Modes /\ \A r \in Ranks : step[r] \in Nat
  BY JobFacts DEF TypeOK
<1>1. job' = job /\ Ranks' = Ranks /\ (Saves' <=> Saves) /\ (IsConfig(job)' <=> IsConfig(job))
  <2>1. job' = job BY StepBound
  <2> QED BY <2>1, JobIsFixed DEF IsConfig, WorldSize, ModelParallelSize, DataParallelSize
<1>2. PICK S : trained \in [Ranks -> Seq(S)] BY DEF DataIsRight
<1>3. \A r \in Ranks : TrainedIsRight(r) /\ StageIsRight(r)
  BY DEF DataIsRight, RanksAreRight
<1>4. \/ CallTrainer
      \/ batches' = batches
  BY RankFrame DEF Next, Moves, Faults, vars, launch, NodeMoves, PrepareDataset, Commit,
     ReturnResult, StartNode, AgentReturns, AgentRaises, NodeFails
<1>5. CASE CallTrainer
  <2>1. launcher # "called" /\ UNCHANGED <<node, at, step, trained>> BY <1>5 DEF CallTrainer
  <2>2. \A r \in Ranks : NodeOf(r) \in Nodes BY JobFacts DEF TypeOK
  <2>3. \A r \in Ranks : at[r] = "unstarted" BY <2>1, <2>2 DEF NodesAreRight, RanksOf
  <2>4. \A r \in Ranks : trained[r] = <<>> /\ entered[r] = {} /\ entered'[r] = {}
    BY <1>3, <1>5, <2>3 DEF TrainedIsRight, StageIsRight, CallTrainer
  <2> QED BY <1>1, <1>2, <1>3, <2>1, <2>3, <2>4 DEF DataIsRight, TrainedIsRight
<1>6. CASE batches' = batches /\ \E r \in Ranks : Advances(r) /\ at[r] = "forward_backward"
  <2> PICK r \in Ranks : Advances(r) /\ at[r] = "forward_backward" BY <1>6
  <2> DEFINE b == LocalBatches(r, step[r])
  <2>1. /\ trained' = [trained EXCEPT ![r] = Append(@, b)]
        /\ UNCHANGED <<step, entered>>
        /\ at' = [at EXCEPT ![r] = "optim_step"]
    <3>1. UNCHANGED <<step, entered>> /\ at' = [at EXCEPT ![r] = Following("forward_backward", step[r])]
      BY DEF Advances, TypeOK
    <3>2. Following("forward_backward", step[r]) = "optim_step"
      BY <1>0, FollowingStages DEF Collectives
    <3> QED BY <3>1, <3>2 DEF Advances
  <2>2. Saves /\ IsConfig(job) /\ Len(trained[r]) = step[r]
    BY <1>3 DEF StageIsRight, TrainedIsRight, Lost
  <2>3. \A q, s : LocalBatches(q, s)' = LocalBatches(q, s) BY <1>1, <1>6, DealIsFixed
  <2> HIDE DEF b
  <2>4. trained' \in [Ranks -> Seq(S \cup {b})]
    <3>1. ASSUME NEW q \in Ranks PROVE trained[q] \in Seq(S \cup {b}) BY <1>2
    <3>2. Append(trained[r], b) \in Seq(S \cup {b}) BY <3>1
    <3> QED BY <1>2, <2>1, <3>1, <3>2
  <2>5. ASSUME NEW q \in Ranks, q # r PROVE TrainedIsRight(q)'
    BY <1>1, <1>2, <1>3, <1>6, <2>1, <2>3, <2>5 DEF TrainedIsRight, TypeOK
  <2>6. TrainedIsRight(r)'
    <3>1. trained'[r] = Append(trained[r], b) /\ at'[r] = "optim_step" /\ step'[r] = step[r]
      BY <1>2, <2>1 DEF TypeOK
    <3>2. trained[r] \in Seq(S) BY <1>2
    <3>3. Len(trained'[r]) = step[r] + 1 BY <2>2, <3>1, <3>2
    <3>4. ASSUME NEW s \in 0 .. step[r] PROVE trained'[r][s + 1] = LocalBatches(r, s)
      <4>1. CASE s = step[r] BY <1>0, <2>2, <3>1, <3>2, <4>1 DEF b
      <4>2. CASE s < step[r]
        <5>1. trained'[r][s + 1] = trained[r][s + 1] BY <1>0, <2>2, <3>1, <3>2, <4>2
        <5> QED BY <1>0, <1>3, <2>2, <4>2, <5>1 DEF TrainedIsRight
      <4> QED BY <1>0, <4>1, <4>2
    <3>5. ASSUME NEW o \in entered[r], o[1] = "average" PROVE o[2] \in 1 .. Len(trained'[r])
      <4>1. o[2] \in 1 .. Len(trained[r]) BY <1>3, <3>5 DEF TrainedIsRight
      <4> QED BY <1>0, <2>2, <3>3, <4>1
    <3>6. batches.ok BY <1>3 DEF TrainedIsRight
    <3> QED BY <1>0, <1>1, <1>6, <2>1, <2>2, <2>3, <3>1, <3>3, <3>4, <3>5, <3>6 DEF TrainedIsRight
  <2> QED BY <1>1, <2>4, <2>5, <2>6 DEF DataIsRight
<1>7. CASE batches' = batches /\ trained' = trained
  <2>1. \A q, s : LocalBatches(q, s)' = LocalBatches(q, s) BY <1>1, <1>7, DealIsFixed
  <2> SUFFICES ASSUME NEW r \in Ranks
               PROVE  /\ at'[r] = "unstarted" => trained[r] = <<>>
                      /\ at'[r] # "unstarted" => IsConfig(job)
                      /\ Saves /\ at'[r] \notin Lost =>
                           Len(trained[r]) = IF at'[r] = "optim_step" THEN step'[r] + 1 ELSE step'[r]
                      /\ at'[r] \in {"forward_backward", "optim_step", "average"} => batches.ok
                      /\ \A o \in entered'[r] : o[1] = "average" => o[2] \in 1 .. Len(trained[r])
    BY <1>1, <1>2, <1>3, <1>7, <2>1 DEF DataIsRight, TrainedIsRight
  <2>2. CASE at'[r] = at[r] /\ step'[r] = step[r] /\ entered'[r] = entered[r]
    BY <1>3, <2>2 DEF TrainedIsRight
  <2>3. CASE Loses BY <1>3, <2>2, <2>3 DEF Loses, TrainedIsRight, Alive, Collectives, LocalStages, Lost
  <2>4. CASE \E n \in Nodes : Starts(n)
    <3> PICK n \in Nodes : Starts(n) BY <2>4
    <3>1. CASE NodeOf(r) # n BY <2>2, <3>1 DEF Starts
    <3>2. CASE NodeOf(r) = n
      <4>1. at[r] = "unstarted" BY <3>2 DEF NodesAreRight, RanksOf, Starts
      <4>2. trained[r] = <<>> /\ step[r] = 0 /\ step'[r] = 0 /\ entered'[r] = {}
        BY <1>3, <4>1 DEF TrainedIsRight, StageIsRight, Starts
      <4>3. at'[r] \in {"init", "load"} /\ IsConfig(job)
        BY <3>2 DEF Starts, FirstStage
      <4> QED BY <4>2, <4>3
    <3> QED BY <3>1, <3>2
  <2>5. CASE \E e \in Ranks : Enter(e)
    <3> PICK e \in Ranks : Enter(e) BY <2>5
    <3>1. /\ UNCHANGED <<at, step>>
          /\ entered' = [entered EXCEPT ![e] = @ \cup {<<at[e], step[e]>>}]
      BY DEF Enter, Occasion
    <3>2. ASSUME NEW o \in entered'[r], o[1] = "average" PROVE o[2] \in 1 .. Len(trained[r])
      <4>1. CASE o \in entered[r] BY <1>3, <3>2, <4>1 DEF TrainedIsRight
      <4>2. CASE o \notin entered[r]
        <5>1. o = <<at[r], step[r]>> BY <3>1, <4>2 DEF TypeOK
        <5>2. at[r] = "average" /\ o[2] = step[r] BY <3>2, <5>1
        <5>3. step[r] > 0 /\ Len(trained[r]) = step[r]
          BY <1>3, <5>2 DEF StageIsRight, TrainedIsRight, Lost
        <5> QED BY <1>0, <5>2, <5>3
      <4> QED BY <4>1, <4>2
    <3> QED BY <1>3, <3>1, <3>2 DEF TrainedIsRight
  <2>6. CASE Advances(r) /\ at[r] # "forward_backward"
    <3> DEFINE k == at[r]
               u == step'[r]
    <3>1. /\ k \in Collectives \cup LocalStages
          /\ u = IF k \in {"train_step", "optim_step"} THEN step[r] + 1 ELSE step[r]
          /\ at'[r] = Following(k, u)
      BY <2>6 DEF Advances, Alive, TypeOK
    <3>2. /\ k # "forward_backward" /\ (k = "train_step" => ~Saves)
          /\ IsConfig(job)
          /\ Saves => Len(trained[r]) = IF k = "optim_step" THEN step[r] + 1 ELSE step[r]
      BY <1>3, <2>6, <3>1
         DEF TrainedIsRight, StageIsRight, Collectives, LocalStages, Lost
    <3> HIDE DEF k, u
    <3>3. u \in Nat BY <1>0, <3>1
    <3>4. Following(k, u) \notin {"optim_step", "unstarted"}
      BY <1>0, <3>1, <3>2, <3>3, FollowingStages DEF Collectives, LocalStages, Modes, Saves
    <3>5. at'[r] # "optim_step" /\ at'[r] # "unstarted" BY <3>1, <3>4
    <3>6. Saves => Len(trained[r]) = u BY <3>1, <3>2
    <3>7. Following(k, u) \in {"forward_backward", "average"} => k \in {"load", "average", "optim_step"}
      BY <1>0, <3>1, <3>2, <3>3, FollowingStages DEF Collectives, LocalStages, Modes, Saves
    <3>8. k \in {"load", "average", "optim_step"} => batches.ok
      BY <1>3, <2>6 DEF TrainedIsRight, Advances, k
    <3>9. entered' = entered BY <2>6 DEF Advances
    <3>10. \A o \in entered'[r] : o[1] = "average" => o[2] \in 1 .. Len(trained[r])
      BY <1>3, <3>9 DEF TrainedIsRight
    <3> QED BY <3>1, <3>2, <3>5, <3>6, <3>7, <3>8, <3>10 DEF u
  <2>7. CASE \E e \in Ranks : e # r /\ Advances(e) BY <2>2, <2>7 DEF Advances, TypeOK
  <2>8. CASE Advances(r) /\ at[r] = "forward_backward"
    \* A step that trains takes the batches it was dealt.
    <3>1. trained' = [trained EXCEPT ![r] = Append(@, LocalBatches(r, step[r]))]
      BY <2>8 DEF Advances
    <3>2. trained'[r] = Append(trained[r], LocalBatches(r, step[r])) BY <1>2, <3>1
    <3>3. trained[r] \in Seq(S) BY <1>2
    <3>4. trained[r] = Append(trained[r], LocalBatches(r, step[r])) BY <1>7, <3>2
    <3>5. Len(trained[r]) \in Nat /\ Len(Append(trained[r], LocalBatches(r, step[r]))) = Len(trained[r]) + 1
      BY <3>3
    <3> QED BY <3>4, <3>5
  <2> QED BY <2>3, <2>4, <2>5, <2>6, <2>7, <2>8, StepShapes
<1>8. \/ trained' = trained
      \/ \E r \in Ranks : Advances(r) /\ at[r] = "forward_backward"
  BY StepShapes DEF Loses, Enter, Starts, Advances
<1> QED BY <1>4, <1>5, <1>6, <1>7, <1>8

\* What the mean of a step is depends on the job and its data.
LEMMA MeanIsFixed ==
  ASSUME job' = job, batches' = batches
  PROVE  /\ BatchCount' = BatchCount /\ DataParallelSize(job)' = DataParallelSize(job)
         /\ GradAccumSteps(job)' = GradAccumSteps(job)
         /\ \A s : GlobalBatch(s)' = GlobalBatch(s)
         /\ \A b : IsFull(b)' <=> IsFull(b)
         /\ \A r : ReplicaOf(r)' = ReplicaOf(r)
BY DEF BatchCount, GlobalBatch, GradAccumSteps, DataParallelSize, WorldSize, ModelParallelSize,
   IsFull, ReplicaOf, RankInfo

\* Mean of a step it stays.
LEMMA MeanStays ==
  ASSUME job' = job, batches' = batches, NEW u, IsMeanOf(losses'[u + 1], u)
  PROVE  IsMeanOf(losses[u + 1], u)'
<1>1. \A d \in 0 .. DataParallelSize(job)' - 1 : \E q \in DOMAIN losses'[u + 1] : ReplicaOf(q)' = d
  BY MeanIsFixed DEF IsMeanOf
<1>2. \A q, r \in DOMAIN losses'[u + 1] : ReplicaOf(q)' = ReplicaOf(r)' => q = r
  BY MeanIsFixed DEF IsMeanOf
<1>3. ASSUME NEW b \in 0 .. BatchCount' - 1, NEW i \in 1 .. Len(batches'.value[b + 1])
      PROVE  Cardinality(Counted(losses'[u + 1], b, i))
               = Cardinality({p \in GlobalBatch(u)' : p % BatchCount' = b})
  <2>1. b \in 0 .. BatchCount - 1 /\ i \in 1 .. Len(batches.value[b + 1]) BY MeanIsFixed
  <2>2. Cardinality(Counted(losses'[u + 1], b, i))
          = Cardinality({p \in GlobalBatch(u) : p % BatchCount = b})
    BY <2>1 DEF IsMeanOf
  <2>3. {p \in GlobalBatch(u)' : p % BatchCount' = b} = {p \in GlobalBatch(u) : p % BatchCount = b}
    BY MeanIsFixed
  <2> QED BY <2>2, <2>3
<1>4. (\A p \in GlobalBatch(u)' : IsFull(p % BatchCount)') =>
        \A q \in DOMAIN losses'[u + 1] : Len(losses'[u + 1][q]) = GradAccumSteps(job)'
  <2>1. (\A p \in GlobalBatch(u)' : IsFull(p % BatchCount)') =>
          \A p \in GlobalBatch(u) : IsFull(p % BatchCount)
    BY MeanIsFixed DEF IsFull
  <2> QED BY <2>1, MeanIsFixed DEF IsMeanOf
<1> QED BY <1>1, <1>2, <1>3, <1>4 DEF IsMeanOf, Counted

\* Rank 0 adds the mean of a step when every rank has trained it.
LEMMA StepLosses ==
  ASSUME TypeOK, RanksAreRight, RankZeroIsRight, NodesAreRight, BatchesAreRight, DataIsRight,
         LossesAreRight, [Next]_vars
  PROVE  LossesAreRight'
<1>0. job.steps \in Nat /\ 0 \in Ranks /\ (\A r \in Ranks : step[r] \in Nat)
  BY JobFacts DEF TypeOK
<1>1. job' = job BY StepBound
<1>2. \/ CallTrainer
      \/ batches' = batches
  BY RankFrame DEF Next, Moves, Faults, vars, launch, NodeMoves, PrepareDataset, Commit,
     ReturnResult, StartNode, AgentReturns, AgentRaises, NodeFails
<1>3. at'[0] = "unstarted" => at[0] = "unstarted"
  <2>1. CASE Advances(0)
    <3> DEFINE k == at[0]
               u == step'[0]
    <3>1. /\ k \in Collectives \cup LocalStages /\ at'[0] = Following(k, u)
          /\ u = step[0] \/ u = step[0] + 1
      BY <1>0, <2>1 DEF Advances, Alive, TypeOK
    <3>2. job.mode \in Modes BY JobFacts DEF TypeOK
    <3> HIDE DEF k, u
    <3>3. u \in Nat BY <1>0, <3>1
    <3>4. Following(k, u) # "unstarted"
      BY <1>0, <3>1, <3>2, <3>3, FollowingStages DEF Collectives, LocalStages, Modes, Saves
    <3> QED BY <3>1, <3>4
  <2>2. CASE Loses \/ (\E n \in Nodes : Starts(n)) \/ (\E r \in Ranks : Enter(r))
    BY <1>0, <2>2 DEF Loses, Lost, Starts, FirstStage, Enter
  <2>3. CASE \E r \in Ranks : r # 0 /\ Advances(r) BY <1>0, <2>3 DEF Advances, TypeOK
  <2> QED BY <2>1, <2>2, <2>3, StepShapes
<1>4. CASE CallTrainer
  <2>1. launcher # "called" /\ UNCHANGED <<node, at, losses>> BY <1>4 DEF CallTrainer, files
  <2>2. at[0] = "unstarted" BY <1>0, <2>1, JobFacts DEF NodesAreRight, RanksOf, TypeOK
  <2>3. losses' = <<>> BY <2>1, <2>2 DEF LossesAreRight
  <2> QED BY <2>3 DEF LossesAreRight, LossIsTheMeanOfTheStep
<1>5. CASE batches' = batches /\ losses' = losses
  <2>1. LossIsTheMeanOfTheStep'
    <3> SUFFICES ASSUME NEW s \in 0 .. Len(losses) - 1 PROVE IsMeanOf(losses[s + 1], s)'
      BY <1>5 DEF LossIsTheMeanOfTheStep
    <3>1. IsMeanOf(losses[s + 1], s) BY DEF LossesAreRight, LossIsTheMeanOfTheStep
    <3>2. IsMeanOf(losses'[s + 1], s) BY <1>5, <3>1
    <3> QED BY <1>1, <1>5, <3>2, MeanStays
  <2> QED BY <1>5, <1>3, <2>1 DEF LossesAreRight
<1>6. CASE batches' = batches /\ Advances(0) /\ at[0] = "average"
  <2> DEFINE s == step[0] - 1
             a == Average(s)
  <2>1. losses' = Append(losses, a) /\ at'[0] # "unstarted" BY <1>6, <1>3 DEF Advances
  <2>2. Saves /\ s \in Nat /\ s + 1 = step[0] /\ Len(losses) = s
    BY <1>0, <1>6 DEF RanksAreRight, StageIsRight, RankZeroIsRight, Lost
  <2>3. IsConfig(job) /\ batches.ok BY <1>0, <1>6 DEF DataIsRight, TrainedIsRight
  <2>4. HaveTrainingData(batches) BY DEF BatchesAreRight
  <2>5. ASSUME NEW q \in Ranks PROVE trained[q][s + 1] = LocalBatches(q, s)
    <3>1. <<"average", step[0]>> \in entered[q]
      BY <1>0, <1>6 DEF Advances, Group, Occasion, Collectives
    <3>2. TrainedIsRight(q) BY DEF DataIsRight
    <3>3. step[0] \in 1 .. Len(trained[q]) BY <3>1, <3>2 DEF TrainedIsRight
    <3>4. Len(trained[q]) \in Nat BY DEF DataIsRight
    <3>5. s \in 0 .. Len(trained[q]) - 1 BY <2>2, <3>3, <3>4
    <3> QED BY <3>2, <3>5 DEF TrainedIsRight
  <2>6. IsMeanOf(a, s)
    BY <2>2, <2>3, <2>4, <2>5, AverageIsTheMean DEF TypeOK
  <2>7. PICK S : losses \in Seq(S) BY DEF RankZeroIsRight
  <2> HIDE DEF s, a
  <2>8. /\ Len(losses') = s + 1 /\ losses'[s + 1] = a
        /\ \A i \in 1 .. s : losses'[i] = losses[i]
    <3>1. losses \in Seq(S \cup {a}) BY <2>7
    <3> QED BY <2>1, <2>2, <3>1
  <2>9. ASSUME NEW u \in 0 .. Len(losses') - 1
        PROVE  IsMeanOf(losses'[u + 1], u)
    <3>1. CASE u = s BY <2>6, <2>8, <3>1
    <3>2. CASE u # s
      <4>1. u \in 0 .. Len(losses) - 1 /\ losses'[u + 1] = losses[u + 1] BY <2>2, <2>8, <3>2
      <4> QED BY <4>1 DEF LossesAreRight, LossIsTheMeanOfTheStep
    <3> QED BY <3>1, <3>2
  <2>10. LossIsTheMeanOfTheStep'
    <3> SUFFICES ASSUME NEW u \in 0 .. Len(losses') - 1 PROVE IsMeanOf(losses[u + 1], u)'
      BY DEF LossIsTheMeanOfTheStep
    <3>1. IsMeanOf(losses'[u + 1], u) BY <2>9
    <3> QED BY <1>1, <1>6, <3>1, MeanStays
  <2> QED BY <2>1, <2>10 DEF LossesAreRight
<1>7. losses' = losses \/ (Advances(0) /\ at[0] = "average")
  BY StepShapes DEF Loses, Enter, Starts, Advances, files
<1> QED BY <1>2, <1>4, <1>5, <1>6, <1>7

LEMMA InitIInv == Init => IInv
<1> SUFFICES ASSUME Init PROVE IInv OBVIOUS
<1>0. /\ job \in {Deployed(j) : j \in Jobs}
      /\ job.steps \in Nat /\ job.max_faults \in Nat
      /\ 0 \in Ranks /\ 0 \in Nodes
  BY JobFacts DEF Init
<1>1. TypeOK
  <2>1. 0 \in 0 .. job.steps /\ 0 \in 0 .. job.max_faults BY <1>0
  <2>2. step \in [Ranks -> 0 .. job.steps] BY <2>1 DEF Init
  <2>3. /\ at \in [Ranks -> Stages] /\ inside \in [Ranks -> BOOLEAN]
        /\ node \in [Nodes -> NodeStates] /\ stored \in [Ranks -> BOOLEAN]
        /\ entered \in [Ranks -> SUBSET (Collectives \X (0 .. job.steps))]
    BY DEF Init, Stages, NodeStates
  <2> QED BY <1>0, <2>1, <2>2, <2>3 DEF Init, TypeOK
<1>2. RanksAreRight
  BY <1>0 DEF Init, RanksAreRight, StageIsRight, EnteredAfterwards, PassedTogether, SavingStages
<1>3. RankZeroIsRight
  <2>1. losses \in Seq({}) /\ Len(losses) = 0 BY DEF Init
  <2> QED BY <1>0, <2>1 DEF Init, RankZeroIsRight
<1>4. PayloadIsRight BY <1>0 DEF Init, PayloadIsRight
<1>5. NodesAreRight BY <1>0 DEF Init, NodesAreRight, RanksOf
<1>6. SoundJobsDoNotFail BY DEF Init, SoundJobsDoNotFail
<1>7. DataIsRight
  <2>1. trained \in [Ranks -> Seq({})] /\ \A r \in Ranks : trained[r] = <<>> BY DEF Init
  <2> QED BY <2>1 DEF Init, DataIsRight, TrainedIsRight
<1>8. BatchesAreRight
  <2>1. PICK j \in Jobs : job = Deployed(j) BY <1>0
  <2>2. job.lines \in Seq(FileLines) BY <2>1, DeployedSizes
  <2>3. ~batches.ok /\ DOMAIN batches.value = {} BY DEF Init, Raised
  <2> QED BY <2>2, <2>3 DEF Init, BatchesAreRight, HaveTrainingData
<1>9. LossesAreRight BY DEF Init, LossesAreRight, LossIsTheMeanOfTheStep
<1> QED BY <1>1, <1>2, <1>3, <1>4, <1>5, <1>6, <1>7, <1>8, <1>9 DEF IInv

LEMMA SpecIInv == Spec => []IInv
<1>1. IInv /\ [Next]_vars => IInv'
  BY StepType, StepRanks, StepRankZero, StepPayload, StepNodes, StepSound, StepBatches, StepData,
     StepLosses
  DEF IInv
<1> QED BY InitIInv, <1>1, PTL DEF Spec

\* Every variable keeps its type, and no rank goes past the steps of the job
\* (train_entry.py:160).
THEOREM TypeCorrect == Spec => []TypeOK
<1>1. IInv => TypeOK BY DEF IInv
<1> QED BY <1>1, SpecIInv, PTL

\* Rank 0's manifest is written after all ranks have trained and exported; it comes with
\* the adapter's files exactly where their writer runs on node 0 (megatron.py:666-708).
THEOREM ManifestsWhole == Spec => []ManifestsAreWhole
<1>1. IInv => ManifestsAreWhole
  <2> SUFFICES ASSUME IInv, Saves, stored[0]
               PROVE  /\ payload = (NodeOf(job.writer) = 0)
                      /\ \A r \in Ranks :
                           step[r] = job.steps /\ <<"export", job.steps>> \in entered[r]
    BY DEF ManifestsAreWhole
  <2>1. 0 \in Ranks BY JobFacts DEF IInv, TypeOK
  <2>2. \A r \in Ranks : AdapterBarrier \in entered[r]
    BY <2>1 DEF IInv, RanksAreRight, PassedTogether
  <2>3. \A r \in Ranks : step[r] = job.steps /\ HasExported(r)
    BY <2>2 DEF IInv, RanksAreRight, EnteredAfterwards, AdapterBarrier
  <2>4. payload \in BOOLEAN /\ (payload <=> NodeOf(job.writer) = 0)
    BY DEF IInv, TypeOK, PayloadIsRight
  <2> QED BY <2>3, <2>4 DEF HasExported
<1> QED BY <1>1, SpecIInv, PTL

\* When the call answers, every rank of every node has trained and saved, and rank 0's
\* manifest and result are in place (qwen_sft_multinode/infra.py:324-344).
THEOREM ResultAuthoritative == Spec => []ResultIsAuthoritative
<1>1. IInv => ResultIsAuthoritative
  <2> SUFFICES ASSUME IInv, node[0] = "returned"
               PROVE  /\ result /\ committed
                      /\ Saves => /\ Len(losses) = job.steps
                                  /\ \A r \in Ranks : stored[r]
                      /\ ~Saves => \A r \in Ranks : <<"end_barrier", step[r]>> \in entered[r]
    BY DEF ResultIsAuthoritative
  <2>1. 0 \in Ranks BY JobFacts DEF IInv, TypeOK
  <2>2. at[0] = "done" /\ result /\ committed BY DEF IInv, NodesAreRight
  <2>3. Saves => Len(losses) = job.steps
    BY <2>1, <2>2 DEF IInv, RankZeroIsRight, RanksAreRight, StageIsRight, Lost
  <2>4. PassedTogether(0) BY <2>1 DEF IInv, RanksAreRight
  <2>5. Saves => \A r \in Ranks : stored[r] BY <2>2, <2>4 DEF PassedTogether
  <2>6. ASSUME ~Saves, NEW r \in Ranks PROVE <<"end_barrier", step[r]>> \in entered[r]
    <3>1. PICK s \in 0 .. job.steps : <<"end_barrier", s>> \in entered[r]
      BY <2>2, <2>4, <2>6 DEF PassedTogether
    <3>2. s = step[r] BY <3>1 DEF IInv, RanksAreRight, EnteredAfterwards
    <3> QED BY <3>1, <3>2
  <2> QED BY <2>2, <2>3, <2>5, <2>6
<1> QED BY <1>1, SpecIInv, PTL

\* Once the call has answered, nothing that it answered, or that lies in the volume
\* then, is changed by a rank or a container that still runs, or is lost
\* (qwen_sft_multinode/infra.py:332-344).
AnswerIsFinal ==
  node[0] = "returned" =>
    /\ node'[0] = node[0]
    /\ UNCHANGED <<launch, committed, step, trained, files>>

THEOREM AnswersAreFinal == Spec => [][AnswerIsFinal]_vars
<1>1. ASSUME IInv, [Next]_vars, node[0] = "returned"
      PROVE  node'[0] = node[0] /\ UNCHANGED <<launch, committed, step, trained, files>>
  <2>0. /\ 0 \in Ranks /\ 0 \in Nodes /\ (\A r \in Ranks : NodeOf(r) \in Nodes)
        /\ job.mode \in Modes /\ job.steps \in Nat
    BY <1>1, JobFacts DEF IInv, TypeOK
  <2>1. TypeOK /\ at[0] = "done" /\ launcher = "called"
    BY <1>1, <2>0 DEF IInv, NodesAreRight
  <2>2. UNCHANGED <<step, trained, files>>
    <3>1. CASE Loses BY <3>1 DEF Loses, files
    <3>2. CASE \E r \in Ranks : Enter(r) BY <3>2 DEF Enter, files
    <3>3. CASE \E n \in Nodes : Starts(n) BY <3>3 DEF Starts, files
    <3>4. CASE \E r \in Ranks : Advances(r)
      <4> PICK r \in Ranks : Advances(r) BY <3>4
      <4>1. StageIsRight(r) /\ EnteredAfterwards(r) /\ PassedTogether(0)
        BY <1>1, <2>0 DEF IInv, RanksAreRight
      <4>2. r # 0 /\ at[r] \in Collectives \cup LocalStages
        BY <2>1 DEF Advances, Alive, Collectives, LocalStages
      \* A rank that has saved takes no step and exports nothing any more.
      <4>3. CASE Saves
        <5>1. stored[r] BY <2>0, <2>1, <4>1, <4>3 DEF PassedTogether
        <5>2. AdapterBarrier \in entered[r]
          BY <1>1, <5>1 DEF IInv, RanksAreRight, PassedTogether
        <5>3. step[r] = job.steps /\ HasExported(r)
          BY <4>1, <5>2 DEF EnteredAfterwards, AdapterBarrier
        <5>4. at[r] \notin {"forward_backward", "optim_step", "train_step"}
          BY <2>0, <4>1, <4>3, <5>3 DEF StageIsRight
        <5>5. r = job.writer /\ NodeOf(r) = 0 => adapter BY <5>3 DEF HasExported
        <5> QED BY <2>1, <4>2, <5>1, <5>4, <5>5 DEF Advances, TypeOK, files
      \* A rank that is in the last barrier, or past it, has nothing left to do.
      <4>4. CASE ~Saves
        <5>1. PICK s \in 0 .. job.steps : <<"end_barrier", s>> \in entered[r]
          BY <2>1, <4>1, <4>4 DEF PassedTogether
        <5>2. at[r] \in {"end_barrier", "close"}
          BY <4>1, <4>2, <5>1 DEF EnteredAfterwards, Collectives, LocalStages, Lost
        <5> QED BY <2>1, <4>2, <5>2 DEF Advances, TypeOK, files
      <4> QED BY <4>3, <4>4
    <3> QED BY <1>1, <2>1, <3>1, <3>2, <3>3, <3>4, StepShapes
  <2>3. node'[0] = node[0] /\ UNCHANGED <<launch, committed>>
    <3>1. CASE \E r \in Ranks : RankMoves(r) \/ RankFails(r) BY <2>1, <3>1, RankFrame
    <3>2. CASE \E n \in Nodes : NodeMoves(n) \/ NodeFails(n)
      <4> PICK n \in Nodes : NodeMoves(n) \/ NodeFails(n) BY <3>2
      <4>1. node[n] # "returned" /\ UNCHANGED <<launch, committed>>
        BY DEF NodeMoves, StartNode, AgentReturns, AgentRaises, NodeFails
      <4>2. \E v : node' = [node EXCEPT ![n] = v]
        BY DEF NodeMoves, StartNode, AgentReturns, AgentRaises, NodeFails
      <4> QED BY <1>1, <2>0, <2>1, <4>1, <4>2 DEF TypeOK
    <3>3. CASE PrepareDataset \/ CallTrainer
      BY <2>0, <2>1, <3>3 DEF PrepareDataset, CallTrainer
    <3>4. CASE Commit \/ ReturnResult BY <1>1, <3>4 DEF Commit, ReturnResult
    <3>5. CASE UNCHANGED vars BY <3>5 DEF vars, launch
    <3> QED BY <1>1, <3>1, <3>2, <3>3, <3>4, <3>5 DEF Next, Moves, Faults
  <2> QED BY <2>2, <2>3
<1>2. IInv /\ [Next]_vars => AnswerIsFinal BY <1>1 DEF AnswerIsFinal
<1> QED BY <1>2, SpecIInv, PTL DEF Spec

\* The ranks of a job whose sizes and data are right meet in the same collectives, so
\* none of them fails but for a fault from outside (train_entry.py:117-239).
THEOREM SoundJobs == Spec => []SoundJobsDoNotFail
<1>1. IInv => SoundJobsDoNotFail BY DEF IInv
<1> QED BY <1>1, SpecIInv, PTL

\* A datum of a batch that a rank reads trains the tokens of its completion and the end
\* of text that the sequence length leaves, and nothing else (data.py:144-193), whatever
\* lines the file holds and whatever data set it was made from.
THEOREM DatumsTrain == Spec => []DatumsTrainCompletions
<1>1. IInv => DatumsTrainCompletions
  BY DEF IInv, BatchesAreRight, HaveTrainingData, Trains, DatumsTrainCompletions
<1> QED BY <1>1, SpecIInv, PTL

\* Each loss of rank 0 is a mean over the replicas, each of them once, of means over the
\* microbatches it has really cut, in which every datum of the step's global batch counts
\* as often as its batch occurs there; where its batches are full the replicas have
\* equally many microbatches (train_entry.py:152-186, megatron.py:854-883, 905-919).
\* This is so for every parallel layout and every length of the data.
THEOREM LossIsTheMean == Spec => []LossIsTheMeanOfTheStep
<1>1. IInv => LossIsTheMeanOfTheStep BY DEF IInv, LossesAreRight
<1> QED BY <1>1, SpecIInv, PTL

\* A step that all ranks have taken has trained its global batch, each batch as often
\* as it occurs there, whatever the parallel layout (train_entry.py:152-174).
THEOREM EveryStepTrains == Spec => []EveryStepTrainsTheGlobalBatch
<1>1. ASSUME IInv PROVE EveryStepTrainsTheGlobalBatch
  <2> SUFFICES ASSUME NEW s \in 0 .. job.steps - 1, \A r \in Ranks : Len(trained[r]) > s
               PROVE  /\ \A r \in Ranks : \A q \in ModelGroup(r) :
                           trained[q][s + 1] = trained[r][s + 1]
                      /\ \A b \in 0 .. BatchCount - 1 :
                           Cardinality({rm \in Leaders \X MicroSteps(job) :
                                          trained[rm[1]][s + 1][rm[2]] = b})
                             = Cardinality({p \in GlobalBatch(s) : p % BatchCount = b})
    BY DEF EveryStepTrainsTheGlobalBatch, Leaders
  <2>1. job \in {Deployed(j) : j \in Jobs} /\ job.steps \in Nat /\ 0 \in Ranks /\ s \in Nat
    BY <1>1, JobFacts DEF IInv, TypeOK
  <2>2. PICK S : trained \in [Ranks -> Seq(S)] BY <1>1 DEF IInv, DataIsRight
  <2>3. ASSUME NEW r \in Ranks PROVE trained[r][s + 1] = LocalBatches(r, s) /\ IsConfig(job)
    <3>1. TrainedIsRight(r) BY <1>1 DEF IInv, DataIsRight
    <3>2. Len(trained[r]) \in Nat /\ s < Len(trained[r]) BY <2>2
    <3>3. trained[r] # <<>> BY <2>1, <3>2
    <3> QED BY <2>1, <3>1, <3>2, <3>3 DEF TrainedIsRight
  <2>4. ASSUME NEW r \in Ranks, NEW q \in ModelGroup(r)
        PROVE  trained[q][s + 1] = trained[r][s + 1]
    <3>1. q \in Ranks /\ ReplicaOf(q) = ReplicaOf(r) BY DEF ModelGroup, ReplicaOf
    <3>2. LocalBatches(q, s) = LocalBatches(r, s) BY <3>1 DEF LocalBatches
    <3> QED BY <2>3, <3>1, <3>2
  <2>5. ASSUME NEW b \in 0 .. BatchCount - 1
        PROVE  Cardinality({rm \in Leaders \X MicroSteps(job) :
                              trained[rm[1]][s + 1][rm[2]] = b})
                 = Cardinality({p \in GlobalBatch(s) : p % BatchCount = b})
    <3>1. ASSUME NEW rm \in Leaders \X MicroSteps(job)
          PROVE  trained[rm[1]][s + 1][rm[2]]
                   = DealtIndex(job, ReplicaOf(rm[1]), s, rm[2], BatchCount)
      <4>1. rm[1] \in Ranks /\ rm[2] \in MicroSteps(job) BY DEF Leaders
      <4>2. trained[rm[1]][s + 1] = LocalBatches(rm[1], s) BY <2>3, <4>1
      <4> QED BY <4>1, <4>2 DEF LocalBatches
    <3>2. {rm \in Leaders \X MicroSteps(job) : trained[rm[1]][s + 1][rm[2]] = b}
            = Takers(s, BatchCount, b)
      BY <3>1 DEF Takers
    <3>3. IsConfig(job) BY <2>1, <2>3
    <3>4. Cardinality(Takers(s, BatchCount, b)) = Cardinality(Occurrences(s, BatchCount, b))
      BY <2>1, <3>3, LeadersTakeTheBatch
    <3> QED BY <3>2, <3>4 DEF Occurrences
  <2> QED BY <2>4, <2>5
<1>2. IInv => EveryStepTrainsTheGlobalBatch BY <1>1
<1> QED BY <1>2, SpecIInv, PTL
=============================================================================
