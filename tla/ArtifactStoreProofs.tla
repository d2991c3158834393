------------------------- MODULE ArtifactStoreProofs -------------------------
(***************************************************************************)
(* ArtifactStore keeps LatestNamesComplete, ReturnedStaysWhole and         *)
(* LoadsAreFresh for any number of loads, versions and processes.          *)
(***************************************************************************)
EXTENDS ArtifactStore, TLAPS

\* What write() has behind it, at each of its points.
WriteProgress ==
  /\ writing \in {"payload_done", "manifest", "manifest_done", "latest"} =>
       payload[version] = Whole(process)
  /\ writing \in {"manifest_done", "latest"} => manifest[version] = Whole(0)
  /\ writing # "idle" /\ latest = Whole(version) => version \in overwriting

\* A whole payload is of a process that lives or has lived, and not of an earlier
\* one than the last to return an artifact of the version.
PayloadsOnlyGetNewer ==
  \A v \in Versions :
    /\ issued[v] <= process
    /\ payload[v].state = "whole" => payload[v].of \in issued[v] .. process

\* What this process has returned is at most the current version, and is being
\* overwritten as soon as it is saved again.
ReturnedByThisProcess ==
  /\ \A v \in returned : v <= version
  /\ version \in returned =>
       \/ latest = Whole(version) /\ writing = "idle"
       \/ version \in overwriting

\* latest.json names the newest returned version, or none that can be read.
LatestIsNewest ==
  \A v \in Versions : latest = Whole(v) /\ returned # {} =>
    v \in returned /\ \A w \in returned : w <= v

\* A load is about a version as new as those it must not fall behind, of which
\* artifacts have been returned as late.
LoadsUnderWay ==
  \A r \in Readers : \A v \in Versions :
    load[r].file # "none" /\ load[r].due[v] # 0 =>
      v <= load[r].version /\ load[r].due[v] <= issued[load[r].version]

IInv ==
  /\ TypeOK
  /\ LatestNamesComplete
  /\ ReturnedStaysWhole
  /\ WriteProgress
  /\ PayloadsOnlyGetNewer
  /\ ReturnedByThisProcess
  /\ LatestIsNewest
  /\ LoadsUnderWay
  /\ LoadsAreFresh

\* A file is missing, torn or whole, and a whole file has one content.
LEMMA FileStates ==
  /\ Missing # Torn
  /\ \A x : Whole(x).state = "whole" /\ Whole(x).of = x
  /\ \A x : Whole(x) # Torn /\ Whole(x) # Missing
  /\ \A x, y : Whole(x) = Whole(y) => x = y
  /\ Torn.state # "whole" /\ Missing.state # "whole"
<1>1. \A x : Whole(x).state = "whole" /\ Whole(x).of = x
  BY DEF Whole
<1>2. Torn.state = "torn" /\ Missing.state = "missing"
  BY DEF Torn, Missing
<1> QED BY <1>1, <1>2

\* Every variable keeps its type.
LEMMA TypeInit == Init => TypeOK
BY BoundsAssumption DEF Init, TypeOK, Versions, Processes, Files, Missing,
   WriteStates, NotLoading, NothingDue, Loads

LEMMA TypeStep == TypeOK /\ [Next]_vars => TypeOK'
<1> SUFFICES ASSUME TypeOK, [Next]_vars PROVE TypeOK'
  OBVIOUS
<1> USE BoundsAssumption
<1>1. CASE OptimStep
  BY <1>1 DEF OptimStep, TypeOK, disk, Versions
<1>2. CASE BeginWrite
  BY <1>2 DEF BeginWrite, TypeOK, Files, WriteStates
<1>3. CASE WritePayload
  BY <1>3 DEF WritePayload, TypeOK, Files, WriteStates
<1>4. CASE TruncateManifest
  BY <1>4 DEF TruncateManifest, TypeOK, Files, WriteStates
<1>5. CASE WriteManifest
  BY <1>5 DEF WriteManifest, TypeOK, Files, WriteStates
<1>6. CASE TruncateLatest
  BY <1>6 DEF TruncateLatest, TypeOK, Files, WriteStates
<1>7. CASE WriteLatest
  BY <1>7 DEF WriteLatest, TypeOK, Files, WriteStates, Processes
<1>8. CASE WriteFails
  BY <1>8 DEF WriteFails, TypeOK, disk, WriteStates
<1>9. CASE Restart
  BY <1>9 DEF Restart, TypeOK, disk, WriteStates, NotLoading, NothingDue,
     Loads, Versions, Processes
<1>10. ASSUME NEW r \in Readers, NEW file \in {"manifest", "payload"},
              NEW v \in Versions, NEW due, StartLoad(r, file, v, due)
       PROVE TypeOK'
  BY <1>10 DEF StartLoad, TypeOK, disk, Loads
<1>11. ASSUME NEW r \in Readers, ReadManifest(r) PROVE TypeOK'
  BY <1>11 DEF ReadManifest, TypeOK, disk, Loads
<1>12. ASSUME NEW r \in Readers, ReadPayload(r) PROVE TypeOK'
  <2>1. payload[load[r].version].of \in 0 .. MaxProcess
    BY DEF TypeOK, Loads, Files, Missing, Torn, Whole, Processes
  <2> QED
    BY <1>12, <2>1 DEF ReadPayload, TypeOK, disk, Loads
<1>13. ASSUME NEW r \in Readers, LoadFails(r) PROVE TypeOK'
  BY <1>13 DEF LoadFails, TypeOK, disk, NotLoading, NothingDue, Loads, Versions
<1>14. CASE UNCHANGED vars
  BY <1>14 DEF TypeOK, vars, disk
<1> QED
  <2>1. ASSUME NEW r \in Readers, ReadLatest(r) PROVE TypeOK'
    BY <2>1, <1>10 DEF ReadLatest
  <2>2. ASSUME NEW r \in Readers, GivenArtifact(r) PROVE TypeOK'
    BY <2>2, <1>10 DEF GivenArtifact
  <2> QED
    BY <1>1, <1>2, <1>3, <1>4, <1>5, <1>6, <1>7, <1>8, <1>9, <1>11, <1>12,
       <1>13, <1>14, <2>1, <2>2 DEF Next, Write, Load

LEMMA InvInit == Init => IInv
<1> SUFFICES ASSUME Init PROVE IInv
  OBVIOUS
<1>1. TypeOK
  BY TypeInit
<1>2. returned = {}
  BY DEF Init, returned
<1>3. load = [r \in Readers |-> NotLoading] /\ NotLoading.file = "none"
  BY DEF Init, NotLoading
<1> QED
  BY <1>1, <1>2, <1>3, FileStates DEF Init, IInv, LatestNamesComplete,
     ReturnedStaysWhole, WriteProgress, PayloadsOnlyGetNewer,
     ReturnedByThisProcess, LatestIsNewest, LoadsUnderWay, LoadsAreFresh

\* A load changes only what the loads know.
LEMMA LoadStep ==
  ASSUME IInv, TypeOK', UNCHANGED <<process, version, disk, writing, issued, overwriting>>,
         LoadsUnderWay', LoadsAreFresh'
  PROVE  IInv'
BY DEF IInv, LatestNamesComplete, Complete, ReturnedStaysWhole, WriteProgress,
   PayloadsOnlyGetNewer, ReturnedByThisProcess, LatestIsNewest, disk, returned

\* A load that begins about a version at least as new as it must be.
LEMMA StartLoadKeeps ==
  ASSUME IInv, TypeOK', NEW r \in Readers, NEW file \in {"manifest", "payload"},
         NEW v \in Versions, NEW due \in SUBSET Versions,
         StartLoad(r, file, v, due),
         \A w \in due : w <= v /\ issued[w] <= issued[v]
  PROVE  IInv'
<1> DEFINE began == [file |-> file, version |-> v, weights |-> 0,
                     due |-> [w \in Versions |-> IF w \in due THEN issued[w] ELSE 0]]
<1>0. load' = [load EXCEPT ![r] = began]
  BY DEF StartLoad
<1>1. /\ load'[r] = began
      /\ \A s \in Readers : s # r => load'[s] = load[s]
  BY <1>0 DEF IInv, TypeOK
<1>2. /\ began.version = v /\ began.file # "returned"
      /\ \A w \in Versions : began.due[w] # 0 => w \in due /\ began.due[w] = issued[w]
  OBVIOUS
<1>3. UNCHANGED <<process, version, disk, writing, issued, overwriting>>
  BY DEF StartLoad
<1> HIDE DEF began
<1>4. LoadsUnderWay'
  BY <1>1, <1>2, <1>3 DEF IInv, LoadsUnderWay
<1>5. LoadsAreFresh'
  BY <1>1, <1>2 DEF IInv, LoadsAreFresh
<1> QED
  BY <1>3, <1>4, <1>5, LoadStep

\* What the training process does leaves a load as it is, and returns artifacts of
\* no earlier process than before.
LEMMA LoadsKept ==
  ASSUME IInv, UNCHANGED load,
         \A v \in Versions : issued[v] \in Nat /\ issued'[v] \in Nat /\ issued'[v] >= issued[v]
  PROVE  LoadsUnderWay' /\ LoadsAreFresh'
<1>1. \A r \in Readers : load[r].version \in Versions
                         /\ \A v \in Versions : load[r].due[v] \in Nat
  BY DEF IInv, TypeOK, Loads
<1> QED
  BY <1>1 DEF IInv, LoadsUnderWay, LoadsAreFresh

LEMMA InvStep == IInv /\ [Next]_vars => IInv'
<1> SUFFICES ASSUME IInv, [Next]_vars PROVE IInv'
  OBVIOUS
<1>0. TypeOK /\ TypeOK'
  BY TypeStep DEF IInv
<1>a. \A v \in Versions : issued[v] \in Nat
  BY <1>0 DEF TypeOK
<1>b. process \in Nat /\ process # 0 /\ version \in Versions
  BY <1>0 DEF TypeOK, Processes
<1> USE <1>0, FileStates
<1>1. CASE OptimStep
  <2>1. LoadsUnderWay' /\ LoadsAreFresh'
    BY <1>1, <1>a, LoadsKept DEF OptimStep
  <2> QED
    BY <1>1, <2>1 DEF OptimStep, IInv, TypeOK, LatestNamesComplete, Complete,
       ReturnedStaysWhole, WriteProgress, PayloadsOnlyGetNewer,
       ReturnedByThisProcess, LatestIsNewest, disk, Versions, returned
<1>2. CASE BeginWrite
  <2> USE <1>2 DEF BeginWrite
  <2>0. LoadsUnderWay' /\ LoadsAreFresh' /\ returned' = returned
    BY <1>a, LoadsKept DEF returned
  <2>1. LatestNamesComplete'
    BY DEF IInv, TypeOK, LatestNamesComplete, Complete
  <2>2. ReturnedStaysWhole'
    BY <2>0 DEF IInv, TypeOK, ReturnedStaysWhole, ReturnedByThisProcess
  <2>3. WriteProgress' /\ LatestIsNewest'
    BY <2>0 DEF IInv, TypeOK, WriteProgress, LatestIsNewest
  <2>4. ReturnedByThisProcess' /\ PayloadsOnlyGetNewer'
    BY <2>0 DEF IInv, TypeOK, ReturnedByThisProcess, PayloadsOnlyGetNewer
  <2> QED BY <2>0, <2>1, <2>2, <2>3, <2>4 DEF IInv
<1>3. CASE WritePayload
  <2> USE <1>3 DEF WritePayload
  <2>0. LoadsUnderWay' /\ LoadsAreFresh' /\ returned' = returned
    BY <1>a, LoadsKept DEF returned
  <2>1. LatestNamesComplete'
    BY DEF IInv, TypeOK, LatestNamesComplete, Complete
  <2>2. ReturnedStaysWhole'
    BY <2>0 DEF IInv, TypeOK, ReturnedStaysWhole, ReturnedByThisProcess
  <2>3. WriteProgress' /\ LatestIsNewest'
    BY <2>0 DEF IInv, TypeOK, WriteProgress, LatestIsNewest
  <2>4. ReturnedByThisProcess' /\ PayloadsOnlyGetNewer'
    BY <2>0, <1>a, <1>b DEF IInv, TypeOK, ReturnedByThisProcess, PayloadsOnlyGetNewer
  <2> QED BY <2>0, <2>1, <2>2, <2>3, <2>4 DEF IInv
<1>4. CASE TruncateManifest
  <2> USE <1>4 DEF TruncateManifest
  <2>0. LoadsUnderWay' /\ LoadsAreFresh' /\ returned' = returned
    BY <1>a, LoadsKept DEF returned
  <2>1. LatestNamesComplete'
    BY DEF IInv, TypeOK, LatestNamesComplete, Complete, WriteProgress
  <2>2. ReturnedStaysWhole'
    BY <2>0 DEF IInv, TypeOK, ReturnedStaysWhole, ReturnedByThisProcess
  <2>3. WriteProgress' /\ LatestIsNewest' /\ ReturnedByThisProcess'
        /\ PayloadsOnlyGetNewer'
    BY <2>0 DEF IInv, TypeOK, WriteProgress, LatestIsNewest,
       ReturnedByThisProcess, PayloadsOnlyGetNewer
  <2> QED BY <2>0, <2>1, <2>2, <2>3 DEF IInv
<1>5. CASE WriteManifest
  <2> USE <1>5 DEF WriteManifest
  <2>0. LoadsUnderWay' /\ LoadsAreFresh' /\ returned' = returned
    BY <1>a, LoadsKept DEF returned
  <2>1. LatestNamesComplete' /\ ReturnedStaysWhole'
    BY <2>0 DEF IInv, TypeOK, LatestNamesComplete, Complete, ReturnedStaysWhole
  <2>2. WriteProgress' /\ LatestIsNewest' /\ ReturnedByThisProcess'
        /\ PayloadsOnlyGetNewer'
    BY <2>0 DEF IInv, TypeOK, WriteProgress, LatestIsNewest,
       ReturnedByThisProcess, PayloadsOnlyGetNewer
  <2> QED BY <2>0, <2>1, <2>2 DEF IInv
<1>6. CASE TruncateLatest
  <2>0. LoadsUnderWay' /\ LoadsAreFresh' /\ returned' = returned
    BY <1>6, <1>a, LoadsKept DEF TruncateLatest, returned
  <2> QED
    BY <1>6, <2>0 DEF TruncateLatest, IInv, TypeOK, LatestNamesComplete, Complete,
       ReturnedStaysWhole, WriteProgress, PayloadsOnlyGetNewer,
       ReturnedByThisProcess, LatestIsNewest
<1>7. CASE WriteLatest
  <2> USE <1>7 DEF WriteLatest
  <2>a. /\ issued'[version] = process
        /\ \A v \in Versions : v # version => issued'[v] = issued[v]
    BY <1>0 DEF TypeOK
  <2>0. LoadsUnderWay' /\ LoadsAreFresh'
    <3>1. \A v \in Versions : issued'[v] \in Nat /\ issued'[v] >= issued[v]
      BY <1>a, <1>b, <2>a DEF IInv, PayloadsOnlyGetNewer
    <3> QED BY <3>1, <1>a, LoadsKept
  <2>b. returned' = returned \cup {version}
    BY <2>a, <1>b DEF returned
  <2>1. LatestNamesComplete'
    BY DEF IInv, TypeOK, LatestNamesComplete, Complete, WriteProgress
  <2>2. ReturnedStaysWhole'
    BY <2>b DEF IInv, TypeOK, ReturnedStaysWhole, WriteProgress
  <2>3. WriteProgress' /\ PayloadsOnlyGetNewer'
    BY <2>a, <1>b DEF IInv, TypeOK, WriteProgress, PayloadsOnlyGetNewer
  <2>4. ReturnedByThisProcess'
    BY <2>b DEF IInv, TypeOK, ReturnedByThisProcess, Versions
  <2>5. LatestIsNewest'
    <3>1. \A w \in returned' : w <= version
      BY <2>b, BoundsAssumption DEF IInv, TypeOK, ReturnedByThisProcess, Versions
    <3>2. \A v \in Versions : latest' = Whole(v) => v = version
      OBVIOUS
    <3> QED BY <2>b, <3>1, <3>2 DEF LatestIsNewest
  <2> QED BY <2>0, <2>1, <2>2, <2>3, <2>4, <2>5 DEF IInv
<1>8. CASE WriteFails
  <2>0. LoadsUnderWay' /\ LoadsAreFresh' /\ returned' = returned
    BY <1>8, <1>a, LoadsKept DEF WriteFails, returned
  <2> QED
    BY <1>8, <2>0 DEF WriteFails, disk, IInv, TypeOK, LatestNamesComplete, Complete,
       ReturnedStaysWhole, WriteProgress, PayloadsOnlyGetNewer,
       ReturnedByThisProcess, LatestIsNewest
<1>9. CASE Restart
  <2> USE <1>9 DEF Restart, disk
  <2>1. returned' = {}
    BY <1>a, <1>b DEF returned, IInv, PayloadsOnlyGetNewer
  <2>2. \A r \in Readers : load'[r].file = "none"
    BY DEF NotLoading
  <2>3. PayloadsOnlyGetNewer'
    BY <1>a, <1>b DEF IInv, PayloadsOnlyGetNewer
  <2>4. LoadsUnderWay' /\ LoadsAreFresh'
    BY <2>2 DEF LoadsUnderWay, LoadsAreFresh
  <2> QED
    BY <2>1, <2>3, <2>4 DEF IInv, LatestNamesComplete, Complete,
       ReturnedStaysWhole, WriteProgress, ReturnedByThisProcess, LatestIsNewest
<1>10. ASSUME NEW r \in Readers, ReadLatest(r) PROVE IInv'
  <2>1. PICK v \in Versions :
          latest = Whole(v) /\ StartLoad(r, "manifest", v, returned)
    BY <1>10 DEF ReadLatest
  <2>2. \A w \in returned : w <= v /\ issued[w] <= issued[v]
    BY <2>1, <1>b DEF IInv, LatestIsNewest, returned
  <2>3. returned \in SUBSET Versions
    BY DEF returned
  <2> QED BY <2>1, <2>2, <2>3, StartLoadKeeps
<1>11. ASSUME NEW r \in Readers, GivenArtifact(r) PROVE IInv'
  <2>1. PICK v \in Versions : StartLoad(r, "payload", v, {v})
    BY <1>11 DEF GivenArtifact
  <2>2. \A w \in {v} : w <= v /\ issued[w] <= issued[v]
    BY <1>a DEF Versions
  <2> QED BY <2>1, <2>2, StartLoadKeeps
<1>12. ASSUME NEW r \in Readers, ReadManifest(r) PROVE IInv'
  <2>1. /\ load'[r].file = "payload" /\ load[r].file = "manifest"
        /\ load'[r].version = load[r].version /\ load'[r].due = load[r].due
        /\ \A s \in Readers : s # r => load'[s] = load[s]
    BY <1>12 DEF ReadManifest, TypeOK, Loads
  <2>2. UNCHANGED <<process, version, disk, writing, issued, overwriting>>
    BY <1>12 DEF ReadManifest
  <2>3. LoadsUnderWay' /\ LoadsAreFresh'
    BY <2>1, <2>2 DEF IInv, LoadsUnderWay, LoadsAreFresh
  <2> QED BY <2>2, <2>3, LoadStep
<1>13. ASSUME NEW r \in Readers, ReadPayload(r) PROVE IInv'
  <2>1. /\ load[r].file = "payload"
        /\ load'[r].version = load[r].version /\ load'[r].due = load[r].due
        /\ load'[r].weights = payload[load[r].version].of
        /\ \A s \in Readers : s # r => load'[s] = load[s]
    BY <1>13 DEF ReadPayload, TypeOK, Loads
  <2>2. /\ UNCHANGED <<process, version, disk, writing, issued, overwriting>>
        /\ payload[load[r].version].state = "whole"
    BY <1>13 DEF ReadPayload
  <2>3. LoadsUnderWay'
    BY <2>1, <2>2 DEF IInv, LoadsUnderWay
  <2>4. load[r].version \in Versions /\ \A v \in Versions : load[r].due[v] \in Nat
    BY DEF TypeOK, Loads
  <2>5. /\ payload[load[r].version].of \in Nat
        /\ payload[load[r].version].of >= issued[load[r].version]
    BY <2>2, <2>4, <1>a, <1>b DEF IInv, PayloadsOnlyGetNewer
  <2>6. \A v \in Versions : load[r].due[v] # 0 =>
          v <= load[r].version /\ payload[load[r].version].of >= load[r].due[v]
    BY <2>1, <2>4, <2>5, <1>a DEF IInv, LoadsUnderWay
  <2>7. LoadsAreFresh'
    BY <2>1, <2>6 DEF IInv, LoadsAreFresh
  <2> QED BY <2>2, <2>3, <2>7, LoadStep
<1>14. ASSUME NEW r \in Readers, LoadFails(r) PROVE IInv'
  <2>1. /\ load'[r].file = "none"
        /\ \A s \in Readers : s # r => load'[s] = load[s]
    BY <1>14 DEF LoadFails, TypeOK, NotLoading
  <2>2. UNCHANGED <<process, version, disk, writing, issued, overwriting>>
    BY <1>14 DEF LoadFails
  <2>3. LoadsUnderWay' /\ LoadsAreFresh'
    BY <2>1, <2>2 DEF IInv, LoadsUnderWay, LoadsAreFresh
  <2> QED BY <2>2, <2>3, LoadStep
<1>15. CASE UNCHANGED vars
  <2>1. LoadsUnderWay' /\ LoadsAreFresh'
    BY <1>15, <1>a, LoadsKept DEF vars
  <2> QED BY <1>15, <2>1, LoadStep DEF vars
<1> QED
  BY <1>1, <1>2, <1>3, <1>4, <1>5, <1>6, <1>7, <1>8, <1>9, <1>10, <1>11, <1>12,
     <1>13, <1>14, <1>15 DEF Next, Write, Load

LEMMA Invariant == Spec => []IInv
BY InvInit, InvStep, PTL DEF Spec

\* The files and the loads keep their types.
THEOREM TypeCorrect == Spec => []TypeOK
BY Invariant, PTL DEF IInv

\* latest.json never names a checkpoint that is half written, except one that is
\* being saved again.
THEOREM LatestIsComplete == Spec => []LatestNamesComplete
BY Invariant, PTL DEF IInv

\* Later saves, failures and loads leave a returned checkpoint whole.
THEOREM ReturnedCheckpointsSurvive == Spec => []ReturnedStaysWhole
BY Invariant, PTL DEF IInv

\* A load, of whichever artifact a save has ever returned or of the latest, gets
\* weights no older than the save it relies on.
THEOREM LoadsGetFreshWeights == Spec => []LoadsAreFresh
BY Invariant, PTL DEF IInv
=============================================================================
