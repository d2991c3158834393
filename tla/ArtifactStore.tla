---------------------------- MODULE ArtifactStore ----------------------------
(***************************************************************************)
(* FilesystemArtifactStore (src/ganker/artifacts.py): the directory of one *)
(* run, the training process that saves checkpoints into it, and the       *)
(* rollout backends that load them.                                        *)
(*                                                                         *)
(* write() fills three files one after the other: the version's payload,   *)
(* the version's manifest, and latest.json.  Each write_text truncates its *)
(* file and then fills it, so a reader, or the next process after a crash, *)
(* can find a file missing, torn or whole.  The backend's run lock leaves  *)
(* one writer at a time.  Run ids come from a counter that restarts with   *)
(* the process, so the next process saves into the same directory.         *)
(***************************************************************************)
EXTENDS Naturals

CONSTANTS
  Readers,               \* calls of rollout backends that load an artifact
  MaxVersion,            \* bound on checkpoint_version
  MaxProcess             \* bound on the training processes, one after another

ASSUME BoundsAssumption == MaxVersion \in Nat /\ MaxProcess \in Nat \ {0}

Versions == 0 .. MaxVersion
Processes == 1 .. MaxProcess

\* The content of a file: nothing, a prefix of what is being written, or all of
\* it.  Of a whole payload we keep whose weights it describes, of a whole
\* latest.json the version it names.
Missing == [state |-> "missing", of |-> 0]
Torn == [state |-> "torn", of |-> 0]
Whole(x) == [state |-> "whole", of |-> x]
Files(values) == {Missing, Torn} \cup {Whole(x) : x \in values}

VARIABLES
  process,               \* the training process that is alive
  version,               \* checkpoint_version of its run
  payload,               \* payload[v]: checkpoint-v.payload.json
  manifest,              \* manifest[v]: checkpoint-v.manifest.json
  latest,                \* latest.json
  writing,               \* how far write() is
  load,                  \* load[r]: how far the load of r is, or what it returned
  issued,                \* issued[v]: last process to return an artifact of v, or 0
  overwriting            \* versions saved again and not complete since

disk == <<payload, manifest, latest>>
vars == <<process, version, disk, writing, load, issued, overwriting>>

WriteStates == {"idle", "payload", "payload_done", "manifest", "manifest_done",
                "latest"}

\* The versions the save_weights of the living process has returned.
returned == {v \in Versions : issued[v] = process}

\* A load: the next file it opens, or "returned"; the version it is about; what
\* issued says, when it begins, of the versions it must not fall behind; the
\* weights it returned.
Loads == [file : {"none", "manifest", "payload", "returned"}, version : Versions,
          due : [Versions -> 0 .. MaxProcess], weights : 0 .. MaxProcess]
NothingDue == [v \in Versions |-> 0]
NotLoading == [file |-> "none", version |-> 0, due |-> NothingDue, weights |-> 0]

TypeOK ==
  /\ process \in Processes
  /\ version \in Versions
  /\ payload \in [Versions -> Files(Processes)]
  /\ manifest \in [Versions -> Files({0})]
  /\ latest \in Files(Versions)
  /\ writing \in WriteStates
  /\ load \in [Readers -> Loads]
  /\ issued \in [Versions -> 0 .. MaxProcess]
  /\ overwriting \in SUBSET Versions

Init ==
  /\ process = 1
  /\ version = 0
  /\ payload = [v \in Versions |-> Missing]
  /\ manifest = [v \in Versions |-> Missing]
  /\ latest = Missing
  /\ writing = "idle"
  /\ load = [r \in Readers |-> NotLoading]
  /\ issued = [v \in Versions |-> 0]
  /\ overwriting = {}

-----------------------------------------------------------------------------
(* The training process *)

\* optim_step advances the version; it waits for a save of the run to end.
OptimStep ==
  /\ writing = "idle"
  /\ version < MaxVersion
  /\ version' = version + 1
  /\ UNCHANGED <<process, disk, writing, load, issued, overwriting>>

\* Mutant: one payload file for all versions.
BeginWriteUnversioned ==
  /\ writing = "idle"
  /\ writing' = "payload"
  /\ payload' = [v \in Versions |-> Torn]
  /\ overwriting' = IF latest = Whole(version)
                      THEN overwriting \cup {version} ELSE overwriting
  /\ UNCHANGED <<process, version, manifest, latest, load, issued>>

\* save_weights enters write(), whose first write_text truncates the payload.
BeginWrite ==
  /\ writing = "idle"
  /\ writing' = "payload"
  /\ payload' = [payload EXCEPT ![version] = Torn]
  /\ overwriting' = IF latest = Whole(version)
                      THEN overwriting \cup {version} ELSE overwriting
  /\ UNCHANGED <<process, version, manifest, latest, load, issued>>

WritePayload ==
  /\ writing = "payload"
  /\ writing' = "payload_done"
  /\ payload' = [payload EXCEPT ![version] = Whole(process)]
  /\ UNCHANGED <<process, version, manifest, latest, load, issued, overwriting>>

\* Mutant: latest.json is written before the manifest it names.
TruncateManifestLast ==
  /\ writing = "payload_done"
  /\ writing' = "manifest_done"
  /\ UNCHANGED <<process, version, disk, load, issued, overwriting>>

TruncateManifest ==
  /\ writing = "payload_done"
  /\ writing' = "manifest"
  /\ manifest' = [manifest EXCEPT ![version] = Torn]
  /\ UNCHANGED <<process, version, payload, latest, load, issued, overwriting>>

WriteManifest ==
  /\ writing = "manifest"
  /\ writing' = "manifest_done"
  /\ manifest' = [manifest EXCEPT ![version] = Whole(0)]
  /\ UNCHANGED <<process, version, payload, latest, load, issued, overwriting>>

TruncateLatest ==
  /\ writing = "manifest_done"
  /\ writing' = "latest"
  /\ latest' = Torn
  /\ UNCHANGED <<process, version, payload, manifest, load, issued, overwriting>>

\* The last write; save_weights returns the artifact.
WriteLatest ==
  /\ writing = "latest"
  /\ writing' = "idle"
  /\ latest' = Whole(version)
  /\ issued' = [issued EXCEPT ![version] = process]
  /\ overwriting' = overwriting \ {version}
  /\ UNCHANGED <<process, version, payload, manifest, load>>

\* A write raised: the exception leaves the files as they are, and the backend
\* makes the run ready again, for another save or another optimizer step.
WriteFails ==
  /\ writing # "idle"
  /\ writing' = "idle"
  /\ UNCHANGED <<process, version, disk, load, issued, overwriting>>

\* The actor processes die and are started again on the same artifact root; the
\* new training process gives its first run the same run id.  The clients keep
\* the artifacts they were given.
Restart ==
  /\ process < MaxProcess
  /\ process' = process + 1
  /\ version' = 0
  /\ writing' = "idle"
  /\ load' = [r \in Readers |-> NotLoading]
  /\ UNCHANGED <<disk, issued, overwriting>>

-----------------------------------------------------------------------------
(* Loading an artifact: latest() reads latest.json and the manifest, and the *)
(* rollout backend reads the payload.  refresh_weights with an artifact goes *)
(* straight to the payload.  A missing or torn file ends the load.           *)

StartLoad(r, file, v, due) ==
  /\ load[r].file \in {"none", "returned"}
  /\ load' = [load EXCEPT ![r] =
       [file |-> file, version |-> v, weights |-> 0,
        due |-> [w \in Versions |-> IF w \in due THEN issued[w] ELSE 0]]]
  /\ UNCHANGED <<process, version, disk, writing, issued, overwriting>>

\* Mutant: any manifest of the directory will do.
ReadAnyManifest(r) ==
  \E v \in Versions :
    manifest[v].state = "whole" /\ StartLoad(r, "manifest", v, returned)

ReadLatest(r) ==
  \E v \in Versions : latest = Whole(v) /\ StartLoad(r, "manifest", v, returned)

\* The artifact the request names: any that a save_weights has returned, to
\* whichever client, also before a later save or a restart.
GivenArtifact(r) ==
  \E v \in Versions : issued[v] # 0 /\ StartLoad(r, "payload", v, {v})

ReadManifest(r) ==
  /\ load[r].file = "manifest"
  /\ manifest[load[r].version].state = "whole"
  /\ load' = [load EXCEPT ![r].file = "payload"]
  /\ UNCHANGED <<process, version, disk, writing, issued, overwriting>>

ReadPayload(r) ==
  /\ load[r].file = "payload"
  /\ payload[load[r].version].state = "whole"
  /\ load' = [load EXCEPT ![r].file = "returned",
                           ![r].weights = payload[load[r].version].of]
  /\ UNCHANGED <<process, version, disk, writing, issued, overwriting>>

\* NotFoundError or a JSON error.
LoadFails(r) ==
  /\ \/ load[r].file = "manifest" /\ manifest[load[r].version].state # "whole"
     \/ load[r].file = "payload" /\ payload[load[r].version].state # "whole"
  /\ load' = [load EXCEPT ![r] = NotLoading]
  /\ UNCHANGED <<process, version, disk, writing, issued, overwriting>>

-----------------------------------------------------------------------------
Write ==
  \/ BeginWrite
  \/ WritePayload
  \/ TruncateManifest
  \/ WriteManifest
  \/ TruncateLatest
  \/ WriteLatest
  \/ WriteFails

Load(r) ==
  \/ ReadLatest(r)
  \/ GivenArtifact(r)
  \/ ReadManifest(r)
  \/ ReadPayload(r)
  \/ LoadFails(r)

Next ==
  \/ OptimStep
  \/ Write
  \/ Restart
  \/ \E r \in Readers : Load(r)

Spec == Init /\ [][Next]_vars

-----------------------------------------------------------------------------
(* Properties *)

Complete(v) == payload[v].state = "whole" /\ manifest[v].state = "whole"

\* The order of the three writes: latest.json never names a checkpoint whose
\* payload or manifest is missing or half written, whatever write failed and
\* whenever the process died, unless that version itself is being saved again.
LatestNamesComplete ==
  \A v \in Versions : latest = Whole(v) => Complete(v) \/ v \in overwriting

\* A checkpoint save_weights has returned stays whole, with the weights of the
\* process that returned it, until that very version is saved again.
ReturnedStaysWhole ==
  \A v \in returned \ overwriting :
    payload[v] = Whole(process) /\ manifest[v].state = "whole"

\* A load that names an artifact gets the weights of the process that returned
\* it, or of a later one that saved its version again, never of an earlier one.
\* A load of the latest gets, once a save_weights of the living process has
\* returned, that version or a newer one of this process, never what a previous
\* process left in the directory.
LoadsAreFresh ==
  \A r \in Readers : load[r].file = "returned" =>
    \A v \in Versions : load[r].due[v] # 0 =>
      v <= load[r].version /\ load[r].weights >= load[r].due[v]
=============================================================================
