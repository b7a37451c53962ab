---------------------------- MODULE ModelRegistry ----------------------------
(***************************************************************************)
(* The model registry in the file system (ml_service/registry/registry.py) *)
(* under training scripts, which register a version, and the promotion     *)
(* script (scripts/promote_model.py).  Three files hold what is one fact:  *)
(* the artifact, metadata.json of the version with the checksum of the     *)
(* artifact, and registry_index.json, which is read, changed and written   *)
(* as a whole.  Nothing is locked, and a process may be killed between two *)
(* writes or in the middle of one.                                         *)
(***************************************************************************)
EXTENDS Integers

CONSTANTS
    ModelVersions,    \* versions of one model
    Builds,           \* what training may make of a version: contents of artifacts
    Scripts,          \* processes at work at the same time
    MaxScripts        \* bound: processes started

ASSUME RegistryAssumption ==
    /\ ModelVersions # {}
    /\ MaxScripts \in Nat
    /\ {"NO_FILE", "TORN"} \cap Builds = {}

VARIABLES
    artifact,     \* the content of model.joblib of each version
    metadata,     \* status and artifact_checksum in metadata.json
    index,        \* registry_index.json: version to status, or TornIndex
    script,       \* what each process is doing
    started,      \* how many were started
    spoiled,      \* history: the versions of which a process was ended before its
                  \* metadata was written, or two were at work at once, since the
                  \* version was last registered by a process of its own
    disturbed     \* history: a process was ended early, or two were at work at once

registryVars == <<artifact, metadata, index, script, started, spoiled, disturbed>>

ModelStates == {"EXPERIMENT", "VALIDATED", "STAGING", "PRODUCTION", "RETIRED"}
NoFile == "NO_FILE"
Torn == "TORN"
NoMetadata == [status |-> NoFile, checksum |-> NoFile]
TornMetadata == [status |-> Torn, checksum |-> Torn]
Unlisted == [v \in ModelVersions |-> NoFile]
TornIndex == [v \in ModelVersions |-> Torn]

\* of a file that is there: the checksum stands for the content it was taken of
Contents == Builds \cup {NoFile, Torn}

\* _ALLOWED_TRANSITIONS
AllowedTransitions(status) ==
    CASE status = "EXPERIMENT" -> {"VALIDATED", "RETIRED"}
      [] status = "VALIDATED" -> {"STAGING", "RETIRED"}
      [] status = "STAGING" -> {"PRODUCTION", "RETIRED"}
      [] status = "PRODUCTION" -> {"RETIRED"}
      [] OTHER -> {}

\* build is NoFile for a promotion; alone: no other is at work on the version
Script == [pc : {"idle", "artifact", "checksum", "metadata", "index", "entry"},
           version : ModelVersions, status : ModelStates, build : Builds \cup {NoFile},
           checksum : Contents, alone : BOOLEAN,
           read : [ModelVersions -> ModelStates \cup {NoFile}]]

RegistryTypeOK ==
    /\ artifact \in [ModelVersions -> Contents]
    /\ metadata \in [ModelVersions -> [status : ModelStates \cup {NoFile, Torn},
                                       checksum : Contents]]
    /\ index = TornIndex \/ index \in [ModelVersions -> ModelStates \cup {NoFile}]
    /\ script \in [Scripts -> Script]
    /\ started \in 0 .. MaxScripts
    /\ spoiled \subseteq ModelVersions
    /\ disturbed \in BOOLEAN

IdleScript == [pc |-> "idle", version |-> CHOOSE v \in ModelVersions : TRUE,
               status |-> "EXPERIMENT", build |-> NoFile, checksum |-> NoFile,
               alone |-> TRUE, read |-> Unlisted]

RegistryInit ==
    /\ artifact = [v \in ModelVersions |-> NoFile]
    /\ metadata = [v \in ModelVersions |-> NoMetadata]
    /\ index = Unlisted
    /\ script = [p \in Scripts |-> IdleScript]
    /\ started = 0
    /\ spoiled = {}
    /\ disturbed = FALSE

Readable == index # TornIndex

Registers(s) == s.build # NoFile

\* the processes at work on a version
WorkOn(v) == {p \in Scripts : script[p].pc # "idle" /\ script[p].version = v}

Begins(p, work) ==
    LET v == work.version
    IN  /\ script[p].pc = "idle"
        /\ started < MaxScripts
        /\ started' = started + 1
        /\ script' = [q \in Scripts |->
                         IF q = p THEN [work EXCEPT !.alone = WorkOn(v) = {}]
                         ELSE IF q \in WorkOn(v) THEN [script[q] EXCEPT !.alone = FALSE]
                         ELSE script[q]]
        /\ spoiled' = IF WorkOn(v) = {} THEN spoiled ELSE spoiled \cup {v}
        /\ disturbed' = (disturbed \/ \E q \in Scripts : script[q].pc # "idle")

\* register(), as a training script calls it: also for a version that exists
RegisterBegins(p) ==
    /\ \E v \in ModelVersions, status \in {"EXPERIMENT", "VALIDATED"}, build \in Builds :
          Begins(p, [IdleScript EXCEPT !.pc = "artifact", !.version = v, !.status = status,
                                       !.build = build])
    /\ UNCHANGED <<artifact, metadata, index>>

\* promote(): the transition is checked against metadata.json
PromoteBegins(p) ==
    /\ \E v \in ModelVersions : \E status \in AllowedTransitions(metadata[v].status) :
          Begins(p, [IdleScript EXCEPT !.pc = "checksum", !.version = v, !.status = status])
    /\ UNCHANGED <<artifact, metadata, index>>

\* joblib.dump
WriteArtifact(p) ==
    /\ script[p].pc = "artifact"
    /\ artifact' = [artifact EXCEPT ![script[p].version] = script[p].build]
    /\ script' = [script EXCEPT ![p].pc = "checksum"]
    /\ UNCHANGED <<metadata, index, started, spoiled, disturbed>>

\* mutant: a registration, too, keeps the checksum that metadata.json has
KeepsChecksum(p) ==
    /\ script[p].pc = "checksum"
    /\ script' = [script EXCEPT ![p].pc = "metadata",
                                ![p].checksum = metadata[script[p].version].checksum]
    /\ UNCHANGED <<artifact, metadata, index, started, spoiled, disturbed>>

\* _sha256_of the artifact; set_status() instead keeps the checksum of metadata.json,
\* which it reads again
TakeChecksum(p) ==
    /\ script[p].pc = "checksum"
    /\ LET v == script[p].version
           taken == IF Registers(script[p]) THEN artifact[v] ELSE metadata[v].checksum
       IN  /\ Registers(script[p]) \/ metadata[v].status \in ModelStates
           /\ script' = [script EXCEPT ![p].pc = "metadata", ![p].checksum = taken]
    /\ UNCHANGED <<artifact, metadata, index, started, spoiled, disturbed>>

\* metadata.json is written.  Of a version registered by one process all of this
\* is of that process.
WriteMetadata(p) ==
    LET s == script[p]
    IN  /\ s.pc = "metadata"
        /\ metadata' = [metadata EXCEPT ![s.version] =
                           [status |-> s.status, checksum |-> s.checksum]]
        /\ spoiled' = IF Registers(s) /\ s.alone THEN spoiled \ {s.version} ELSE spoiled
        /\ script' = [script EXCEPT ![p].pc = "index"]
        /\ UNCHANGED <<artifact, index, started, disturbed>>

\* _read_index; set_status needs the entry to be there
ReadIndex(p) ==
    /\ script[p].pc = "index"
    /\ Readable
    /\ Registers(script[p]) \/ index[script[p].version] # NoFile
    /\ script' = [script EXCEPT ![p].pc = "entry", ![p].read = index]
    /\ UNCHANGED <<artifact, metadata, index, started, spoiled, disturbed>>

\* the index as it was read, with the entry of the version
NewIndex(s) == [s.read EXCEPT ![s.version] = s.status]

\* _write_index
WriteIndex(p) ==
    /\ script[p].pc = "entry"
    /\ index' = NewIndex(script[p])
    /\ script' = [script EXCEPT ![p] = IdleScript]
    /\ UNCHANGED <<artifact, metadata, started, spoiled, disturbed>>

\* a file that cannot be read raises; or the process is killed, and the file it was
\* writing may be left half written
ScriptEnds(p) ==
    LET s == script[p]
    IN  /\ s.pc # "idle"
        /\ script' = [script EXCEPT ![p] = IdleScript]
        /\ disturbed' = TRUE
        /\ spoiled' = IF s.pc \in {"index", "entry"} THEN spoiled ELSE spoiled \cup {s.version}
        /\ \/ UNCHANGED <<artifact, metadata, index>>
           \/ /\ s.pc = "artifact"
              /\ artifact' = [artifact EXCEPT ![s.version] = Torn]
              /\ UNCHANGED <<metadata, index>>
           \/ /\ s.pc = "metadata"
              /\ metadata' = [metadata EXCEPT ![s.version] = TornMetadata]
              /\ UNCHANGED <<artifact, index>>
           \/ /\ s.pc = "entry"
              /\ index' = TornIndex
              /\ UNCHANGED <<artifact, metadata>>
        /\ UNCHANGED started

RegistryNext ==
    \E p \in Scripts : \/ RegisterBegins(p) \/ PromoteBegins(p) \/ WriteArtifact(p)
                       \/ TakeChecksum(p) \/ WriteMetadata(p) \/ ReadIndex(p)
                       \/ WriteIndex(p) \/ ScriptEnds(p)

RegistrySpec == RegistryInit /\ [][RegistryNext]_registryVars

-----------------------------------------------------------------------------
(* Properties. *)

\* load(): metadata that can be read, an artifact that is whole, and its checksum if
\* there is one
Loadable(v) ==
    /\ metadata[v].status \in ModelStates
    /\ artifact[v] \in Builds
    /\ metadata[v].checksum \in {artifact[v], NoFile}

\* What the index lists can be loaded, however versions are registered again and
\* promoted and whichever scripts work on other versions and overwrite the index.
\* Only a script that was ended between the artifact and the metadata of that very
\* version, or two at work on it, take this away, and until it is registered again.
ListedCanBeLoaded ==
    Readable =>
        \A v \in ModelVersions \ spoiled :
            index[v] # NoFile /\ WorkOn(v) = {} => Loadable(v)

\* The status by which latest_by_status chooses is that of the metadata with which
\* the model is loaded, unless a script was ended early or two have worked at once:
\* then the index may keep a status that a promotion has long replaced.
StatusesAgree ==
    ~disturbed /\ (\A p \in Scripts : script[p].pc = "idle") =>
        \A v \in ModelVersions : index[v] = metadata[v].status

\* So a model chosen from the index can be loaded, and is what the index says.
RegistryConsistent == ListedCanBeLoaded /\ StatusesAgree
=============================================================================
