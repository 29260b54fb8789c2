---------------------------- MODULE ScenarioPin ---------------------------
(* How a tuning run pins its scenarios: tuning/runner.py writes what the    *)
(* configuration loader has validated to inputs/scenarios.json and records  *)
(* the digest of that file; for each candidate a fresh evaluator process    *)
(* (tuning/synthetic_evaluator.py) loads the file and compares its digest.  *)
(* Somebody edits the file, or the source it came from, in between.  (Pin   *)
(* in a name keeps it apart from those of AcceptedExperiment, next to which *)
(* ExperimentProofs extends this module.)                                   *)
EXTENDS Naturals

CONSTANTS Contents,  \* contents of a scenario file; the digest of a content is
                     \* the content
          Broken,    \* the contents load_scenarios refuses
          CountOf,   \* content -> the number of scenarios in it
          Candidates,
          MaxEdits   \* bound: edits of the snapshot

ASSUME PinAssumption ==
    /\ Broken \subseteq Contents /\ MaxEdits \in Nat
    /\ CountOf \in [Contents -> Nat]

VARIABLES
    source, snapshot,   \* the file the user gave, and inputs/scenarios.json
    control,            \* the controller
    config,             \* config.scenarios
    pinned,             \* scenarios_sha256 of run.json and of each candidate
    candidate,          \* the candidate being evaluated
    loaded,             \* what its evaluator has loaded
    result,             \* candidate -> what its accepted result is about
    failed,             \* the candidates with an error.json
    edits

files == <<source, snapshot, edits>>
evaluator == <<candidate, loaded>>
pinVars == <<files, control, config, pinned, evaluator, result, failed>>

Absent == "none"

ASSUME AbsentAssumption == Absent \notin Contents

Valid == Contents \ Broken

PinInit ==
    /\ source \in Valid /\ snapshot = Absent /\ edits = 0
    /\ control = "load" /\ config = Absent /\ pinned = Absent
    /\ candidate = Absent /\ loaded = Absent
    /\ result = [c \in Candidates |-> Absent] /\ failed = {}

\* load_config, of which the scenarios matter here.
LoadSource ==
    /\ control = "load"
    /\ IF source \in Broken THEN control' = "end" /\ UNCHANGED config
       ELSE control' = "snapshot" /\ config' = source
    /\ UNCHANGED <<files, pinned, evaluator, result, failed>>

\* Mutant: the source file is copied.
SnapshotOfSource == source

\* The normalized scenarios as the loader has returned them.
SnapshotOfConfig == config

WriteSnapshot ==
    /\ control = "snapshot" /\ control' = "pin"
    /\ snapshot' = SnapshotOfConfig
    /\ UNCHANGED <<source, edits, config, pinned, evaluator, result, failed>>

\* _file_sha256, on the snapshot once more.
Digest == snapshot

Pin ==
    /\ control = "pin" /\ control' = "next"
    /\ pinned' = Digest
    /\ UNCHANGED <<files, config, evaluator, result, failed>>

Over(c) == result[c] # Absent \/ c \in failed

Launch(c) ==
    /\ control = "next" /\ ~Over(c)
    /\ candidate' = c /\ control' = "evaluate"
    /\ UNCHANGED <<files, config, pinned, loaded, result, failed>>

Fail ==
    /\ failed' = failed \cup {candidate} /\ control' = "next"
    /\ candidate' = Absent /\ loaded' = Absent
    /\ UNCHANGED <<files, config, pinned, result>>

Loads == snapshot \notin Broken

\* load_scenarios in the evaluator.
LoadScenarios ==
    /\ control = "evaluate"
    /\ IF ~Loads THEN Fail
       ELSE /\ loaded' = snapshot /\ control' = "digest"
            /\ UNCHANGED <<files, config, pinned, candidate, result, failed>>

\* Mutant: the digest is not compared.
DigestMatchesAny == TRUE

DigestMatches == snapshot = pinned

\* _read_evaluation: scenario_count is that of the configuration.
CountMatches == CountOf[loaded] = CountOf[config]

\* The digest of the file, read again; then the metrics of what was loaded,
\* and the controller's look at the result.
CompareAndEvaluate ==
    /\ control = "digest"
    /\ IF DigestMatches /\ CountMatches
       THEN /\ result' = [result EXCEPT ![candidate] = loaded]
            /\ control' = "next" /\ candidate' = Absent /\ loaded' = Absent
            /\ UNCHANGED <<files, config, pinned, failed>>
       ELSE Fail

End ==
    /\ control = "next" /\ \A c \in Candidates : Over(c)
    /\ control' = "end"
    /\ UNCHANGED <<files, config, pinned, evaluator, result, failed>>

EditSource ==
    /\ source' \in Contents \ {source}
    /\ UNCHANGED <<snapshot, edits, control, config, pinned, evaluator, result,
                   failed>>

EditSnapshot ==
    /\ snapshot # Absent /\ control # "end" /\ edits < MaxEdits
    /\ snapshot' \in Contents \ {snapshot} /\ edits' = edits + 1
    /\ UNCHANGED <<source, control, config, pinned, evaluator, result, failed>>

PinNext ==
    \/ LoadSource \/ WriteSnapshot \/ Pin \/ LoadScenarios
    \/ CompareAndEvaluate \/ End \/ EditSource \/ EditSnapshot
    \/ \E c \in Candidates : Launch(c)

PinSpec == PinInit /\ [][PinNext]_pinVars

----------------------------------------------------------------------------
\* Properties

Used == {result[c] : c \in Candidates} \ {Absent}

\* Every variable stays in its range, and no candidate has both outcomes.
TypeOK ==
    /\ {source} \cup Used \subseteq Contents
    /\ {config, loaded} \subseteq Valid \cup {Absent}
    /\ \A c \in failed : result[c] = Absent

\* "Each candidate records the pinned scenario digest, so a modified input is
\* rejected rather than silently mixed into the run": what an accepted result
\* is about has the digest of the run, however an edit falls among the loads
\* and the comparisons.  (Not if a second edit puts the pinned content back:
\* the evaluator loads the file before it reads it again for the digest.)
NeverMixed == edits <= 1 => Used \subseteq {pinned}

\* Whatever happens to the source file once it has been loaded: the run is
\* about the scenarios the loader validated, unless the snapshot was edited,
\* and about as many of them even then.
RunsWhatWasValidated ==
    \A content \in Used :
        /\ edits = 0 => content = config
        /\ CountOf[content] = CountOf[config]

\* Without edits of the snapshot, no candidate fails for its scenarios.
FailsOnlyWhenEdited == edits = 0 => failed = {}

\* Edits of the source file change nothing in a run: neither what it is about
\* nor which candidates have results.
PinningHolds == RunsWhatWasValidated /\ FailsOnlyWhenEdited
=============================================================================
