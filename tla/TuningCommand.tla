--------------------------- MODULE TuningCommand ---------------------------
(* The commands of tuning/cli.py on one output directory: every "run" ends  *)
(* with an exit code, and "report" prints best.json at any time, also while *)
(* a run is going on and after one was killed.                              *)
EXTENDS TuningRun

VARIABLES
    exit,     \* run command -> its exit code
    printed   \* the candidate a report has printed, NoPoint before

command == <<exit, printed>>

\* Not yet returned; ended by a signal, as a parent process sees it.
Open == -1
Killed == -9

CommandInit ==
    /\ Init
    /\ exit = [i \in Invocations |-> Open] /\ printed = NoPoint

CodeOf(status) == IF status \in {"no-feasible-candidate", "failed"} THEN 2 ELSE 0

\* load_config raises before there is a directory.
Misconfigured(i) ==
    /\ exit[i] = Open /\ i \notin refused \cup {owner}
    /\ exit' = [exit EXCEPT ![i] = 1]
    /\ UNCHANGED <<vars, printed>>

\* The ways the command can end where it is: an error is printed, an OSError
\* too; a kill leaves no code.
Codes(i) ==
    IF i \in refused THEN {1}
    ELSE IF i # owner THEN {}
    ELSE IF pc = "done" THEN {CodeOf(runStatus)}
    ELSE IF pc = "crashed" THEN {1, Killed}
    ELSE {}

Return(i) ==
    /\ exit[i] = Open
    /\ \E code \in Codes(i) : exit' = [exit EXCEPT ![i] = code]
    /\ UNCHANGED <<vars, printed>>

\* Mutant: the controller's incumbent, whether or not the run is over.
RecommendationNow == incumbent

\* best.json, which os.replace installs whole.
Recommendation == IF best = NoFile THEN NoPoint ELSE best

Report ==
    /\ printed' = Recommendation /\ UNCHANGED <<vars, exit>>

CommandNext ==
    \/ /\ \/ \E i \in Invocations : exit[i] = Open /\ Start(i)
          \/ Controller \/ EvaluatorExits \/ Crash
       /\ UNCHANGED command
    \/ \E i \in Invocations : Misconfigured(i) \/ Return(i)
    \/ Report

\* The commands run; nobody need ask for a report.
CommandSpec ==
    /\ CommandInit /\ [][CommandNext]_<<vars, command>>
    /\ WF_<<vars, command>>(Controller /\ UNCHANGED command)
    /\ \A i \in Invocations :
          /\ WF_<<vars, command>>(exit[i] = Open /\ Start(i) /\ UNCHANGED command)
          /\ WF_<<vars, command>>(Return(i))

----------------------------------------------------------------------------
\* Properties

\* An exit code says what the directory shows, to a caller that never looks
\* into it: 0 that the recommendation is scored and feasible (or the plan of a
\* dry run is there), 2 that no scored candidate is feasible; and of all
\* commands on a directory at most one ever returns either.
ExitMatchesDirectory ==
    LET all == {a[2] : a \in scored} IN
    \A i \in Invocations :
        /\ exit[i] = 0 =>
              IF budget.dry THEN all = {} /\ planned = {<<0, Baseline>>}
              ELSE best \in all /\ Feasible(score[best])
        /\ exit[i] = 2 => \A p \in all : ~Feasible(score[p])
        /\ exit[i] \in {0, 2} => \A j \in Invocations \ {i} : exit[j] \notin {0, 2}

\* A report is final, whenever it is asked for: what it has printed is the
\* best of all candidates that are ever scored in the directory.
ReportIsFinal ==
    printed # NoPoint => BestOf(printed, {a[2] : a \in scored})

\* Who never looks into the directory is told what lies in it.
CommandsTruthful == ExitMatchesDirectory /\ ReportIsFinal

\* Every command that is not killed returns, even if every evaluator hangs.
CommandsReturn == \A i \in Invocations : <>(exit[i] # Open)
=============================================================================
