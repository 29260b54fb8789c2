-------------------------- MODULE TopicInspection -------------------------
(* scripts/inspect-bag-topics.py: the topics of a batch of bags in one CSV  *)
(* file, written under a hidden name of its own and then renamed.  Runs     *)
(* follow each other, and each may be stopped anywhere.                     *)
EXTENDS Naturals

CONSTANTS Bags,     \* the bags there are
          MaxRuns   \* bound: runs

\* What the arguments and the bounds must satisfy.
InspectionAssumption == MaxRuns \in Nat

VARIABLES
    run, pc,           \* the number of the run, and where it is
    inputs, overwrite, target,  \* its arguments
    rows, failed,      \* bags with rows, bags that could not be inspected
    staging, output,   \* by target: the hidden file and the one of that name
    before             \* history: what was there when the run started

local == <<rows, failed>>
arguments == <<inputs, overwrite, target>>
files == <<staging, output>>
vars == <<run, pc, arguments, local, files, before>>

\* --output may name a CSV, or the path of one of the inputs.
Targets == {"csv", "bag"}
Ended == {"refused", "ok", "incomplete", "stopped"}   \* exit codes 2, 0, 1

\* A file: the run that wrote it, the bags with rows in it, and whether it
\* was written to the end.
Csv(bags, ended) == [run |-> run, bags |-> bags, ended |-> ended]
NoFile == [run |-> 0, bags |-> {}, ended |-> FALSE]
Source == [run |-> 0, bags |-> Bags, ended |-> TRUE]

Init ==
    /\ run = 0 /\ pc = "stopped"
    /\ inputs = {} /\ overwrite = FALSE /\ target = "csv"
    /\ rows = {} /\ failed = {}
    /\ staging = [t \in Targets |-> NoFile]
    /\ output = [csv |-> NoFile, bag |-> Source] /\ before = output

\* An existing output without --overwrite, no bag, or a bag as output.
Refused ==
    \/ output[target'] # NoFile /\ ~overwrite'
    \/ inputs' = {} \/ target' = "bag"

\* main, up to the loop over the bags.
Start ==
    /\ pc \in Ended /\ run < MaxRuns
    /\ run' = run + 1 /\ rows' = {} /\ failed' = {} /\ before' = output
    /\ inputs' \in SUBSET Bags /\ overwrite' \in BOOLEAN /\ target' \in Targets
    /\ pc' = IF Refused THEN "refused" ELSE "inspect"
    /\ UNCHANGED files

\* Mutant: an error ends the batch.
NextBagsUntilError == IF failed = {} THEN inputs \ rows ELSE {}

NextBags == inputs \ (rows \cup failed)

\* The next bag: its rows, or an error, after which the batch goes on.
InspectBag ==
    /\ pc = "inspect"
    /\ \E bag \in NextBags :
          \/ rows' = rows \cup {bag} /\ UNCHANGED failed
          \/ failed' = failed \cup {bag} /\ UNCHANGED rows
    /\ UNCHANGED <<run, pc, arguments, files, before>>

\* staging.open("w") cuts off what an earlier run left.
Staging == UNCHANGED output

OpenStaging ==
    /\ pc = "inspect" /\ NextBags = {}
    /\ pc' = "write" /\ Staging
    /\ staging' = [staging EXCEPT ![target] = Csv({}, FALSE)]
    /\ UNCHANGED <<run, arguments, local, before>>

WriteRows ==
    /\ pc = "write" /\ pc' = "replace"
    /\ staging' = [staging EXCEPT ![target] = Csv(rows, TRUE)]
    /\ UNCHANGED <<run, arguments, local, output, before>>

Replace ==
    /\ pc = "replace" /\ pc' = IF failed = {} THEN "ok" ELSE "incomplete"
    /\ output' = [output EXCEPT ![target] = staging[target]]
    /\ staging' = [staging EXCEPT ![target] = NoFile]
    /\ UNCHANGED <<run, arguments, local, before>>

\* The run is killed, or fails with an exception nobody catches.
Stop ==
    /\ pc \notin Ended /\ pc' = "stopped"
    /\ UNCHANGED <<run, arguments, local, files, before>>

Next == Start \/ InspectBag \/ OpenStaging \/ WriteRows \/ Replace \/ Stop

Spec == Init /\ [][Next]_vars

----------------------------------------------------------------------------
\* Properties

\* Every variable stays in its range, and the source bags are as they were.
TypeOK ==
    /\ pc \in Ended \cup {"inspect", "write", "replace"} /\ run <= MaxRuns
    /\ rows \cup failed \subseteq inputs /\ rows \cap failed = {}
    /\ output["bag"] = Source

\* Wherever runs were stopped and whatever they left, the CSV is absent or
\* written to the end; and only the end of a run replaces it.
CsvWhole ==
    /\ output["csv"] # NoFile => output["csv"].ended
    /\ pc \notin {"ok", "incomplete"} => output = before

\* The exit code tells the truth: of a run that ended, the CSV holds the rows
\* of all of its bags (0), or of all but some, which it could not read (1).
ExitTellsTruth ==
    pc \in {"ok", "incomplete"} =>
        /\ output["csv"] = Csv(rows, TRUE)
        /\ rows \cup failed = inputs
        /\ pc = "ok" <=> rows = inputs
=============================================================================
