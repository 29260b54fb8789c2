---------------------------- MODULE PoseExport ----------------------------
(* scripts/extract-pose-trajectory.py: the pose messages of a time window   *)
(* of a bag go into a CSV file, and a description of them into a metadata   *)
(* file.  Each is written under a hidden name and then replaces its target, *)
(* one after the other.  Runs follow one another on the same two files, and *)
(* each may stop anywhere: killed, or by an exception nothing cleans up     *)
(* after.  A whole file is named by the run that wrote it.                  *)
EXTENDS Integers, Sequences

CONSTANTS LastRun,   \* bound: runs 1..LastRun, one after the other
          Bags,      \* the bags: sequences of [header, bag] stamps
          Starts,    \* the values start_ns may have
          Lengths,   \* the values of --duration-sec, 0 for "until bag end"
          Prior, Torn, Nothing   \* contents: of an earlier run, partial, none

\* What the arguments and the bounds must satisfy.
PoseAssumption ==
    /\ LastRun \in Nat \ {0} /\ Starts \subseteq Int /\ Lengths \subseteq Nat
    /\ Bags \subseteq Seq([header : Nat, bag : Nat])
    /\ {Prior, Torn, Nothing} \cap (1..LastRun) = {}
    /\ Prior # Torn /\ Torn # Nothing /\ Nothing # Prior

VARIABLES
    bag, overwrite, window,  \* the recording; the arguments of each run
    pc, file, rows,          \* where it is, the file it is at, its samples
    disk                     \* the content of the paths

vars == <<bag, overwrite, window, pc, file, rows, disk>>

Runs == 1..LastRun
Over == {"refused", "ended", "stopped"}
Targets == {"csv", "metadata"}
Paths == {"final", "tmp"} \X Targets

\* Mutant: the description comes first.
OrderSwapped == <<"metadata", "csv">>

\* The files, in the order they are written.
Order == <<"csv", "metadata">>

Target(r) == Order[file[r]]
Final(t) == <<"final", t>>

\* with_name(f".{name}.tmp").
Staging(t) == <<"tmp", t>>

Goto(r, l) == pc' = [pc EXCEPT ![r] = l]

Init ==
    /\ bag \in Bags /\ overwrite = {}
    /\ window = [r \in Runs |-> [start |-> 0, length |-> 0]]
    /\ pc = [r \in Runs |-> "start"] /\ file = [r \in Runs |-> 1]
    /\ rows = [r \in Runs |-> {}]
    /\ disk \in {d \in [Paths -> {Nothing, Prior}] :
                    \A t \in Targets : d[<<"tmp", t>>] = Nothing}

----------------------------------------------------------------------------
\* What is extracted

\* msg_stamp_info: the header's stamp, unless it was never set.
Stamp(msg) == IF msg.header > 0 THEN msg.header ELSE msg.bag

\* end_ns is not None and stamp_ns >= end_ns.
Beyond(w, ns) == w.length > 0 /\ ns >= w.start + w.length

\* The loop over the messages: those before the window are passed over, the
\* first one beyond it ends the loop.
Extracted(w) ==
    {i \in DOMAIN bag : /\ Stamp(bag[i]) >= w.start
                        /\ \A j \in 1..i : ~Beyond(w, Stamp(bag[j]))}

----------------------------------------------------------------------------
\* One run

\* Mutant: only the CSV file is looked for.
ExistingCsv == {t \in {"csv"} : disk[Final(t)] # Nothing}

Existing == {t \in Targets : disk[Final(t)] # Nothing}

\* The arguments (start_ns is the stamp of the reference topic plus an
\* offset) and the checks made before anything is read or written.
Start(r) ==
    /\ pc[r] = "start" /\ \A s \in 1..r - 1 : pc[s] \in Over
    /\ \E a \in Starts, n \in Lengths :
          window' = [window EXCEPT ![r] = [start |-> a, length |-> n]]
    /\ overwrite' \in {overwrite, overwrite \cup {r}}
    /\ Goto(r, IF Existing # {} /\ r \notin overwrite' THEN "refused" ELSE "read")
    /\ UNCHANGED <<bag, file, rows, disk>>

NothingFound(r) == Extracted(window[r]) = {}

Read(r) ==
    /\ pc[r] = "read"
    /\ rows' = [rows EXCEPT ![r] = Extracted(window[r])]
    /\ Goto(r, IF NothingFound(r) THEN "refused" ELSE "open")
    /\ UNCHANGED <<bag, overwrite, window, file, disk>>

\* Opening for writing creates the hidden file, or truncates a leftover.
Open(r) ==
    /\ pc[r] = "open"
    /\ disk' = [disk EXCEPT ![Staging(Target(r))] = Torn]
    /\ Goto(r, "write")
    /\ UNCHANGED <<bag, overwrite, window, file, rows>>

\* All rows (or the description) are written, and the file is closed.
Write(r) ==
    /\ pc[r] = "write"
    /\ disk' = [disk EXCEPT ![Staging(Target(r))] = r]
    /\ Goto(r, "replace")
    /\ UNCHANGED <<bag, overwrite, window, file, rows>>

\* path.replace(): on to the metadata after the CSV.
Replace(r) ==
    /\ pc[r] = "replace"
    /\ disk' = [disk EXCEPT ![Staging(Target(r))] = Nothing,
                            ![Final(Target(r))] = disk[Staging(Target(r))]]
    /\ IF file[r] < Len(Order)
       THEN file' = [file EXCEPT ![r] = @ + 1] /\ Goto(r, "open")
       ELSE Goto(r, "ended") /\ UNCHANGED file
    /\ UNCHANGED <<bag, overwrite, window, rows>>

\* A kill, a missing bag or topic, an error of the reader, the bag's stat()
\* after the CSV was replaced, or an error of the file system.
Stop(r) ==
    /\ pc[r] \notin Over \cup {"start"}
    /\ Goto(r, "stopped")
    /\ UNCHANGED <<bag, overwrite, window, file, rows, disk>>

Next == \E r \in Runs :
    Start(r) \/ Read(r) \/ Open(r) \/ Write(r) \/ Replace(r) \/ Stop(r)

Spec == Init /\ [][Next]_vars

----------------------------------------------------------------------------
\* Properties

\* Every variable stays in its range, runs do not overlap, and nothing is
\* opened for writing before there is a sample to write.
TypeOK ==
    /\ bag \in Bags /\ overwrite \subseteq Runs
    /\ window \in [Runs -> [start : Starts \cup {0}, length : Lengths \cup {0}]]
    /\ pc \in [Runs -> Over \cup {"start", "read", "open", "write", "replace"}]
    /\ file \in [Runs -> DOMAIN Order]
    /\ disk \in [Paths -> Runs \cup {Prior, Torn, Nothing}]
    /\ \A r \in Runs :
          /\ rows[r] \subseteq DOMAIN bag
          /\ pc[r] # "start" => \A s \in 1..r - 1 : pc[s] \in Over
          /\ pc[r] \in {"open", "write", "replace", "ended"} => rows[r] # {}

\* Only whole files stand under the final names, whatever stopped where, and
\* whatever leftover of an earlier run was opened again.
FinalsWhole == \A t \in Targets : disk[Final(t)] # Torn

\* The CSV and its description are of one run, unless a run was stopped between
\* the two replacements; then the CSV is the newer of the two, and the run it
\* is of did not report success: metadata never announces a CSV yet to come.
PairConsistent ==
    LET csv == disk[Final("csv")]
        about == disk[Final("metadata")]
    IN  csv # about =>
            /\ csv \in Runs =>
                  pc[csv] \in {"open", "write", "replace", "stopped"}
            /\ about \in Runs => csv \in Runs /\ csv > about

\* docs/data-tools.md: "All scripts refuse to replace outputs unless
\* --overwrite is supplied."  Of runs that do not overlap it is true of both
\* files, also of half a pair that a stopped run has left: a step that replaces
\* one is of a run with the option.
ReplacesLawfully ==
    \A t \in Targets :
        disk[Final(t)] # Nothing /\ disk'[Final(t)] # disk[Final(t)] =>
            \E r \in overwrite : pc[r] = "replace" /\ pc'[r] # "replace"

\* Nothing outside the window is extracted; and of a bag whose stamps never go
\* back, everything inside it is.  (In any other bag the first message beyond
\* the window hides those behind it: header stamps need not follow the order
\* of recording, and stamps of both clocks may be mixed.)
WindowExact ==
    \A r \in Runs : pc[r] \notin {"start", "read", "refused", "stopped"} =>
        LET inside == {i \in DOMAIN bag :
                LET ns == IF bag[i].header = 0 THEN bag[i].bag ELSE bag[i].header
                IN  /\ window[r].start <= ns
                    /\ window[r].length = 0 \/ ns < window[r].start + window[r].length}
            ordered == \A i, j \in DOMAIN bag : i < j =>
                          Stamp(bag[i]) <= Stamp(bag[j])
        IN  rows[r] \subseteq inside /\ (ordered => rows[r] = inside)
=============================================================================
