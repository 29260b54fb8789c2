---------------------------- MODULE GridCommit ----------------------------
(* How scripts/livox-bag-to-occupancy-grid.py replaces an output directory: *)
(* it refuses an existing one without --overwrite, builds the new one in a  *)
(* staging directory of its own, moves whatever is at the final path to a   *)
(* backup, renames the staging directory into place, and puts the backup    *)
(* back if that fails.  Several invocations may run on the same bag, and    *)
(* each may be killed anywhere.  A directory's content is named by the run  *)
(* that built it; Prior is the output of an earlier run.                    *)
EXTENDS Naturals

CONSTANTS Runs,      \* concurrent invocations with the same final path
          Prior,     \* the content of an output that existed before them
          Nothing    \* no directory at the path

ASSUME CommitAssumption ==
    Prior \notin Runs /\ Nothing \notin Runs \cup {Prior}

VARIABLES
    overwrite, \* the runs given --overwrite
    pc,        \* where each run is
    final,     \* content of the final path
    staged,    \* runs whose staging directory is on disk
    backup,    \* content each run moved to its backup directory
    committed  \* history: everything that has ever been at the final path

vars == <<overwrite, pc, final, staged, backup, committed>>

Init ==
    /\ overwrite \in SUBSET Runs
    /\ pc = [r \in Runs |-> "check"]
    /\ final \in {Nothing, Prior}
    /\ staged = {} /\ backup = [r \in Runs |-> Nothing]
    /\ committed = {final} \ {Nothing}

Goto(r, l) == pc' = [pc EXCEPT ![r] = l]

\* final_dir.exists() and not args.overwrite.
Refuses(r) == final # Nothing /\ r \notin overwrite

\* staging_dir.mkdir(), under a unique name, once the check has passed.
StagedFrom(r) == IF Refuses(r) THEN staged ELSE staged \cup {r}

\* Creating the directories may fail: nothing is staged then.
Check(r) ==
    /\ pc[r] = "check"
    /\ \/ /\ Goto(r, IF Refuses(r) THEN "refused" ELSE "build")
          /\ staged' = StagedFrom(r)
       \/ ~Refuses(r) /\ Goto(r, "failed") /\ UNCHANGED staged
    /\ UNCHANGED <<overwrite, final, backup, committed>>

\* process_bag and render_grid fill it, or raise and leave it behind.
Build(r) ==
    /\ pc[r] = "build"
    /\ Goto(r, "look") \/ Goto(r, "failed")
    /\ UNCHANGED <<overwrite, final, staged, backup, committed>>

\* Is there anything to back up?
Look(r) ==
    /\ pc[r] = "look"
    /\ Goto(r, IF final # Nothing THEN "aside" ELSE "install")
    /\ UNCHANGED <<overwrite, final, staged, backup, committed>>

\* Mutant: the previous output is deleted instead of moved.
BackupContentGone == Nothing

BackupContent == final

\* final_dir.rename(backup_dir); it raises if the directory has gone, and may
\* for any other reason.
MoveAside(r) ==
    /\ pc[r] = "aside"
    /\ \/ /\ final # Nothing
          /\ backup' = [backup EXCEPT ![r] = BackupContent]
          /\ final' = Nothing
          /\ Goto(r, "install")
       \/ Goto(r, "failed") /\ UNCHANGED <<backup, final>>
    /\ UNCHANGED <<overwrite, staged, committed>>

\* staging_dir.rename(final_dir): onto a path that is free.  A directory with
\* files in it is not replaced by rename: the call raises, as it may for any
\* other reason.
Install(r) ==
    /\ pc[r] = "install"
    /\ \/ /\ final = Nothing
          /\ final' = r /\ staged' = staged \ {r}
          /\ committed' = committed \cup {r}
          /\ Goto(r, "done")
       \/ Goto(r, "undo") /\ UNCHANGED <<final, staged, committed>>
    /\ UNCHANGED <<overwrite, backup>>

\* Mutant: the backup is not put back.
MayRestoreNever(r) == FALSE

\* backup_dir is not None and not final_dir.exists().
MayRestore(r) == backup[r] # Nothing /\ final = Nothing

\* Where the except clause ends: it raises again, the run fails.
GivenUp == "failed"

Undo(r) ==
    /\ pc[r] = "undo"
    /\ Goto(r, IF MayRestore(r) THEN "restore" ELSE GivenUp)
    /\ UNCHANGED <<overwrite, final, staged, backup, committed>>

\* backup_dir.rename(final_dir) raises if the path was taken meanwhile, and
\* may, like the rename before it, for any other reason: then the run ends with
\* the old output still in its backup.
Restore(r) ==
    /\ pc[r] = "restore"
    /\ \/ /\ final = Nothing
          /\ final' = backup[r] /\ backup' = [backup EXCEPT ![r] = Nothing]
          /\ Goto(r, GivenUp)
       \/ /\ Goto(r, IF final = Nothing THEN "unrestored" ELSE GivenUp)
          /\ UNCHANGED <<final, backup>>
    /\ UNCHANGED <<overwrite, staged, committed>>

Kill(r) ==
    /\ pc[r] \notin {"refused", "failed", "unrestored", "done", "killed"}
    /\ Goto(r, "killed")
    /\ UNCHANGED <<overwrite, final, staged, backup, committed>>

Run(r) ==
    \/ Check(r) \/ Build(r) \/ Look(r) \/ MoveAside(r) \/ Install(r)
    \/ Undo(r) \/ Restore(r)

Next == \E r \in Runs : Run(r) \/ Kill(r)

Spec == Init /\ [][Next]_vars

----------------------------------------------------------------------------
\* Properties

Contents == Runs \cup {Prior}

\* Every variable stays in its range, and only a run that got past the check
\* and has not installed its output has a staging directory.
TypeOK ==
    /\ overwrite \subseteq Runs
    /\ staged \subseteq {r \in Runs : pc[r] \notin {"check", "refused", "done"}}
    /\ pc \in [Runs -> {"check", "refused", "build", "look", "aside", "install",
                       "undo", "restore", "unrestored", "failed", "done", "killed"}]
    /\ final \in Contents \cup {Nothing}
    /\ backup \in [Runs -> Contents \cup {Nothing}]
    /\ committed \subseteq Contents

\* Nothing that was ever the output is lost, whatever runs race, fail or are
\* killed: it is at the final path or in one backup, and never in two places.
NothingLost ==
    /\ committed = ({final} \cup {backup[r] : r \in Runs}) \ {Nothing}
    /\ \A r, s \in Runs :
          /\ backup[r] # Nothing => backup[r] # final
          /\ r # s /\ backup[r] # Nothing => backup[r] # backup[s]

\* When all runs have ended and none was killed, an output that once existed is
\* at the final path again, wherever they failed and however they raced.  The
\* one exception is a run that could neither install its own output nor rename
\* its backup back: the path may be left empty then, and that run still has
\* the output it moved aside.
OutputThereAfterwards ==
    /\ committed # {}
    /\ \A r \in Runs : pc[r] \in {"refused", "failed", "unrestored", "done"}
    => \/ final # Nothing
       \/ \E r \in Runs : pc[r] = "unrestored" /\ backup[r] # Nothing

\* A run that says it succeeded installed its own output whole; if it is not
\* at the final path any more, a later run has it in a backup.
DoneMeansInstalled ==
    \A r \in Runs : pc[r] = "done" =>
        r \notin staged /\ (final = r \/ \E s \in Runs : backup[s] = r)

\* docs/data-tools.md: "All scripts refuse to replace outputs unless
\* --overwrite is supplied."  A step that takes an output away from the final
\* path is one of a run with that option.
RefusesToReplace ==
    [][\A r \in Runs :
          pc[r] = "aside" /\ pc'[r] = "install" => r \in overwrite]_vars
=============================================================================
