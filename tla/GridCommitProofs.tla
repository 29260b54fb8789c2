-------------------------- MODULE GridCommitProofs --------------------------
(* The four invariants of GridCommit hold for any number of invocations.    *)
(* The inductive invariant adds what each program counter says about the    *)
(* disk: which runs have installed, which can hold a backup, and who is     *)
(* answerable for an empty final path.                                      *)
EXTENDS GridCommit, TLAPS

\* A run's output has been at the final path exactly when the run is done,
\* and a run has no backup before it has moved an old output aside.
Progress ==
    \A r \in Runs :
        /\ pc[r] = "done" <=> r \in committed
        /\ pc[r] \in {"check", "refused", "build", "look", "aside"}
              => backup[r] = Nothing

\* An emptied final path is in the hands of a run that holds a backup.
EmptyPathHasOwner ==
    final = Nothing /\ committed # {} =>
        \E r \in Runs :
            /\ backup[r] # Nothing
            /\ pc[r] \in {"install", "undo", "restore", "unrestored", "killed"}

IInv == TypeOK /\ NothingLost /\ Progress /\ EmptyPathHasOwner

\* The range and staging conjuncts are preserved by every step of a run.
LEMMA TypeStep ==
    ASSUME TypeOK, NEW r \in Runs, Run(r) \/ Kill(r)
    PROVE  TypeOK'
<1> USE CommitAssumption DEF TypeOK, Contents, Goto
<1>1. CASE Check(r)
  BY <1>1 DEF Check, StagedFrom, Refuses
<1>2. CASE Build(r)
  BY <1>2 DEF Build
<1>3. CASE Look(r)
  BY <1>3 DEF Look
<1>4. CASE MoveAside(r)
  BY <1>4 DEF MoveAside, BackupContent
<1>5. CASE Install(r)
  BY <1>5 DEF Install
<1>6. CASE Undo(r)
  BY <1>6 DEF Undo, GivenUp
<1>7. CASE Restore(r)
  BY <1>7 DEF Restore, GivenUp
<1>8. CASE Kill(r)
  BY <1>8 DEF Kill
<1> QED
  BY <1>1, <1>2, <1>3, <1>4, <1>5, <1>6, <1>7, <1>8 DEF Run

\* Type correctness: every reachable state is in range, and staging
\* directories exist only for runs between their check and their install.
THEOREM TypeCorrect == Spec => []TypeOK
<1>1. Init => TypeOK
  BY CommitAssumption DEF Init, TypeOK, Contents
<1>2. TypeOK /\ [Next]_vars => TypeOK'
  <2> SUFFICES ASSUME TypeOK, [Next]_vars PROVE TypeOK'
    OBVIOUS
  <2>1. CASE Next
    BY <2>1, TypeStep DEF Next
  <2>2. CASE UNCHANGED vars
    BY <2>2 DEF vars, TypeOK
  <2> QED
    BY <2>1, <2>2
<1> QED
  BY <1>1, <1>2, PTL DEF Spec

\* Runs that only move their program counter (and their staging directory)
\* keep the books as long as they do not become done.
LEMMA QuietStep ==
    ASSUME TypeOK, NothingLost, Progress, EmptyPathHasOwner,
           NEW r \in Runs, NEW l, pc' = [pc EXCEPT ![r] = l],
           UNCHANGED <<final, backup, committed>>,
           pc[r] # "done", l # "done",
           l \in {"check", "refused", "build", "look", "aside"}
               => backup[r] = Nothing,
           final = Nothing /\ backup[r] # Nothing =>
               l \in {"install", "undo", "restore", "unrestored", "killed"}
    PROVE  NothingLost' /\ Progress' /\ EmptyPathHasOwner'
<1>1. \A s \in Runs : pc'[s] = IF s = r THEN l ELSE pc[s]
  BY DEF TypeOK
<1>2. NothingLost'
  BY DEF NothingLost
<1>3. Progress'
  BY <1>1 DEF Progress
<1>4. EmptyPathHasOwner'
  <2> SUFFICES ASSUME final = Nothing, committed # {}
               PROVE  EmptyPathHasOwner'
    BY DEF EmptyPathHasOwner
  <2>1. PICK s \in Runs : /\ backup[s] # Nothing
                          /\ pc[s] \in {"install", "undo", "restore",
                                        "unrestored", "killed"}
    BY DEF EmptyPathHasOwner
  <2>2. pc'[s] \in {"install", "undo", "restore", "unrestored", "killed"}
    BY <1>1, <2>1
  <2> QED
    BY <2>1, <2>2 DEF EmptyPathHasOwner
<1> QED
  BY <1>2, <1>3, <1>4

\* Moving the old output aside: it goes from the final path to an empty backup.
LEMMA MoveAsideStep ==
    ASSUME TypeOK, NothingLost, Progress, EmptyPathHasOwner,
           NEW r \in Runs, pc[r] = "aside", final # Nothing,
           backup' = [backup EXCEPT ![r] = final], final' = Nothing,
           pc' = [pc EXCEPT ![r] = "install"], UNCHANGED committed
    PROVE  NothingLost' /\ Progress' /\ EmptyPathHasOwner'
<1>1. \A s \in Runs : /\ pc'[s] = IF s = r THEN "install" ELSE pc[s]
                      /\ backup'[s] = IF s = r THEN final ELSE backup[s]
  BY DEF TypeOK
<1>2. backup[r] = Nothing
  BY DEF Progress
<1>3. NothingLost'
  <2>1. ({final'} \cup {backup'[s] : s \in Runs}) \ {Nothing} =
        ({final} \cup {backup[s] : s \in Runs}) \ {Nothing}
    BY <1>1, <1>2
  <2>2. \A s, t \in Runs :
           s # t /\ backup'[s] # Nothing => backup'[s] # backup'[t]
    BY <1>1 DEF NothingLost
  <2> QED
    BY <2>1, <2>2 DEF NothingLost
<1>4. Progress'
  BY <1>1 DEF Progress
<1>5. EmptyPathHasOwner'
  BY <1>1 DEF EmptyPathHasOwner
<1> QED
  BY <1>3, <1>4, <1>5

\* Installing a new output on a free path: it is in no backup yet.
LEMMA InstallStep ==
    ASSUME TypeOK, NothingLost, Progress,
           NEW r \in Runs, pc[r] = "install", final = Nothing, final' = r,
           committed' = committed \cup {r},
           pc' = [pc EXCEPT ![r] = "done"], UNCHANGED backup
    PROVE  NothingLost' /\ Progress' /\ EmptyPathHasOwner'
<1>1. \A s \in Runs : pc'[s] = IF s = r THEN "done" ELSE pc[s]
  BY DEF TypeOK
<1>2. r # Nothing
  BY CommitAssumption
<1>3. \A s \in Runs : backup[s] # r
  <2>1. r \notin committed
    BY DEF Progress
  <2> QED
    BY <1>2, <2>1 DEF NothingLost
<1>4. NothingLost'
  BY <1>2, <1>3 DEF NothingLost
<1>5. Progress'
  BY <1>1 DEF Progress
<1>6. EmptyPathHasOwner'
  BY <1>2 DEF EmptyPathHasOwner
<1> QED
  BY <1>4, <1>5, <1>6

\* Putting a backup back on a free path.
LEMMA RestoreStep ==
    ASSUME TypeOK, NothingLost, Progress, EmptyPathHasOwner,
           NEW r \in Runs, pc[r] = "restore", final = Nothing,
           final' = backup[r], backup' = [backup EXCEPT ![r] = Nothing],
           pc' = [pc EXCEPT ![r] = "failed"], UNCHANGED committed
    PROVE  NothingLost' /\ Progress' /\ EmptyPathHasOwner'
<1>1. \A s \in Runs : /\ pc'[s] = IF s = r THEN "failed" ELSE pc[s]
                      /\ backup'[s] = IF s = r THEN Nothing ELSE backup[s]
  BY DEF TypeOK
<1>2. NothingLost'
  <2>1. ({final'} \cup {backup'[s] : s \in Runs}) \ {Nothing} =
        ({final} \cup {backup[s] : s \in Runs}) \ {Nothing}
    BY <1>1
  <2>2. \A s \in Runs : backup'[s] # Nothing => backup'[s] # final'
    BY <1>1 DEF NothingLost
  <2>3. \A s, t \in Runs :
           s # t /\ backup'[s] # Nothing => backup'[s] # backup'[t]
    BY <1>1 DEF NothingLost
  <2> QED
    BY <2>1, <2>2, <2>3 DEF NothingLost
<1>3. Progress'
  BY <1>1 DEF Progress
<1>4. EmptyPathHasOwner'
  <2> SUFFICES ASSUME backup[r] = Nothing, committed # {}
               PROVE  EmptyPathHasOwner'
    BY DEF EmptyPathHasOwner
  <2>1. PICK s \in Runs : /\ backup[s] # Nothing
                          /\ pc[s] \in {"install", "undo", "restore",
                                        "unrestored", "killed"}
    BY DEF EmptyPathHasOwner
  <2>2. s # r
    BY <2>1
  <2> QED
    BY <1>1, <2>1, <2>2 DEF EmptyPathHasOwner
<1> QED
  BY <1>2, <1>3, <1>4

\* Every step of a run keeps the inductive invariant.
LEMMA IInvStep ==
    ASSUME IInv, NEW r \in Runs, Run(r) \/ Kill(r)
    PROVE  IInv'
<1> USE DEF IInv
<1>0. TypeOK'
  BY TypeStep
<1>1. CASE Check(r)
  <2>1. backup[r] = Nothing
    BY <1>1 DEF Check, Progress
  <2> QED
    BY <1>0, <1>1, <2>1, QuietStep DEF Check, Goto
<1>2. CASE Build(r)
  <2>1. backup[r] = Nothing
    BY <1>2 DEF Build, Progress
  <2> QED
    BY <1>0, <1>2, <2>1, QuietStep DEF Build, Goto
<1>3. CASE Look(r)
  <2>1. backup[r] = Nothing
    BY <1>3 DEF Look, Progress
  <2> QED
    BY <1>0, <1>3, <2>1, QuietStep DEF Look, Goto
<1>4. CASE MoveAside(r)
  <2>1. backup[r] = Nothing
    BY <1>4 DEF MoveAside, Progress
  <2>2. CASE UNCHANGED <<backup, final>> /\ Goto(r, "failed")
    BY <1>0, <1>4, <2>1, <2>2, QuietStep DEF MoveAside, Goto
  <2>3. CASE ~(UNCHANGED <<backup, final>> /\ Goto(r, "failed"))
    BY <1>0, <1>4, <2>3, MoveAsideStep DEF MoveAside, Goto, BackupContent
  <2> QED
    BY <2>2, <2>3
<1>5. CASE Install(r)
  <2>1. CASE final' = final
    BY <1>0, <1>5, <2>1, QuietStep, CommitAssumption DEF Install, Goto
  <2>2. CASE final' # final
    BY <1>0, <1>5, <2>2, InstallStep DEF Install, Goto
  <2> QED
    BY <2>1, <2>2
<1>6. CASE Undo(r)
  BY <1>0, <1>6, QuietStep DEF Undo, Goto, MayRestore, GivenUp
<1>7. CASE Restore(r)
  <2>1. CASE UNCHANGED <<final, backup>>
    BY <1>0, <1>7, <2>1, QuietStep, CommitAssumption
    DEF Restore, Goto, GivenUp
  <2>2. CASE ~UNCHANGED <<final, backup>>
    BY <1>0, <1>7, <2>2, RestoreStep DEF Restore, Goto, GivenUp
  <2> QED
    BY <2>1, <2>2
<1>8. CASE Kill(r)
  <2>1. pc[r] \notin {"refused", "failed", "unrestored", "done", "killed"}
    BY <1>8 DEF Kill
  <2> QED
    BY <1>0, <1>8, <2>1, QuietStep DEF Kill, Goto
<1> QED
  BY <1>1, <1>2, <1>3, <1>4, <1>5, <1>6, <1>7, <1>8 DEF Run

\* The invariant holds in every reachable state.
LEMMA Invariance == Spec => []IInv
<1>1. Init => IInv
  BY CommitAssumption
  DEF Init, IInv, TypeOK, Contents, NothingLost, Progress, EmptyPathHasOwner
<1>2. IInv /\ [Next]_vars => IInv'
  <2> SUFFICES ASSUME IInv, [Next]_vars PROVE IInv'
    OBVIOUS
  <2>1. CASE Next
    BY <2>1, IInvStep DEF Next
  <2>2. CASE UNCHANGED vars
    BY <2>2 DEF vars, IInv, TypeOK, NothingLost, Progress, EmptyPathHasOwner
  <2> QED
    BY <2>1, <2>2
<1> QED
  BY <1>1, <1>2, PTL DEF Spec

\* However many invocations race, fail or are killed, every directory that was
\* ever the output is still there, and in one place only.
THEOREM NothingEverLost == Spec => []NothingLost
<1>1. IInv => NothingLost
  BY DEF IInv
<1> QED
  BY <1>1, Invariance, PTL

\* When all invocations have ended and none was killed, the output path is
\* empty only if one of them could not even put its backup back, and that one
\* still holds it.
THEOREM OutputRemains == Spec => []OutputThereAfterwards
<1>1. IInv => OutputThereAfterwards
  BY DEF IInv, EmptyPathHasOwner, OutputThereAfterwards
<1> QED
  BY <1>1, Invariance, PTL

\* An invocation that reports success has put its own output in place.
THEOREM SuccessIsReal == Spec => []DoneMeansInstalled
<1>1. IInv => DoneMeansInstalled
  <2> SUFFICES ASSUME IInv, NEW r \in Runs, pc[r] = "done"
               PROVE  /\ r \notin staged
                      /\ final = r \/ \E s \in Runs : backup[s] = r
    BY DEF DoneMeansInstalled
  <2>1. r \in committed
    BY DEF IInv, Progress
  <2> QED
    BY <2>1 DEF IInv, TypeOK, NothingLost
<1> QED
  BY <1>1, Invariance, PTL
=============================================================================
