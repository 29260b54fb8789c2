---------------------------- MODULE VideoBatch ----------------------------
(* scripts/bag-images-to-video.py: a batch of bags is exported one by one,  *)
(* each by an ffmpeg child that writes a hidden staging file of a fixed     *)
(* name, which replaces the video once ffmpeg has succeeded; a manifest     *)
(* with one row per job ends the batch.  Several invocations may use one    *)
(* output directory, one after the other or at the same time, and each may  *)
(* be killed anywhere (its ffmpeg then sees the end of its input).          *)
(*                                                                          *)
(* A video file is named by the <<run, bag>> whose ffmpeg created it.       *)
EXTENDS FiniteSets

CONSTANTS Runs,      \* invocations on the same output directory
          Bags,      \* the bags there are
          Batches,   \* the sets of bags a run may be given
          OutputOf,  \* bag -> the video safe_output_name gives it
          Prior,     \* a video that existed before
          Nothing,   \* no file of that name
          Exclusive  \* a run is started only when none is running

\* What the arguments and the bounds must satisfy.
VideoAssumption ==
    /\ IsFiniteSet(Bags) /\ DOMAIN OutputOf = Bags
    /\ Batches \subseteq SUBSET Bags \ {{}}
    /\ Prior \notin Runs \X Bags
    /\ Nothing \notin (Runs \X Bags) \cup {Prior}
    /\ Exclusive \in BOOLEAN

VARIABLES
    inputs, overwrite,      \* the arguments of each run
    pc, unplanned, jobs, current, fed, rows,   \* its state
    ffmpeg, file,           \* its child, and the file the child has open
    staged, final, manifest,   \* the output directory
    mixed,   \* files opened by two children
    whole    \* files a child has finished after all frames of its bag

arguments == <<inputs, overwrite>>
batch == <<unplanned, jobs, current, fed, rows>>
child == <<ffmpeg, file>>
directory == <<staged, final, manifest>>
vars == <<arguments, pc, batch, child, directory, mixed, whole>>

Outputs == {OutputOf[b] : b \in Bags}
Files == Runs \X Bags
Over == {"refused", "ended", "killed"}

Goto(r, l) == pc' = [pc EXCEPT ![r] = l]
Out(r) == OutputOf[current[r]]
Own(r) == <<r, current[r]>>

Init ==
    /\ inputs = [r \in Runs |-> {}] /\ overwrite = {}
    /\ pc = [r \in Runs |-> "start"]
    /\ unplanned = [r \in Runs |-> {}] /\ jobs = [r \in Runs |-> {}]
    /\ current = [r \in Runs |-> Nothing] /\ fed = [r \in Runs |-> "no"]
    /\ rows = [r \in Runs |-> {}]
    /\ ffmpeg = [r \in Runs |-> "none"] /\ file = [r \in Runs |-> Nothing]
    /\ staged = [o \in Outputs |-> Nothing]
    /\ final \in [Outputs -> {Nothing, Prior}]
    /\ manifest = Nothing
    /\ mixed = {} /\ whole = {}

----------------------------------------------------------------------------
\* Planning the batch

MayStart(r) ==
    Exclusive => \A s \in Runs \ {r} :
                    /\ pc[s] \in Over \cup {"start"}
                    /\ ffmpeg[s] \notin {"started", "writing"}

\* A run with some bags, and its --overwrite.  The manifest of an earlier
\* batch is not replaced without it.
Start(r) ==
    /\ pc[r] = "start" /\ MayStart(r)
    /\ \E bags \in Batches :
          /\ inputs' = [inputs EXCEPT ![r] = bags]
          /\ unplanned' = [unplanned EXCEPT ![r] = bags]
    /\ overwrite' \in {overwrite, overwrite \cup {r}}
    /\ Goto(r, IF manifest # Nothing /\ r \notin overwrite'
               THEN "refused" ELSE "plan")
    /\ UNCHANGED <<jobs, current, fed, rows, child, directory, mixed, whole>>

\* An earlier bag of the list has the same output name.
Collides(r, b) ==
    \E c \in inputs[r] \ unplanned[r] : OutputOf[c] = OutputOf[b]

\* out.exists() and not overwrite.
Skipped(r, b) == final[OutputOf[b]] # Nothing /\ r \notin overwrite

\* One bag of build_jobs, in the order of find_bags (any order here).
PlanBag(r) ==
    /\ pc[r] = "plan"
    /\ \E b \in unplanned[r] :
          IF Collides(r, b)
          THEN Goto(r, "refused") /\ UNCHANGED <<unplanned, jobs>>
          ELSE /\ unplanned' = [unplanned EXCEPT ![r] = @ \ {b}]
               /\ jobs' = [jobs EXCEPT ![r] =
                     IF Skipped(r, b) THEN @ ELSE @ \cup {b}]
               /\ UNCHANGED pc
    /\ UNCHANGED <<arguments, current, fed, rows, child, directory, mixed,
                   whole>>

Planned(r) ==
    /\ pc[r] = "plan" /\ unplanned[r] = {}
    /\ Goto(r, IF jobs[r] = {} THEN "ended" ELSE "next")
    /\ UNCHANGED <<arguments, batch, child, directory, mixed, whole>>

----------------------------------------------------------------------------
\* One job

RowsOf(r) == {row.bag : row \in rows[r]}

\* The job's row, and on to the next job or the manifest.
Record(r, b, ok) ==
    /\ rows' = [rows EXCEPT ![r] = @ \cup {[bag |-> b, ok |-> ok]}]
    /\ Goto(r, IF jobs[r] = RowsOf(r) \cup {b} THEN "manifest" ELSE "next")

\* The first frame of the topic: there is none, the bag cannot be read, or
\* the export goes on.
Preview(r) ==
    /\ pc[r] = "next"
    /\ \E b \in jobs[r] \ RowsOf(r) :
          /\ current' = [current EXCEPT ![r] = b]
          /\ \/ Record(r, b, FALSE)
             \/ Goto(r, "sweep") /\ UNCHANGED rows
    /\ UNCHANGED <<arguments, unplanned, jobs, fed, child, directory, mixed,
                   whole>>

\* staging_output.unlink(missing_ok=True) before ffmpeg is started.  (If it
\* raises, the job fails as it does at its preview: Preview has that outcome.)
Fresh(r) == [staged EXCEPT ![Out(r)] = Nothing]

Sweep(r) ==
    /\ pc[r] = "sweep"
    /\ staged' = Fresh(r)
    /\ Goto(r, "launch")
    /\ UNCHANGED <<arguments, batch, child, final, manifest, mixed, whole>>

\* Popen, which may raise.
Launch(r) ==
    /\ pc[r] = "launch"
    /\ \/ /\ ffmpeg' = [ffmpeg EXCEPT ![r] = "started"]
          /\ file' = [file EXCEPT ![r] = Nothing]
          /\ fed' = [fed EXCEPT ![r] = "no"]
          /\ Goto(r, "feed")
          /\ UNCHANGED rows
       \/ Record(r, current[r], FALSE) /\ UNCHANGED <<child, fed>>
    /\ UNCHANGED <<arguments, unplanned, jobs, current, directory, mixed, whole>>

\* The loop over the messages ends: with frames written, with none in the
\* range asked for, or with an exception (of the reader, or a broken pipe).
Feed(r) ==
    /\ pc[r] = "feed"
    /\ \E how \in {"frames", "none", "error"} : fed' = [fed EXCEPT ![r] = how]
    /\ Goto(r, "wait")
    /\ UNCHANGED <<arguments, unplanned, jobs, current, rows, child, directory,
                   mixed, whole>>

\* Mutant: the exit code is not looked at.
SucceededUnchecked(r) == fed[r] = "frames"

\* No exception while feeding, exit code 0, and frames were written.
Succeeded(r) == fed[r] = "frames" /\ ffmpeg[r] = "exit0"

\* staging_output.unlink after a failure.  (Taken to succeed: the directory is
\* one ffmpeg has just been able to create the file in.)
Swept(r) == [staged EXCEPT ![Out(r)] = Nothing]

\* process.wait() and the three ways a job fails after it.
Judge(r) ==
    /\ pc[r] = "wait" /\ ffmpeg[r] \in {"exit0", "exit1"}
    /\ IF Succeeded(r)
       THEN Goto(r, "replace") /\ UNCHANGED <<rows, staged>>
       ELSE Record(r, current[r], FALSE) /\ staged' = Swept(r)
    /\ UNCHANGED <<arguments, unplanned, jobs, current, fed, child, final,
                   manifest, mixed, whole>>

\* staging_output.replace(output): it raises when the file has gone, or on any
\* other error of the file system, and then the staging file stays.
Replace(r) ==
    /\ pc[r] = "replace"
    /\ \/ /\ staged[Out(r)] # Nothing
          /\ final' = [final EXCEPT ![Out(r)] = staged[Out(r)]]
          /\ staged' = [staged EXCEPT ![Out(r)] = Nothing]
          /\ Record(r, current[r], TRUE)
       \/ Record(r, current[r], FALSE) /\ UNCHANGED <<final, staged>>
    /\ UNCHANGED <<arguments, unplanned, jobs, current, fed, child, manifest,
                   mixed, whole>>

WriteManifest(r) ==
    /\ pc[r] = "manifest"
    /\ manifest' = [run |-> r, rows |-> rows[r]]
    /\ Goto(r, "ended")
    /\ UNCHANGED <<arguments, batch, child, staged, final, mixed, whole>>

----------------------------------------------------------------------------
\* ffmpeg, and kills

\* ffmpeg -y creates the file of the staging name, or truncates the one there.
Open(r) ==
    /\ ffmpeg[r] = "started"
    /\ ffmpeg' = [ffmpeg EXCEPT ![r] = "writing"]
    /\ LET o == Out(r)
           f == IF staged[o] = Nothing THEN Own(r) ELSE staged[o]
       IN  /\ file' = [file EXCEPT ![r] = f]
           /\ staged' = [staged EXCEPT ![o] = f]
           /\ mixed' = IF f = Own(r) THEN mixed ELSE mixed \cup {f}
           /\ whole' = whole \ {f}
    /\ UNCHANGED <<arguments, pc, batch, final, manifest>>

\* Its input has ended (closed, or with its parent) and it completes the file.
Complete(r) ==
    /\ ffmpeg[r] = "writing" /\ pc[r] \in {"wait", "killed"}
    /\ ffmpeg' = [ffmpeg EXCEPT ![r] = "exit0"]
    /\ whole' = IF fed[r] = "frames" /\ file[r] \notin mixed
                THEN whole \cup {file[r]} ELSE whole
    /\ UNCHANGED <<arguments, pc, batch, file, directory, mixed>>

\* It stops with another exit code, leaving what it has written.
Fail(r) ==
    /\ ffmpeg[r] \in {"started", "writing"}
    /\ ffmpeg' = [ffmpeg EXCEPT ![r] = "exit1"]
    /\ UNCHANGED <<arguments, pc, batch, file, directory, mixed, whole>>

\* The script is killed, or stopped by an error of its own.
Kill(r) ==
    /\ pc[r] \notin Over \cup {"start"}
    /\ Goto(r, "killed")
    /\ UNCHANGED <<arguments, batch, child, directory, mixed, whole>>

Script(r) ==
    \/ Start(r) \/ PlanBag(r) \/ Planned(r) \/ Preview(r) \/ Sweep(r)
    \/ Launch(r) \/ Feed(r) \/ Judge(r) \/ Replace(r) \/ WriteManifest(r)

Next == \E r \in Runs : Script(r) \/ Open(r) \/ Complete(r) \/ Fail(r) \/ Kill(r)

Spec == Init /\ [][Next]_vars

----------------------------------------------------------------------------
\* Properties

\* Every variable stays in its range, a run works on a job of its own, and two
\* children write one file only if two runs overlap.
TypeOK ==
    /\ inputs \in [Runs -> SUBSET Bags] /\ overwrite \subseteq Runs
    /\ pc \in [Runs -> {"start", "refused", "plan", "next", "sweep", "launch",
                        "feed", "wait", "replace", "manifest", "ended",
                        "killed"}]
    /\ \A r \in Runs :
          /\ unplanned[r] \cup jobs[r] \subseteq inputs[r]
          /\ rows[r] \subseteq [bag : jobs[r], ok : BOOLEAN]
          /\ current[r] \in jobs[r] \cup {Nothing}
          /\ fed[r] \in {"no", "frames", "none", "error"}
          /\ ffmpeg[r] \in {"none", "started", "writing", "exit0", "exit1"}
          /\ file[r] \in Files \cup {Nothing}
    /\ staged \in [Outputs -> Files \cup {Nothing}]
    /\ final \in [Outputs -> Files \cup {Nothing, Prior}]
    /\ manifest = Nothing \/ manifest.run \in Runs
    /\ mixed \subseteq Files /\ whole \subseteq Files \ mixed
    /\ Exclusive => mixed = {}

\* A video under its final name is complete: a finished ffmpeg wrote it and
\* was given all the frames, whatever failed or was killed, and whatever an
\* earlier batch left in the staging file.
FinalsWhole == \A o \in Outputs : final[o] \in {Nothing, Prior} \cup whole

\* The manifest has one row for each job; the video of an "ok" row is the one
\* this batch made of that bag (or a later batch's), and no video is of a job
\* the manifest calls failed.
ManifestTruthful ==
    manifest # Nothing =>
        LET r == manifest.run IN
        /\ {row.bag : row \in manifest.rows} = jobs[r]
        /\ Cardinality(manifest.rows) = Cardinality(jobs[r])
        /\ \A row \in manifest.rows :
              LET video == final[OutputOf[row.bag]] IN
              IF row.ok
              THEN video = <<r, row.bag>> \/ (video \in Files /\ video[1] # r)
              ELSE video # <<r, row.bag>>

\* What a batch that ended leaves under a staging name is at most a complete
\* video whose replacement failed, never the remains of a failed export.
LeftoversWhole ==
    \A r \in Runs : pc[r] = "ended" =>
        \A o \in Outputs : staged[o] \in Files /\ staged[o][1] = r
                          => staged[o] \in whole

\* docs/data-tools.md: "All scripts refuse to replace outputs unless
\* --overwrite is supplied."  Of batches that do not overlap it is true: a step
\* that replaces a video or a manifest is one of a run with that option.
ReplacesLawfully ==
    /\ \A o \in Outputs : final[o] # Nothing /\ final'[o] # final[o] =>
          \E r \in overwrite : pc[r] = "replace" /\ pc'[r] # "replace"
    /\ manifest # Nothing /\ manifest' # manifest =>
          \E r \in overwrite : pc[r] = "manifest" /\ pc'[r] = "ended"
=============================================================================
