# A verification project for multi-uav-field-toolkit

TLA+ models of the toolkit's core logic, the TLC configurations that check them,
and TLAPS proofs of their main invariants. Paths below are relative to the
repository root; `PROJECT.json` maps each definition to the lines it models and
lists the runs, mutants, hazards and theorems.

    tlc -workers 2 -config MCTuningCommand.cfg MCTuningCommand   # one run
    tlapm TuningProofs.tla                                       # one proof module

## 1. Inventory

The toolkit has three parts that share no state: the live monitor, the tuning
loop, and a set of offline data scripts.

| Component | Source | State | Operations | What is hard | What makes it correct |
| --- | --- | --- | --- | --- | --- |
| Tuning controller | `tuning/runner.py` | output directory, center, incumbent, `seen`, completed and failed candidates | `run_experiment`: claim the directory, rounds of generate / write / evaluate / decide, leaderboard, best, final status | evaluator processes that hang, fail or answer late; one failing among many; a crash leaves a half-written directory; a second invocation | the evidence on disk is complete and agrees with what was measured; the recommendation is the best candidate; each candidate is tried once; every run ends |
| Coordinate search | `tuning/search.py` | none (pure) | `generate_round` | scaling, rounding, bounds at the edges, deduplication, the cap | proposals in bounds, one coordinate at a time, steps that shrink but never vanish, no direction lost |
| Scoring | `tuning/scoring.py` | none (pure) | `score_metrics`, `rank_key`, `select_best` | ties, infeasible candidates, directions and ranges | a strict total order with the feasible candidates first; a dominated candidate is never ahead |
| Configuration | `tuning/config.py` | none | `load_config`, `load_scenarios` | interplay of limits (cap, rounds, parameters) | what is accepted satisfies what controller, search and scoring assume |
| Synthetic evaluator | `tuning/synthetic_evaluator.py` | a child process, `evaluation.json` | `evaluate`, `main` | its input may change between load and hash; formulas at the ends of their ranges | a result is about the pinned scenarios; its metrics are in the domains the controller checks |
| Command line | `tuning/cli.py`, `scripts/run-synthetic-tuning.py` | exit codes | `run`, `report`, `validate` | kills, refusals, reports during a run | an exit code agrees with the directory, a report is final |
| Image aggregator | `monitor/host/aggregator.py` | per UAV: assembly, shown image with frame id, time stamp and time of receipt, version | `ingest_image_packet` | lost, duplicated, reordered and late chunks; agents that restart or reboot | whole frames, in time, never backwards, and no permanent blindness |
| Image streams | `monitor/host/server.py`, `aggregator.py` | per thread: last version, deadline | `wait_for_image`, `_send_mjpeg` | a condition variable shared by the listener and many readers; clients that leave | no lost wakeup, image and version together, the latest image arrives, threads end |
| Status and snapshot | `aggregator.py` | last status, rate windows, the map of UAVs | `ingest_status_packet`, `snapshot` | clock read outside the lock, the limit of 64 UAVs, a status that cannot be given as JSON | rates count exactly the recent samples, levels tell the age, known ids are served, silence is shown or the client let go |
| Listeners and HTTP server | `server.py` | two UDP threads, sockets, stop events | `run`, `stop`, request routing | closing a socket another thread receives from | listeners stop when told and only then, a bad packet stops nobody |
| Protocol | `monitor/common/protocol.py` | none | split, pack and unpack of image chunks; status JSON | limits at the boundary, brackets in strings | what is sent is accepted, what is accepted is well formed and not too deep to parse |
| Agent | `monitor/mock_sender.py` | frame id, clock | sends status and image packets | restarts | frame ids and time stamps grow within a session |
| Web UI | `monitor/web/app.js` | cards | receives events or polls the snapshot, loads and retries images | overlapping polls, retries with an old entry, a host that ends or forgets the UAV, snapshots that cannot be read | the card ends up with the host's state |
| Occupancy grid script | `scripts/livox-bag-to-occupancy-grid.py` | occupied cells, previews; staging, final and backup directories | read, place, render; build, move aside, install, restore | nearest poses, three counts of frames, image limits; concurrent runs, kills between renames, renames that fail | the grid is that of the frames near a pose; no output is lost, and what was moved aside is put back unless that fails too |
| Image export script | `scripts/bag-images-to-video.py` | one staging and one final file per bag, manifest | jobs, frames of a window, export, replace, manifest | a fixed staging name, one bag of many failing, split bags | videos hold the frames asked for, final files are complete, the manifest tells the truth |
| Pose export | `scripts/extract-pose-trajectory.py` | hidden and final CSV and metadata | read a window, write, replace twice | two files replaced separately, stamps out of order | the pair belongs together, samples are those of the window |
| Topic inspection | `scripts/inspect-bag-topics.py` | hidden and final CSV | read a batch, write, replace | unreadable bags, kills | the CSV is whole, the exit code tells |

Interaction. In the monitor, UDP listener threads call the aggregator's
`ingest_*` methods; HTTP threads call `snapshot`, `latest_image` and
`wait_for_image`; they share the aggregator's state under one lock and one
condition. In the tuning loop the controller (one process) calls search and
scoring as functions and the evaluator as a child process, and communicates with
it, and with later readers, through files. The scripts meet only through the
file system. The hazards of each part, with the line where each bites and the
property that covers it, are in `PROJECT.json`.

## 2. The modules

### Tuning

`Scoring` has the rank key (feasible first, then violation, objective and
candidate id) and `select_best`; candidates are members of `Points`, scores
records with a violation and an objective, and the candidate-id order is the
injective constant `IdOrder`.

`TuningRun` is `run_experiment`, one action per step that touches the disk or the
child process:

| Action | Code |
| --- | --- |
| `Start(i)` (by `Claim`) | `output.mkdir(exist_ok=False)`, or `OutputExistsError` for every later invocation |
| `OpenRun` | inputs and `run.json` with "running" |
| `BeginRound`, `Materialise`, `Materialised` | `generate_round`; one candidate directory each; on to the evaluation, or the "planned" decision of a dry run |
| `Launch`, `EvaluatorExits`, `AcceptEvaluation`, `RejectEvaluation` | the child process: it starts, ends in any way, is accepted (`score.json`) or rejected (`error.json`); `RejectEvaluation` also covers a failed start and a timeout at any moment |
| `Decide` | `select_best`, the incumbent and center, `decision.json` |
| `WriteLeaderboard`, `WriteBest`, `CloseRun` | the last files |
| `Crash` | a kill, or an uncaught `OSError` |

`planned`, `scored`, `errored`, `score`, `decision`, `leaderboard`, `best` and
`runStatus` are the files on disk; the other variables are the controller's
memory and its child. `score` has the exact scores, as `evaluation.json` and the
objectives determine them and as the controller ranks them; `score.json`,
`leaderboard.json` and `best.json` give them rounded to 12 and 6 digits. `Neighborhood(c, r)` is a constant operator: the theorems
hold whatever the search proposes. `CoordinateSearch` defines it as the code
does, on integers: a float counts `Grain` units to the 10^-12 tick that
`_normalize` rounds to (ties to even, as Python rounds), and `MCTuningCommand`
connects the two. Its `Power`, `Nth` and `Proposals`, like `Cursor` of
`VideoFrames`, are written with functions over intervals and `CHOOSE`, so that
the provers see what they are.

`AcceptedExperiment` is the path from `experiment.json`: the rules of
`load_config` on one or two parameters, constraints and objectives; then, if
the loader accepts, either `score_metrics` on the metrics of two candidates that
differ in a known way, or a walk of the search in which any proposal may become
the next center. It instantiates `CoordinateSearch` and `Scoring`, so that what
the loader accepts is tried on the code that relies on it. A baseline exactly half
way between two ticks (`HalfTick`) is rounded to the even one, so that a first move
may lead back to it; `AcceptedIsUsable` makes that exception and no other.

`ScenarioPin` is what `TuningRun` leaves to one step: `LoadSource`, `WriteSnapshot`
and `Pin` (the controller), `Launch`, `LoadScenarios` and `CompareAndEvaluate` (each
evaluator), while `EditSource` and `EditSnapshot` change the files. A digest is
the content it was taken of.

`TuningCommand` adds the processes around `TuningRun`: `Return(i)` ends command
i with the codes `main` gives where it is, `Misconfigured` refuses before there
is a directory, `Report` prints `best.json` whenever it is asked to.

`BestSoFar` is the abstract promise: points are measured at most once each; the
run concludes once; its choice is the best point measured.
`ImplementsBestSoFar` states that `TuningRun` implements it, the refinement
mapping reading measured points and verdict off the files.

### Monitor

`ImageAggregator` is `ingest_image_packet` for one UAV, under the lock, as one
of three outcomes: `DropOld`, `Collect`, `Publish`. Restart detection is
`IsRestart`, by time stamp or by a stale display; the reset it causes is part of
the same step, also when the chunk is then rejected. What a frame's bytes are is
left to the predicates `Fits` and `Jpeg`. `HostSpec` is the handler against every
well-formed packet sequence whatever.

`ImagePipeline` adds an agent that numbers frames from 1, stamps them with its
clock, may die and come back (with the same clock, or rebooted with a clock from
0), and the network. The variable `network` is chosen once, from `Networks`: one
that is not `reliable` delays up to its `delay`, duplicates, reorders and loses;
one that is delivers each chunk once, in order. It also carries the bounds on
frames, sessions and time, because the questions asked of the two kinds need
different ones. A payload is the session and frame it was cut from, so a mixed
picture can be seen.

`ImageStream` is `wait_for_image` and the MJPEG handler: one action per critical
section or step outside the lock. `Publish` changes the image, its version and
wakes every waiter in one step, as the code does under the lock. Images are numbered
in `images`, apart from the `version` the code compares, so that a version number
used twice would be seen to hide an image.

`StatusBoard` is the other half of the aggregator. A packet is `Receive`d (the
clock is read) and later `Ingest`ed (under the lock), by two threads; a stream
does `ReadMs`, `ReadNow` and `Snapshot`. A rate meter is the sequence of its
samples' times. Time is an integer of the bounded clock. A status that decodes need
not be one that can be given again: `float()` raises `OverflowError` for a number of
400 digits in `odom.freshness_ms` (`aggregator.py:276`), and half of a surrogate pair
cannot be encoded (`server.py:113`). `unwritable` are the UAVs whose latest status is
one of those, and `SnapshotFails` is what then happens to each stream: `_send_events`
does not catch the exception, its thread ends, and the client loses a stream it was
still reading.

`UdpListener` is the host process: `Main` starts and stops the two listeners as
`main` does, each listener is a thread (`Create`, `Assign`, `Test`, `Call`,
`Receive`, `Timeout`, `Ingest`). `ClosedSockets` is `stop`'s look at
the attribute, which may not be set yet.

`WebCard` is one card of the page. The host is reduced to its time and to what a
snapshot of it is like: does it list the UAV, has that an image, and can the
statuses be taken by the page ("fine"), make it throw before it has rendered the card
("unreadable": NaN, say, which Python's JSON passes on and JavaScript's refuses), or
make the host raise ("raises", as above). Polls overtake each other; the host ends and
starts again, and then knows the UAV only if it was named with `--uav` or sends
again. A card whose UAV is not listed is left as it was (`Render`), and so is every
card by an exception (`Taken`). `reports` says whether the browser fires `error` for
an MJPEG stream that was live when it was cut; a request that is refused always
fires it.

### Scripts

`GridCommit` is the end of the occupancy-grid script for several runs with the
same output path: check, staging, look, move aside, install, undo and restore are
separate steps, and a run may be killed between any two. Each rename may fail, also
the one that puts the backup back (`Restore`), which ends the run as "unrestored".

`LidarGrid` fills the staging directory that `GridCommit` installs: `ReadFrame`
is one round of `process_bag`'s loop, `Render` is `render_grid`. It uses
`PoseLookup`, the pure functions `nearest_pose_index` and `interpolate_pose`
on stamps. A frame's points are the set of cells they hit.

`VideoFrames` is what one export of `VideoBatch` feeds to ffmpeg: `Preview`,
`OpenFile`, `ReadMessage` and the estimate of the rate, over bags that are
sequences of files, in the order of their names, of timestamps.

`PoseExport` runs `extract-pose-trajectory.py` several times on the same pair of
paths: `Read` per message, then `Open`, `Write` and `Replace` for the CSV and for
the metadata, and `Stop` anywhere. `TopicInspection` does the same for
`inspect-bag-topics.py` and its batch of bags.

`VideoBatch` is the image export script: `Start`, `PlanBag` and `Planned` are
`main` and `build_jobs`; `Preview`, `Sweep`, `Launch`, `Feed`, `Judge` and
`Replace` are one `export_bag`; `WriteManifest` ends the batch. ffmpeg is a
process of its own (`Open`, `Complete`, `Fail`), which outlives a killed script.
A video file is named by the run and bag whose ffmpeg created it, and `whole` are
the files a single ffmpeg completed with all frames, so that a partial or mixed
video can be told from a good one. The removal of the staging file after a failed
export is taken to succeed, in a directory ffmpeg has just created that file in; were
it to fail, the remains would stay under the staging name until the next export. With `Exclusive = TRUE` a run starts only when
no other script or ffmpeg is running; only then does the code keep the promises
the properties state.

`DataScripts` joins the five modules above other than `GridCommit` as the instances
`Pose`, `Topics`, `Frames`, `Grid` and `Batch`, for any recordings and bounds. A
behavior is of one script, the variable `script`, with every argument and every
bag; the variables of the other scripts are `Idle`. The scripts meet only
through the file system, and no one reads what another is writing, so nothing is
lost by not interleaving them. The names that several scripts use for the like
(`bag`, `pc`, `overwrite`) are one variable. `MCDataScripts` gives it the small
recordings TLC can enumerate.

## 3. The runs

| Run | States | What it shows |
| --- | --- | --- |
| `tuning_command` | 219,584 | Evidence, incumbent, recommendation, reports and exit codes agree; commands return; the run implements `BestSoFar` |
| `accepted_experiment` | 21,979 | What the loader accepts can be scored and searched; dominance; the search's proposals over six rounds |
| `scenario_pin` | 18,200 | Results are about the pinned scenarios, the run is about the validated ones |
| `image_path` | 1.3 million | Whole and timely display over any network, monotone until the agent restarts; over a reliable one also after restarts, no frame of the first session torn, and a display that follows a restarted agent |
| `image_stream` | 30,276 | Wakeups, up-to-date waiting, delivery, end of streams |
| `status_board` | 473,894 | Rates, levels, the limit of UAVs, event streams and their end on a status that cannot be given |
| `udp_listener` | 25,691 | Start and stop of the listeners, packets reach the aggregator |
| `web_card` | 162,480 | Retries, overtaking polls, unreadable snapshots, a host that forgets: the card ends with the host's state |
| `grid_commit` | 27,038 | Nothing lost under races, failing renames and kills |
| `data_scripts` | 3.7 million | Poses, frames and cells are those asked for; whole and matching files, truthful manifest and exit codes |
| `grid_replace` | violation | Replacement without `--overwrite` |
| `video_window` | violation | Frames of a window lost by the order of file names |

Bounds, and why they are enough:

* `tuning_command`: two commands, a 2 x 3 grid of points, so that a round meets
  seen points, a bound and both directions; three scores (two feasible ones that
  differ in the objective, and an infeasible one whose objective is as good as the
  best), so that ties, and feasibility against objective, decide; budgets of one or
  three rounds and caps of 1, 2 or 4, of which `ValidBudget` admits those
  `load_config` accepts. The search space is exhausted in some behaviours, and the
  first evaluation fails in others.
* `accepted_experiment`: experiments that each have one part wrong or at a limit,
  over a base that is right; metrics inside, at and outside the objective's range;
  one integer and one float parameter whose values are, at four units to the tick,
  between two ticks, half way or on one, over six rounds, in which the integer step shrinks to its floor
  of 1.
* `scenario_pin`: four contents, two of which have equally many scenarios and one
  of which does not load; three candidates; the source edited at will and the
  snapshot up to twice, of which `NeverMixed` is claimed up to one, see below.
* `image_path`: two chunks per frame, up to three packets in flight, a timeout of
  two units and a stale age of three. Four networks. Unreliable, with delays of up to two units
  over three units of time: two frames in each of two sessions, the least with which
  an old session's chunk meets a new one's assembly, and three frames in one session.
  Reliable, with a delay of one: three frames in each of two sessions over seven
  units, so that a restarted agent is silent, stale and shown again, and two frames
  in each of three sessions over four units, so that an agent restarts twice within
  the timeout. One frame is not a JPEG and one is too big.
* `image_stream`: two threads, so that one notification has two waiters, and
  three images.
* `status_board`: two ids and one place, so that one is refused; a window and a
  warning age of one unit and an error age of two, on a clock that runs to three;
  three packets, one stream. The table has one place, so a failing snapshot here
  reaches its only UAV; that it may have trimmed the meters of any of several is in
  the theorems.
* `udp_listener`: both listeners, two packets each.
* `web_card`: two polls that overlap, four changes of the host's state, which is
  enough for a first image, an end, a start without the UAV, a status that breaks
  the snapshots and one that mends them in one behaviour; both kinds of browser.
* `grid_commit`: three runs; a fourth adds no new kind of step, and the theorems
  do not depend on the number.
* `data_scripts`: for the grid, recordings of up to three frames around, between
  and beyond the poses, at equal distances too, with every combination of strides
  and limits; for frames, bags of one to three files, an empty one included and one
  named in another order than it was recorded, with up to two unreadable messages; for
  poses, bags of up to three messages with stamps in and out of order and two
  exports; for the inspection, three bags, of which any may be unreadable, and
  three runs; for videos, two batches, the second meeting whatever the first left,
  and three bags of which two collide: a batch that collides, one of two jobs, and
  one whose only bag shares its output with the first batch's.

Deadlock is checked where something can always happen (`WebCard`). The other
configurations turn it off because the modelled program ends (scripts, streams,
commands, listeners), or because agent, clock and rounds stop at their bounds
(`MCImagePipeline`, `StatusBoard`, `MCAcceptedExperiment`).

Fairness. `TuningRun`: the controller is a sequential program that keeps running
unless it crashes (weak fairness on its steps, and on each invocation's start).
No fairness is assumed of the evaluator, which may hang: `CommandsReturn` rests on
the finite timeout of `subprocess.run`. `ImageStream`: each thread is scheduled (weak
fairness per thread), which includes that its deadline passes and the write to
its socket returns; images need not come and clients need not leave.
`TuningCommand` adds that a command which can end does. `StatusBoard`: time passes,
and a stream that can take a step does; packets need not come. `UdpListener`:
main and each thread are scheduled, which includes that `recvfrom` returns after
its timeout; an interrupt need not come, and packets need not either. `WebCard`:
the host sends its events, or fails to and ends the stream, the browser runs the
handlers of what has happened, its interval and its timers; the host need neither end
nor start, and a browser need not report that a live MJPEG stream was cut (only with
`reports` is the image error fair then). The liveness
properties are therefore stated for what happens once the other side has settled.
`DisplayFollowsAgent` is stated as an invariant at each completed frame and needs
no fairness.

Each property has a mutant in `PROJECT.json`: a plausible mistake in one mapped
definition (written just before it, marked "Mutant") that makes TLC report
that property violated.

### What the violations say

`docs/data-tools.md:13` says "All scripts refuse to replace outputs unless
`--overwrite` is supplied." The occupancy-grid script decides that before the
build (line 504) and looks again after it (line 551) without asking for the
option: `grid_replace` shows a run without `--overwrite` that replaces an output
another run installed in the meantime. `NothingLost` shows that the replaced
output survives as a backup. The image export script likewise looks for existing
videos (line 162) and an existing manifest (line 505) before its first export, and
replaces both at the end (lines 460 and 492). `OverwriteRespected` shows that with
batches that do not overlap the promise holds.

The image export script reads the files of a split ROS 2 bag sorted by name (line
221) and stops at the first message after the window (line 242). Split files are
numbered without leading zeros, so `bag_10` comes before `bag_2`: `video_window`
shows an export that stops before it has read frames inside its window, and reports
success. `FramesTruthful` therefore claims exact frames of a ROS 2 bag only if its
names are in the order of recording (`NamedInOrder`), and of any ROS 1 bag.

Where a property stops short of what the documentation says, its comment names the
limit. `docs/agent-in-loop-tuning.md:92` says that "a modified input is rejected
rather than silently mixed into the run." The evaluator loads the scenarios (line
194) and reads the file again to hash it (line 205), so a snapshot that is
modified, loaded, put back and then hashed is accepted: `NeverMixed` therefore
speaks of one edit, which is rejected at whatever moment it falls.
`DisplayFollowsAgent` and `LeftStreamsEnd` say in their comments
up to where they hold.

Two limits were found by stating the image properties more strongly than they
hold. An assembly is bound to a frame id and not to a session of the agent: over a
network that keeps order a frame of the first session is never mixed with another,
but an agent that restarts again within the assembly timeout may leave an assembly
without a first chunk, which the next session's frame of that id completes. `NeverTorn` is therefore about
the first session. And once a restart was detected the handler forgets the frame id it
shows, so that over a network that reorders, chunks of the dead session can lead the
display back: `NeverBackwards` claims the order after a restart only over a network
that keeps order.

## 4. The proofs

Everything here is proved for every value of the constants, from the named
assumptions of the modules, which TLC evaluates on every run. Of the properties
that the passing runs check, all 26 invariants are theorems, and so are all 7
action properties and refinements (the other 7 are liveness). Each proof module
states its inductive invariant as a conjunction of named parts.

* `GridCommitProofs`: `TypeCorrect`, `NothingEverLost`, `OutputRemains`,
  `SuccessIsReal`. The inductive invariant `IInv` adds two facts to the
  properties: `Progress` (exactly the runs that are done have had their output at
  the final path, and a run that has not reached the renames has no backup) and
  `EmptyPathHasOwner` (if there was an output and the path is empty, a run that
  holds a backup is about to install, undo or restore, failed to restore, or was
  killed there). So the one way in which runs that all ended by themselves leave the
  path empty is a restoring rename that failed like the installing one
  (`OutputRemains`), and then the backup has the output.
  `NothingLost` alone is not inductive: without `Progress`, a run could move a
  second output over its backup, or install what another run has in one.

* `TuningProofs`, in the order of the argument:
  the rank key is a strict total order on scored candidates (ties end at the
  candidate id), the selected candidate is feasible if any is, and it is unique.
  `SearchInv` says that the center is the incumbent, that it is one of the
  completed candidates and, between rounds, the best of them, and that a round after
  the first starts only with one; `IncumbentIsBest` and `IncumbentNeverWorse`
  follow, because the completed candidates only grow.
  `AuditTrailHolds`: `AuditInv` ties the controller's memory to the disk: planned
  points are in `seen`, the completed candidates are those with a `score.json`,
  the round's lists and counts are the outcomes in its directory (`GrowthInv`,
  `CountInv`), and only past rounds are decided (`DecisionInv`), so that new
  evidence cannot contradict an old decision.
  `DirectionsNeverLost`: `PlanInv` adds which rounds were decided to go on, and that
  the list of a round is its neighbourhood without what was seen, each point at its
  first occurrence (by the least index).
  `ReportsAlwaysTruthful`: `ReportInv` says what each of the last files contains as
  soon as it exists; that the leaderboard's places are the order of the rank key
  uses the theorems on the key, and that a set of candidates ranked before another
  is smaller. `ClosedRunsUntouched`: only `Start`, which the claimed directory
  refuses, is enabled after the end.
  `ImplementationOfBestSoFar`: each action of `TuningRun` is mapped to a step of
  `BestSoFar` or to none. Accepting an evaluation is a measurement of a point
  not measured before (`MeasuredInv`: the scores on disk are those of the completed
  candidates), the one write that concludes the run names the best of what was
  measured (`BestInv`), and a dry run measures nothing (`DryInv`).
  `CommandsAlwaysTruthful`: `CommandInv` relates each exit code, and the point
  `report` printed last, to the directory; the run's invariants are used through
  `CommandsKeepTheRun`, which says that the commands implement the run.

* `ExperimentProofs`. For every set of parameters, constraints, objectives and
  metrics, and every number of rounds: `NothingAcceptedIsUnusable`,
  `NeverRanksDominatedAhead`, `ProposesNeighborsOnly` and `StepsRefine`, from
  `IInv`: what has been accepted satisfies the loader's rules (`Loaded`), the two
  results compared are as good as was said (`Compared`), and a walk is always at a
  point within the bounds, up to the rounding of a float (`Walking`). The last is
  what makes the search's properties hold in later rounds: a center is an
  earlier proposal, not the baseline.
  The scores are sums over sets. `SumIs`, `AddsStep` and `SumMonotone` say what they
  compute, with which a result that is better in each term has no more
  violation and no less of the objective (`ScoreMonotone`), and the weights bound the
  score. For the search, `RoundNearest` is Python's rounding, `Powers` and
  `DeltaFacts` say that steps are monotone in the round and that an integer's is at
  least 1, and `ProposalsFacts` that a round's list has the moves within bounds,
  each once.
  The library's induction theorems take an operator, which no prover here can
  instantiate. `Induct` and `SubsetInduct` say the same of a set: of numbers,
  which has 0 and with each number the next; or of subsets of a finite set. They
  rest on the fact that < is well-founded on the naturals, and the set is
  defined from what is to be proved.
  Of the pinning, for any contents, candidates and number of edits: `PinningHolds`,
  from what the snapshot, its digest and what each evaluator has loaded are as long as
  nobody edited the snapshot (`PinInv`).
  `NeverMixesScenarios`: `MixInv` says that before its first edit the snapshot is
  what was pinned, and that an edit after pinning makes it differ for good, so that an
  evaluator that has loaded other scenarios and is about to hash finds a digest that
  differs too. A second edit, which could put the old content back, is excluded by
  the property itself.

* `ImageAggregatorProofs`: `ShownFrameWhole` and `AssemblyAhead` for the handler
  against any packet sequence. `HostInv` says that an assembly has chunks of one
  frame only, at indices below its count. `PipelineImplementsHost` shows that
  the whole `ImagePipeline`, with its agent, restarts and network, implements that
  specification (`HostSpec`), so both properties hold of it for all bounds.
  The rest is about that pipeline, from `NetworkAssumption`
  (delays below the stale age and, in order, below the assembly timeout),
  `FrameAssumption` (only a last chunk makes a frame too big, and what the end of a
  frame tells about JPEG) and `NoStateAssumption`. `StateInv` has the types and says
  that what the host holds is of sessions there have been.
  `DisplayNeverBackwards`: with one session `SoloInv` compares time stamps with frame ids
  and times of sending with the time of receipt, so that no chunk of an older
  frame can arrive once the display is stale; with a network that keeps order,
  `OrderInv` says that the chunks pending come in the order of sending, without
  gaps, and that whatever the host holds came before them (`Past`).
  `FirstSessionNeverTorn`: `FirstInv` says that of a frame of the first session that
  has arrived in part the assembly holds exactly that part, and that the rest
  arrives before it expires. `AlwaysShownInTime` is about the one step
  that publishes.
  `DisplayAlwaysFollows`: `FollowInv` relates what the host holds to the time the
  session began. What it shows and assembles is behind all that is pending of this
  session, or dates from when chunks of older sessions could still arrive
  (`FollowAhead`); by the time a frame is settled the latter is stale or
  expired (`FollowTime`), so its first chunk finds a new assembly (`FollowOffer`),
  which then holds exactly the chunks so far, in time for the rest (`FollowPart`),
  and the last one shows it (`FollowShown`).
* `ImageStreamProofs`: the type invariant, `NoLostWakeup` and `NeverWaitsBehind`.
  The inductive invariant adds that the version counts the images and no thread
  remembers a later one (`Bounded`), that an image being written is the one of the
  version remembered (`VersionMatchesFrame`), and that, except while it writes, a
  thread has sent what it remembers (`Remembered`).
* `StatusBoardProofs`: `RatesExact`, `LevelTruthful`, `FullTableServes` and
  `EventsNeverGoBack`, the safety half of `EventsKeepUp`. The heart of `BoardInv` is
  `CountInv`: for every time from the start of a meter's window on, the
  samples kept from then on are those received from then on. It quantifies over the
  time because the clock was read before the lock was taken: a trim with an old clock
  drops less, never more, than one with the newest. A snapshot that
  fails midway has trimmed the meters of any subset of the UAVs. `StatusInv` says that a
  status is dated by the latest packet received, `ShownInv` that no client was shown a newer
  one than is known.

* `UdpListenerProofs`: `StopsCleanly`. `ListenerInv` says for each listener where
  its thread can be given where `main` and `stop` are (`MainInv`, `SocketOf`): a
  socket is left open by `stop` only if the thread had not stored it yet, and then
  the thread is before its first look at the stop event, or at its end, having
  received nothing.

* `DataScriptsProofs`. Pose lookup: `nearest_pose_index` returns a nearest pose for
  every ascending sequence of stamps (`NearestIsNearest`; the bisection point is a
  least element, as < is well-founded), interpolation has a neighbour on each
  side and a positive time between them, and the distance the script compares with
  its limit is the least one.
  Poses: `PoseInv` and `PoseRows` say in which order runs replace the two files,
  whose the final files are, what a run without `--overwrite` may find, and that a
  run that writes has the samples of its window.
  Inspection: `TopicsInv` relates the rows written and the unreadable bags to the
  batch done so far.
  Grid: `GridInv` says that there is a set of kept frames (all good ones read, or all
  but the one at which the limit ended the loop) of which the cells, the counters and
  the previews are: one preview per multiple of the preview stride, each with the
  cells of the one before. That the image has a pixel of its own for every cell
  follows from how it is rendered. This needs lemmas on division, finite images and
  extremes.
  Frames: `FramesAlwaysTruthful`. A sequence is `Ordered` of a set if it lists the
  set in ascending order; there is only one (`OrderedUnique`), so it is enough
  to show of both sides of an equation what they list. A reader gives all messages in
  order, also from several files one after the other (`FlattenOrdered`, by
  induction over the files). `FrameInv` says, while the bag is read, that the rest
  of it comes in order and behind what has been read (`FrameOrder`), and that
  `seen` and `frames` are the count and every n-th of the messages read that lie in
  the window (`FrameCount`). So the first message behind the window and the message
  at which the limit is reached both end the loop with what was asked for
  (`AskedOfAll`, `AskedAtLimit`). The frames of a whole bag are every n-th of the
  reader's, which is what the frame rate is estimated from (`FramesRated`). The
  types and the limit hold whatever the order of the names.
  Videos: `BatchInv`. The key is `BatchAlone`: a busy run, or an ffmpeg that
  survived a kill, is alone, so that the staging name is free when ffmpeg
  opens it. The jobs of a run have distinct outputs (`BatchPlan`), staged and final
  files are whole unless their run works on them or was killed (`BatchStaged`;
  `BatchFinal`: final ones always), the manifest has the rows collected
  (`BatchRows`, `BatchManifest`), and the early
  check of `--overwrite` still holds at the replacement (`BatchFree`).
  The six theorems on `DataScripts` join these: a step of one script leaves the
  others idle.

Left to TLC, and why: liveness, with fairness and ENABLED, which the provers do not
cover: `CommandsReturn`, `LatestReachesClients`, `LeftStreamsEnd`, the parts of
`EventsKeepUp` other than its safety half, `StoppedListenersEnd`,
`PacketsReachAggregator`, and `CardFollowsHost` with its safety half, since `WebCard`
has no proofs. TLC finds the two violations;
nothing is proved about them.

## 5. Not modelled

* HTTP routing, static files, headers and single responses: a request reads one
  snapshot and writes it, there is no state between requests.
* Byte layouts, checksums, id syntax, CDR and point-cloud decoding: what they
  accept is a choice, what they refuse is an error at the place of the code.
* The formulas of the synthetic evaluator's `evaluate`: numbers in, numbers out,
  clamped to the domains that the controller checks again. Its result is any score.
* The guard of `decode_status` against deeply nested JSON, and the decoding itself: a
  status packet is decoded or it is not, and what was decoded can or cannot be given
  as a snapshot later.
* A card in the page once the host no longer lists its UAV, which keeps its last
  state: nothing in the repository says what it should show.
* Quaternions and projection in the occupancy-grid script: floating-point numerics
  of a single frame. A frame is the set of cells it hits.
* Field names, string patterns and size limits in `load_config`, the sanitising of
  logs and the environment of the evaluator: no later step depends on them.
* The mock sender's status contents, topic classification, formatting, markup and
  styles; schemas, examples and skills: data without behaviour.
* Several host processes, several exports to one pose file at once and overlapping
  batches: nothing in the repository promises that they work. (With overlapping
  batches one can unlink or install the other's staging file, whose name is fixed.)
* The frame id 0, which the stale check treats as no frame: the repository's sender
  starts at 1, so the models do too.

## 6. Plan

Done: every component with state of its own has a module; all invariants and
action properties that the passing runs check are proved for every value of the
constants;
`TuningRun` implements `BestSoFar`, and the pipeline implements `HostSpec`, as
theorems. Worth doing next:

1. `TuningRun` with the neighbourhoods of `CoordinateSearch` for any accepted
   experiment, as a theorem: what `ExperimentProofs` shows of `Proposals` is what
   `TuningProofs` assumes of `Neighborhood`.
2. One composition of `StatusBoard` and `ImageAggregator`, in which the same packet
   counts in a rate and changes the image.
