---------------------------- MODULE DataScripts ---------------------------
(* The data scripts, each on its recordings.  A behavior is of one of them, *)
(* `script`, with all of its arguments and all bags; the state of the       *)
(* others is Idle.  (The replacement of an occupancy grid by concurrent     *)
(* runs is GridCommit.)                                                     *)
EXTENDS Integers, Sequences

CONSTANTS
    Idle, Prior, Torn, Nothing,
    Exports, Trajectories, TrajectoryStarts, TrajectoryLengths,  \* PoseExport
    Inspected, MaxInspections,                                   \* TopicInspection
    Recordings, FrameStrides, FrameStarts, FrameDurations, FrameLimits,
    SampleSize, MaxBad,                                          \* VideoFrames
    PoseStamps, LidarStamps, CellSets, LidarStrides, LidarLimits, Previews,
    MaxPoseDelta, MaxCells, MaxSide, MaxMessages,                \* LidarGrid
    VideoRuns, VideoBags, VideoBatches, VideoOf                  \* VideoBatch

VARIABLES
    script, pc,
    bag, overwrite, file, rows, inputs, everyN, maxFrames,  \* of several
    window, disk,                                           \* PoseExport
    run, target, failed, staging, output, before,           \* TopicInspection
    sqlite, bad, start, duration, files, queue, reference, seen, frames, \* VideoFrames
    poses, stride, read, used, skipped, cells, worst, last, previews, image, \* LidarGrid
    unplanned, jobs, current, fed, ffmpeg,                  \* VideoBatch
    staged, final, manifest, mixed, whole

poseVars == <<window, disk>>
topicVars == <<run, target, failed, staging, output, before>>
frameVars == <<sqlite, bad, start, duration, files, queue, reference, seen, frames>>
gridVars == <<poses, stride, read, used, skipped, cells, worst, last, previews, image>>
batchVars == <<unplanned, jobs, current, fed, ffmpeg, staged, final, manifest,
               mixed, whole>>
vars == <<script, pc, bag, overwrite, file, rows, inputs, everyN, maxFrames,
          poseVars, topicVars, frameVars, gridVars, batchVars>>

NoPose == window = Idle /\ disk = Idle
NoTopics ==
    /\ run = Idle /\ target = Idle /\ failed = Idle
    /\ staging = Idle /\ output = Idle /\ before = Idle
NoFrames ==
    /\ sqlite = Idle /\ bad = Idle /\ start = Idle /\ duration = Idle /\ files = Idle
    /\ queue = Idle /\ reference = Idle /\ seen = Idle /\ frames = Idle
NoGrid ==
    /\ poses = Idle /\ stride = Idle /\ read = Idle /\ used = Idle /\ skipped = Idle
    /\ cells = Idle /\ worst = Idle /\ last = Idle /\ previews = Idle /\ image = Idle
NoBatch ==
    /\ unplanned = Idle /\ jobs = Idle /\ current = Idle /\ fed = Idle /\ ffmpeg = Idle
    /\ staged = Idle /\ final = Idle /\ manifest = Idle /\ mixed = Idle /\ whole = Idle

----------------------------------------------------------------------------
Pose == INSTANCE PoseExport WITH
    LastRun <- Exports, Bags <- Trajectories, Starts <- TrajectoryStarts,
    Lengths <- TrajectoryLengths

Topics == INSTANCE TopicInspection WITH
    Bags <- Inspected, MaxRuns <- MaxInspections

Frames == INSTANCE VideoFrames WITH
    Bags <- Recordings, Strides <- FrameStrides, Starts <- FrameStarts,
    Durations <- FrameDurations, Limits <- FrameLimits

Grid == INSTANCE LidarGrid WITH
    Poses <- PoseStamps, Stamps <- LidarStamps, Strides <- LidarStrides,
    Limits <- LidarLimits

\* One batch after the other.
Batch == INSTANCE VideoBatch WITH
    Runs <- VideoRuns, Bags <- VideoBags, Batches <- VideoBatches,
    OutputOf <- VideoOf, Exclusive <- TRUE

ASSUME ScriptsAssumption ==
    /\ Pose!PoseAssumption /\ Topics!InspectionAssumption
    /\ Frames!FramesAssumption /\ Grid!GridAssumption /\ Batch!VideoAssumption

----------------------------------------------------------------------------
PoseInit ==
    /\ script = "pose" /\ Pose!Init
    /\ NoTopics /\ NoFrames /\ NoGrid /\ NoBatch
    /\ inputs = Idle /\ everyN = Idle /\ maxFrames = Idle

TopicsInit ==
    /\ script = "topics" /\ Topics!Init
    /\ NoPose /\ NoFrames /\ NoGrid /\ NoBatch
    /\ bag = Idle /\ file = Idle /\ everyN = Idle /\ maxFrames = Idle

FramesInit ==
    /\ script = "frames" /\ Frames!Init
    /\ NoPose /\ NoTopics /\ NoGrid /\ NoBatch
    /\ overwrite = Idle /\ file = Idle /\ rows = Idle /\ inputs = Idle

GridInit ==
    /\ script = "grid" /\ Grid!Init
    /\ NoPose /\ NoTopics /\ NoFrames /\ NoBatch
    /\ bag = Idle /\ overwrite = Idle /\ file = Idle /\ rows = Idle /\ inputs = Idle

BatchInit ==
    /\ script = "batch" /\ Batch!Init
    /\ NoPose /\ NoTopics /\ NoFrames /\ NoGrid
    /\ bag = Idle /\ everyN = Idle /\ maxFrames = Idle

Init == PoseInit \/ TopicsInit \/ FramesInit \/ GridInit \/ BatchInit

PoseNext ==
    /\ script = "pose" /\ Pose!Next
    /\ UNCHANGED <<topicVars, frameVars, gridVars, batchVars, inputs, everyN, maxFrames>>

TopicsNext ==
    /\ script = "topics" /\ Topics!Next
    /\ UNCHANGED <<poseVars, frameVars, gridVars, batchVars, bag, file, everyN, maxFrames>>

FramesNext ==
    /\ script = "frames" /\ Frames!Next
    /\ UNCHANGED <<poseVars, topicVars, gridVars, batchVars, overwrite, file, rows, inputs>>

GridNext ==
    /\ script = "grid" /\ Grid!Next
    /\ UNCHANGED <<poseVars, topicVars, frameVars, batchVars,
                   bag, overwrite, file, rows, inputs>>

BatchNext ==
    /\ script = "batch" /\ Batch!Next
    /\ UNCHANGED <<poseVars, topicVars, frameVars, gridVars, bag, everyN, maxFrames>>

Next ==
    /\ PoseNext \/ TopicsNext \/ FramesNext \/ GridNext \/ BatchNext
    /\ UNCHANGED script

Spec == Init /\ [][Next]_vars

----------------------------------------------------------------------------
\* Properties

\* extract-pose-trajectory.py: the samples are those of the window, only whole
\* files stand under the final names, and the CSV and its metadata belong
\* together unless a run was stopped between their replacements.
PosesTruthful ==
    script = "pose" => /\ Pose!TypeOK /\ Pose!WindowExact
                       /\ Pose!FinalsWhole /\ Pose!PairConsistent

\* bag-images-to-video.py: the frames of a video are exactly those that window,
\* stride and limit ask for, by definition and not by the loop that reads the
\* bag; and an export fails only on a frame it needs.  Of a bag in several files
\* this holds if they are named in the order of recording (MCVideoWindow has
\* one that is not).
FramesTruthful ==
    script = "frames" =>
        /\ Frames!TypeOK
        /\ (sqlite => Frames!NamedInOrder) => /\ Frames!FramesExact
                                              /\ Frames!FailsOnlyOnNeeded
                                              /\ Frames!RateIsOfFrames

\* livox-bag-to-occupancy-grid.py: every frame is accounted for, used if and
\* only if some pose is near enough and a point is left of it; and grid,
\* previews and image show what the used frames hit, no more and no less, in
\* the right places.
GridTruthful ==
    script = "grid" => /\ Grid!TypeOK /\ Grid!FramesAccountedFor
                       /\ Grid!GridIsUnionOfUsed /\ Grid!PreviewsGrow
                       /\ Grid!ImageShowsCells

\* inspect-bag-topics.py: the CSV is whole, and the exit code says what is in
\* it, whichever bags were unreadable and whichever runs were stopped.
InspectionTruthful ==
    script = "topics" => Topics!TypeOK /\ Topics!CsvWhole /\ Topics!ExitTellsTruth

\* bag-images-to-video.py: videos are whole under their final names and what is
\* left under the others is too, and the manifest says which job made which.
VideosTruthful ==
    script = "batch" => /\ Batch!TypeOK /\ Batch!FinalsWhole
                        /\ Batch!LeftoversWhole /\ Batch!ManifestTruthful

\* Runs that do not overlap replace the outputs of earlier ones only with
\* --overwrite, also after runs that were stopped half way.
OverwriteRespected ==
    [][/\ script = "pose" => Pose!ReplacesLawfully
       /\ script = "batch" => Batch!ReplacesLawfully]_vars
=============================================================================
