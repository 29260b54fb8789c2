SPECIFICATION Spec
CONSTANTS
    Idle = Idle
    Prior = Prior
    Torn = Torn
    Nothing = Nothing
    Exports = 2
    Trajectories <- MCTrajectories
    TrajectoryStarts = {1, 2}
    TrajectoryLengths = {0, 1}
    Inspected = {"a", "b", "c"}
    MaxInspections = 3
    Recordings <- MCRecordings
    FrameStrides = {1, 2, 3}
    FrameStarts = {0, 1, 3}
    FrameDurations = {0, 1, 3}
    FrameLimits = {0, 1, 2}
    SampleSize = 2
    MaxBad = 2
    PoseStamps <- MCPoseStamps
    LidarStamps = {0, 2, 3, 5}
    CellSets <- MCCellSets
    LidarStrides = {1, 2}
    LidarLimits = {0, 1, 2}
    Previews = {0, 1, 2}
    MaxPoseDelta = 1
    MaxCells = 4
    MaxSide = 3
    MaxMessages = 3
    VideoRuns = {"r1", "r2"}
    VideoBags = {"a", "b", "c"}
    VideoBatches <- MCVideoBatches
    VideoOf <- MCVideoOf
INVARIANTS
    PosesTruthful
    FramesTruthful
    GridTruthful
    InspectionTruthful
    VideosTruthful
PROPERTIES
    OverwriteRespected
CHECK_DEADLOCK FALSE
