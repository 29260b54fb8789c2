SPECIFICATION Spec
CONSTANTS
    Bags <- MCUnpadded
    Strides = {1, 2}
    Starts = {0, 1}
    Durations = {0, 4}
    Limits = {0, 1}
    SampleSize = 2
    MaxBad = 0
INVARIANTS
    FramesExact
CHECK_DEADLOCK FALSE
