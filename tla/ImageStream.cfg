SPECIFICATION Spec
CONSTANTS
    Streams = {t1, t2}
    MaxImages = 3
    NoImage = NoImage
INVARIANTS
    NoLostWakeup
    NeverWaitsBehind
PROPERTIES
    LatestReachesClients
    LeftStreamsEnd
CHECK_DEADLOCK FALSE
