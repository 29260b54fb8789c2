SPECIFICATION Spec
CONSTANTS
    Uavs = {u1, u2}
    Expected = {}
    MaxTracked = 1
    Streams = {s1}
    Window = 1
    WarnAge = 1
    ErrorAge = 2
    MaxClock = 3
    MaxPackets = 3
    None = None
INVARIANTS
    RatesExact
    LevelTruthful
PROPERTIES
    FullTableServes
    EventsKeepUp
CHECK_DEADLOCK FALSE
