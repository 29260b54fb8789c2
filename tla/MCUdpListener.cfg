SPECIFICATION Spec
CONSTANTS
    Listeners <- MCListeners
    MaxPackets = 2
INVARIANTS
    StopsCleanly
PROPERTIES
    StoppedListenersEnd
    PacketsReachAggregator
CHECK_DEADLOCK FALSE
