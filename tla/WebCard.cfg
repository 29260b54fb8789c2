SPECIFICATION Spec
CONSTANTS
    Polls = {p1, p2}
    MaxTime = 4
    MaxQueue = 2
    MaxTimers = 2
PROPERTY
    CardFollowsHost
