SPECIFICATION EventSpec
CONSTANTS
    Kinds = {"tumbling"}
    Emitters = {"x", "y"}
    Triggering = {}
    Length = 2
    Hop = 1
    Timeout = 2
    Delay = 1
    LateTol = 0
    MaxTime = 3
    MaxRead = 3
    MaxCrashes = 1
INVARIANT NothingLostOnRecovery
CHECK_DEADLOCK FALSE
