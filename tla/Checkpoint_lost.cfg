SPECIFICATION Spec
CONSTANTS
    s1 = s1
    s2 = s2
    op = op
    sink = sink
    None = None
    CheckpointIds = {1}
    Sources = {s1}
    Ops = {}
    Sinks = {sink}
    Upstream <- Line
    ExactlyOnce = FALSE
    BufferLength = 8
    MaxSaved = 3
    CleanThreshold = 4
    MaxEvents = 1
    CanStop = FALSE
    CanFail = FALSE
INVARIANT NothingLost
CHECK_DEADLOCK FALSE
