SPECIFICATION FairSpec
CONSTANTS
    s1 = s1
    s2 = s2
    op = op
    sink = sink
    None = None
    CheckpointIds = {1, 2}
    Sources = {s1}
    Ops = {}
    Sinks = {sink}
    Upstream <- Line
    ExactlyOnce = FALSE
    BufferLength = 8
    MaxSaved = 1
    CleanThreshold = 4
    MaxEvents = 0
    CanStop = TRUE
    CanFail = TRUE
PROPERTIES AcksArrive ForcedSaveEnds ImplementsFlow
CHECK_DEADLOCK FALSE
