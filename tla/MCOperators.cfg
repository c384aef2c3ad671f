SPECIFICATION OperatorsSpec
CONSTANTS
    s1 = s1
    s2 = s2
    op = op
    sink = sink
    None = None
    CheckpointIds = {1, 2}
    Sources = {s1, s2}
    Ops = {op}
    Sinks = {sink}
    Upstream <- Fork
    ExactlyOnce = TRUE
    BufferLength = 8
    MaxEvents = 0
    CanStop = FALSE
    Outputs = {"p", "q"}
    NoOutput = "none"
    OutLength = 2
    MaxSent = 3
    NumWorkers = 2
    InputLength = 2
    NoItem = NoItem
    MaxItems = 3
    Kinds = {"tumbling", "hopping", "sliding", "delayed", "session"}
    Emitters = {"x", "y"}
    Triggering = {"x"}
    Length = 2
    Hop = 1
    Timeout = 2
    Delay = 1
    LateTol = 0
    MaxTime = 4
    MaxRead = 3
    MaxCrashes = 1
INVARIANTS WorkersSound EventWindowSound
PROPERTIES OutputSound NodesGoOn ReachesEveryTask
CHECK_DEADLOCK FALSE
