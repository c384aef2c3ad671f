SPECIFICATION StoresSpec
CONSTANTS
    s1 = s1
    s2 = s2
    op = op
    sink = sink
    None = None
    CheckpointIds = {1, 2, 3}
    Sources = {s1}
    Ops = {}
    Sinks = {sink}
    Upstream <- Line
    ExactlyOnce = FALSE
    BufferLength = 8
    MaxSaved = 2
    CleanThreshold = 3
    MaxEvents = 0
    CanStop = FALSE
    CanFail = FALSE
    Nothing = Nothing
    BufferPageSize = 2
    MaxDiskPage = 2
    CleanCacheAtStop = FALSE
    MaxItems = 9
    MaxStarts = 3
    CanCrash = TRUE
    From = "L"
    JoinQueries <- SomeQueries
    WindowContents <- SomeContents
    Operators = {"OR", "AND", "=", "IN", "LIKE", "BETWEEN", "+", "*", "[]", "->"}
    MaxOperators = 3
    Evaluated <- SomeExpressions
    NoValue = NoValue
    IntBits = 3
    BatchSize = 2
    PathLength = 2
    BatchEnd = BatchEnd
    Eof = Eof
    MaxInputs = 3
INVARIANTS CheckpointsSound DiskCacheSound JoinSound ExpressionsSound PathSound
PROPERTIES CacheIsQueue
CHECK_DEADLOCK FALSE
