SPECIFICATION NodesSpec
CONSTANTS
    s1 = s1
    s2 = s2
    op = op
    None = None
    CheckpointIds = {1, 2}
    Sources = {s1, s2}
    Ops = {op}
    Sinks = {}
    Upstream <- Merge
    ExactlyOnce = TRUE
    BufferLength = 2
    MaxEvents = 1
    CanStop = TRUE
    RowStreams = {s1, s2}
    WinKinds = {"tumbling", "hopping", "sliding", "session", "count"}
    WinLength = 2
    HopInterval = 1
    SessionGap = 1
    WinDelay = 1
    CountLength = 2
    CountInterval = 2
    MaxWinTime = 4
    MaxRowsRead = 3
    MaxRecoveries = 1
SYMMETRY Symmetry
INVARIANTS FlowTypeOK NothingAfterBarrier TrackedHasAll WindowSound
CHECK_DEADLOCK FALSE
