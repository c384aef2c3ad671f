SPECIFICATION NodesSpec
CONSTANTS
    Nothing = Nothing
    BufferPageSize = 1
    MaxDiskPage = 2
    CleanCacheAtStop = TRUE
    MaxItems = 7
    MaxStarts = 2
    CanCrash = TRUE
    MemoryCacheThreshold = 1
    MaxControls = 1
    Expire = 3
    Spans <- SomeSpans
    Nows = {2, 5}
    MaxRows = 3
    RollingCount = 2
    RollingInterval = 1
    MaxCollects = 5
    MaxClock = 5
INVARIANTS CacheOpSound DedupSound FilesSound
PROPERTIES NothingKeptForEver
CHECK_DEADLOCK FALSE
