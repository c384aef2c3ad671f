SPECIFICATION SharedSpec
CONSTANTS
    SubRules = {"r1", "r2"}
    MaxTopos = 2
    MaxSubs = 3
    Clients = {"c1", "c2"}
    NoClient = "none"
    MaxFetches = 2
    MaxMetas = 2
    MaxRetries = 1
    Topics = {"a"}
    PlainTopic = "a"
    Readers = {"s1"}
    Keys = {"k1"}
    MaxRuns = 2
    MaxSinks = 1
    MaxTables = 2
    MaxUsers = 2
INVARIANTS SharedStreamSound ConnectionsSound TopicsSound
PROPERTIES WaitEnds
CHECK_DEADLOCK FALSE
