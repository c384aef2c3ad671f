SPECIFICATION ServerSpec
CONSTANTS
    None = None
    Callers = {"c1", "c2"}
    Methods <- AllMethods
    MaxCalls = 1
    MaxVersion = 1
    MaxEnds = 1
    PluginRules = {"r1"}
    PluginApi = "api"
    Nobody = "none"
    MaxProcesses = 3
    MaxUses = 3
    MaxKills = 1
    TableRules = {"r1"}
    TableCallers = {"c1", "c2"}
    MaxLookups = 3
    MaxRestarts = 1
    Tasks = {"t1", "t2"}
    MaxCrashes = 1
    RuleOptions <- SomeOptions
    MaxNow = 5
    MaxUserCalls = 2
INVARIANTS PluginSound TablesSound
PROPERTIES RegistrySound TasksSound ScheduleSound EveryMethodReturns
CHECK_DEADLOCK FALSE
