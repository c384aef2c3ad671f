SPECIFICATION Spec
CONSTANTS
    r1 = r1
    r2 = r2
    c1 = c1
    c2 = c2
    c3 = c3
    Callers = {c1, c2}
    Rules = {r1}
    ScheduleRules = {}
    Operations <- Lifecycle
    MaxCalls = 2
    MaxReports = 1
SYMMETRY Symmetry
INVARIANT NoPanic
