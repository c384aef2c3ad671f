SPECIFICATION GroupSpec
CONSTANTS
    r1 = r1
    r2 = r2
    c1 = c1
    c2 = c2
    c3 = c3
    Callers = {c1, c2, c3}
    Rules = {r1, r2}
    ScheduleRules = {r2}
    Operations <- Either
    MaxCalls = 1
    MaxReports = 1
SYMMETRY Symmetry
INVARIANTS TypeOK NoStrandedAction TransientOwned Supervised ClosedOnce
