CONSTANTS
    Run = {r1,r2}
    Pos = {p1}
    Request = {q1}
    Autorun = Autorun
    Monitor = Monitor
    Admins = {TRUE,FALSE}
    RunsPerDay = 1
    MaxActs = 1
    MaxFaults = 1
    MaxDays = 1
SPECIFICATION Spec
SYMMETRY Interchangeable
CHECK_DEADLOCK FALSE
INVARIANTS
    OneAutoRun
    RunsAreLimited
