CONSTANTS
    Run = {r1}
    Pos = {p1,p2}
    Request = {q1}
    Autorun = Autorun
    Monitor = Monitor
    Admins = {FALSE}
    RunsPerDay = 1
    MaxActs = 2
    MaxFaults = 1
    MaxDays = 0
SPECIFICATION FairSpec
CHECK_DEADLOCK FALSE
INVARIANTS
    StoppedIsDrained
    RunningHolds
    PendingIsLive
PROPERTIES
    StopFires
