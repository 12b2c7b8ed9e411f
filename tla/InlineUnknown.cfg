CONSTANTS
    b1 = b1
    s1 = s1  w1 = w1  
    Bot = {b1}
    Signal = {s1}
    Worker = {w1}
    BotOf <- OneBot
    NoMsg = NoMsg
    NoSignal = NoSignal
    Timely = TRUE
    OpaqueAnswers = TRUE
    AuditFailClosed = TRUE
    ScanEnabled = TRUE
    MaxFailures = 2
    MaxCap = 1
    Buy = {s1}
    MaxCopies = 1
    MaxCrashes = 0
    MaxDbErrors = 0
    MaxOps = 0
SPECIFICATION Spec
INVARIANT UnknownIsTracked
CHECK_DEADLOCK FALSE
