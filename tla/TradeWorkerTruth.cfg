CONSTANTS
    b1 = b1
    s1 = s1  s2 = s2  w1 = w1  
    Bot = {b1}
    Signal = {s1,s2}
    Worker = {w1}
    BotOf <- OneBot
    NoMsg = NoMsg
    NoSignal = NoSignal
    Timely = TRUE
    OpaqueAnswers = FALSE
    AuditFailClosed = TRUE
    ScanEnabled = TRUE
    MaxFailures = 2
    MaxCap = 2
    Buy = {s1,s2}
    MaxCopies = 1
    MaxCrashes = 1
    MaxDbErrors = 0
    MaxOps = 0
SPECIFICATION Spec
INVARIANTS UnknownIsTracked CapIsKept ResolvedJobHasTerminalTrade RefusalsAreLettered
PROPERTY NoOrderWhileUnknown
CHECK_DEADLOCK FALSE
