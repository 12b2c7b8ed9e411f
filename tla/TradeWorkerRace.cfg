CONSTANTS
    b1 = b1
    s1 = s1  w1 = w1  w2 = w2  
    Bot = {b1}
    Signal = {s1}
    Worker = {w1,w2}
    BotOf <- OneBot
    NoMsg = NoMsg
    NoSignal = NoSignal
    Timely = FALSE
    OpaqueAnswers = FALSE
    AuditFailClosed = TRUE
    ScanEnabled = FALSE
    MaxFailures = 2
    MaxCap = 1
    Buy = {s1}
    MaxCopies = 1
    MaxCrashes = 0
    MaxDbErrors = 1
    MaxOps = 1
SPECIFICATION Spec
INVARIANTS AtMostOneOrder OrderIsReserved OrderIsApproved
SYMMETRY Workers
CHECK_DEADLOCK FALSE
