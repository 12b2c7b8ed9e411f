CONSTANTS
    b1 = b1
    s1 = s1  w1 = w1  
    Bot = {b1}
    Signal = {s1}
    Worker = {w1}
    BotOf <- OneBot
    NoMsg = NoMsg
    NoSignal = NoSignal
    Timely = TRUE
    OpaqueAnswers = TRUE
    AuditFailClosed = FALSE
    ScanEnabled = TRUE
    MaxFailures = 2
    MaxCap = 1
    Buy = {}
    MaxCopies = 2
    MaxCrashes = 1
    MaxDbErrors = 1
    MaxOps = 1
SPECIFICATION FairSpec
INVARIANTS NoHiddenPosition
PROPERTIES StuckResolves KeepsLedger
CHECK_DEADLOCK FALSE
