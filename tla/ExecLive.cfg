CONSTANTS
    b1 = b1
    Signal = {s1,s2}
    Bot = {b1}
    BotOf <- OneBot
    Worker = {w1,w2}
    Owner = {o1}
    NoSignal = NoSignal
    MaxAttempts = 2
    DailyCap = 1
    VenueDedups = TRUE
    MaxFaults = 1
    MaxActs = 1
SPECIFICATION FairSpec
CHECK_DEADLOCK FALSE
PROPERTIES
    ItemsEnd
