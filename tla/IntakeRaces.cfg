CONSTANTS
    s1 = s1  d1 = d1  d2 = d2  k1 = k1  k2 = k2
    Signal = {s1}
    Delivery = {d1,d2}
    Sweep = {k1,k2}
    NoSignal = NoSignal
    MaxAttempts = 2
    Batch = 1
    Prompt = FALSE
    MaxCrashes = 1
    MaxDbErrors = 1
SPECIFICATION FairSpec
INVARIANTS
    QueuedMeansSent
    OkMeansSent
    SendsAreCounted
PROPERTIES
    NoSilentLoss
