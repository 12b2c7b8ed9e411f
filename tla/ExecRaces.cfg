CONSTANTS
    b1 = b1
    Signal = {s1,s2,s3}
    Bot = {b1}
    BotOf <- OneBot
    Worker = {w1,w2}
    Owner = {o1}
    NoSignal = NoSignal
    MaxAttempts = 2
    DailyCap = 1
    VenueDedups = FALSE
    MaxFaults = 1
    MaxActs = 2
SPECIFICATION Spec
SYMMETRY Interchangeable
CHECK_DEADLOCK FALSE
INVARIANTS
    DoneIsDecided
    SendsAreClaimed
    CapOvershootIsBounded
    HaltedIsNotSent
PROPERTIES
    DecisionsStand
