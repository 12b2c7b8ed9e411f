CONSTANTS
    b1 = b1  c1 = c1  c2 = c2  r1 = r1  a1 = a1  w1 = w1
    Bot = {b1}
    Cred = {c1,c2}
    BotOf <- OneBot
    Req = {r1}
    Arm = {a1}
    Worker = {w1}
    NoCred = NoCred
    NoReq = NoReq
    MaxAttempts = 2
    MaxFaults = 1
    MaxOps = 1
SPECIFICATION FairSpec
INVARIANTS ArmedWasProven InvalidIsDeserved
PROPERTIES Settles NotStranded
CHECK_DEADLOCK FALSE
