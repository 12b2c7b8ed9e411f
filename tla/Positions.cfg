CONSTANTS
    Signal = {s1,s2}
    Call = {c1,c2}
    Host = {h1,h2}
    Configs <- SomeConfigs
    Prices = {1,2}
    Funds = {8,15}
    Holdings = {0,5}
    Step = 2
    MinQty = 2
    MinNotional = 4
SPECIFICATION Spec
SYMMETRY Interchangeable
CHECK_DEADLOCK FALSE
INVARIANTS
    SizedRight
    ReservedIsCapped
    FlattenLeavesDust
