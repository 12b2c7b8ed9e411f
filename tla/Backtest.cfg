CONSTANTS
    Configs <- SomeConfigs
    Candles <- SomeCandles
    Sizes = {1}
    Capital = 100000
    Share = 10
    WindowEnd = 2
    LastBar = 4
SPECIFICATION Spec
CHECK_DEADLOCK FALSE
INVARIANTS
    BooksBalance
    NeverTooMany
    FillsAreTradable
    PeakCountsEveryTrade
    EnginesAgree
