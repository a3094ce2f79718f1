SPECIFICATION FairSpec
CONSTANTS
    SlotsPerDay = 2
    Id = {a1}
    None = None
    Times = {0, 1}
    Periods = {"daily", "weekend", "workdays"}
    DefaultTime = 1
    EarlyBy = 1
    LateBy = 1
    MaxQueued = 0
    Actors = {"gui", "file", "clock"}
PROPERTIES
    TimerHeals
