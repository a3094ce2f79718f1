\* Two alarms, GUI and REST at work, timers up to one instant early or late.
SPECIFICATION FairSpec
CONSTANTS
    SlotsPerDay = 2
    Id = {a1, a2}
    None = None
    Times = {0, 1}
    Periods = {"daily", "weekend", "workdays"}
    DefaultTime = 1
    EarlyBy = 1
    LateBy = 1
    MaxQueued = 1
    Actors = {"gui", "rest"}
INVARIANTS
    TypeOK
    NextInstanceIsFirstDue
    TimerPointsAtDue
    TimerCoversStore
PROPERTIES
    LoneAlarmKeepsRinging
