SPECIFICATION Spec
CONSTANTS
    SlotsPerDay = 2
    Id = {a1, a2}
    None = None
    Times = {0, 1}
    Periods = {"daily"}
    DefaultTime = 1
    EarlyBy = 0
    LateBy = 1
    MaxQueued = 0
    Actors = {"gui"}
INVARIANTS
    LoneDueAlarmIsDispatched
