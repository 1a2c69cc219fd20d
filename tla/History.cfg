SPECIFICATION Spec
CONSTANTS
    DayLength = 3
    MaxRangeDays = 2
    DefaultDays = 1
    WindowSize = 2
    Delays = {0, 1, 3}
    Lateness = 1
    MaxReadings = 6
    LastDay = 3
INVARIANTS
    PageIsFaithful
    GapByMajority
CHECK_DEADLOCK FALSE
