SPECIFICATION Spec
CONSTANTS
    DayLen = 3
    FirstBy = 0
    LastBy = 2
    MaxGap = 1
    Heartbeat = 2
    WindowSizes = {1, 2}
    Usages <- IdleOrBusy
    MaxMilli = 1
    MaxUp = 6
    MaxUpsets = 2
    MaxBack = 1
INVARIANTS TypeOK CoverageSound PeakFaithful LossBounded
CHECK_DEADLOCK FALSE
