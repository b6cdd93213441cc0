SPECIFICATION Spec
CONSTANTS
    Resources <- FineOnly
    Headroom <- MCHeadroom
    MinLimit <- NoMinimum
    Granule <- MCGranule
    Tolerance = 15
    MaxShrinkStep = 25
    MaxInt = 1000
    Limits = {4}
    Usages = {0}
    Peaks = {0}
    Deficits = {0, 3}
    MaxMoves = 1
INVARIANT ShortageTriggersGrow
CHECK_DEADLOCK FALSE
