SPECIFICATION Spec
CONSTANTS
    Resources <- FineAndCoarse
    Headroom <- MCHeadroom
    MinLimit <- MCMinLimit
    Granule <- MCGranule
    Tolerance = 15
    MaxShrinkStep = 25
    MaxInt = 1000
    Limits = {24}
    Usages = {0, 13}
    Peaks = {0, 19}
    Deficits = {0, 14}
    MaxMoves = 2
INVARIANTS TypeOK NoFlapping ShortageTriggersGrow
PROPERTIES HardFloor MergesEnd
CHECK_DEADLOCK FALSE
