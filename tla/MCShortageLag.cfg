SPECIFICATION Spec
CONSTANTS
    api = api
    db = db
    batch = batch
    train = train
    Workloads = {api, db}
    Kind <- MCKind
    Name <- MCName
    Template <- MCTemplate
    Resources <- MCResources
    InitialHard <- MCHard
    Headroom <- MCHeadroom
    MinLimit <- NoMinimum
    Granule <- CoarseGranule
    Tolerance = 15
    MaxShrinkStep = 25
    MaxInt = 10000
    Build <- Amd64
    Sizes <- ScaledTo
    MaxMoves = 2
    MaxFaults = 0
PROPERTIES GrowNeverLowers
CHECK_DEADLOCK FALSE
