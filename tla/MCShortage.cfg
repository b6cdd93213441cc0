SPECIFICATION Spec
CONSTANTS
    api = api
    db = db
    batch = batch
    train = train
    Workloads = {api, db, batch}
    Kind <- MCKind
    Name <- MCName
    Template <- MCTemplate
    Resources <- MCResources
    InitialHard <- MCHard
    Headroom <- MCHeadroom
    MinLimit <- ClaimMinimum
    Granule <- CoarseGranule
    Tolerance = 15
    MaxShrinkStep = 25
    MaxInt = 10000
    Build <- Amd64
    Sizes <- ScaledTo
    MaxMoves = 2
    MaxFaults = 1
INVARIANTS TypeOK NoRunaway BurstCovered
PROPERTIES BlockedGetsIn
CHECK_DEADLOCK FALSE
