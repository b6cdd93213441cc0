SPECIFICATION Spec
CONSTANTS
    api = api
    db = db
    batch = batch
    train = train
    Workloads = {train}
    Kind <- MCKind
    Name <- MCName
    Template <- MCTemplate
    Resources <- GpuOnly
    InitialHard <- GpuHard
    Headroom <- MCHeadroom
    MinLimit <- NoMinimum
    Granule <- FineGranule
    Tolerance = 15
    MaxShrinkStep = 25
    MaxInt = 10000
    Build <- Amd64
    Sizes <- ScaledTo
    MaxMoves = 2
    MaxFaults = 0
PROPERTIES BlockedGetsIn
CHECK_DEADLOCK FALSE
