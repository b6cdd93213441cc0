SPECIFICATION Spec
CONSTANTS
    Quotas <- CollidingQuotas
    GrowCooldown = 1
    ShrinkCooldown = 2
    ShrinkPRTTL = 1
    WindowSpan = 1
    ShrinkEnabled = TRUE
    EnableAutoMerge = TRUE
    MaxPR = 1
    MaxTime = 1
    MaxFaults = 0
    KeepHistory = FALSE
INVARIANTS
    LockFaithful
