SPECIFICATION Spec
CONSTANTS
    Quotas <- OneQuota
    GrowCooldown = 1
    ShrinkCooldown = 2
    ShrinkPRTTL = 1
    WindowSpan = 1
    ShrinkEnabled = TRUE
    EnableAutoMerge = TRUE
    MaxPR = 2
    MaxTime = 3
    MaxFaults = 1
    KeepHistory = TRUE
INVARIANTS
    TypeOK
    ShrinkNeverAutoMerged
    OneOpenPR
    LockFaithful
PROPERTIES
    ShrinkSpacing
    GrowSpacing
    ImplementsLifecycle
