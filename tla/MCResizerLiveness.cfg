SPECIFICATION FairSpec
CONSTANTS
    Quotas <- OneQuota
    GrowCooldown = 0
    ShrinkCooldown = 0
    ShrinkPRTTL = 0
    WindowSpan = 1
    ShrinkEnabled = TRUE
    EnableAutoMerge = TRUE
    MaxPR = 1
    MaxTime = 2
    MaxFaults = 2
    KeepHistory = FALSE
INVARIANTS
    ShrinkNeverAutoMerged
PROPERTIES
    LockReleased
    ShortageSupersedesShrink
    ShrinkLockExpires
    LeaseCollected
