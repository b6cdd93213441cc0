SPECIFICATION Spec
CONSTANTS
    Quotas <- TwoQuotas
    Dir <- SharedDirs
    Docs <- SharedFile
    Objects <- SharedObjects
    Targets = {1}
    PerPage = 1
    Before <- OldShrink
    MaxPR = 3
    MaxBranches = 3
    MaxActs = 2
    MaxFaults = 1
INVARIANT OwnDocument
