SPECIFICATION Spec
CONSTANTS
    Quotas <- TwoQuotas
    Dir <- OwnDirs
    Docs <- OwnFiles
    Objects <- OwnObjects
    Targets = {1}
    PerPage = 1
    Before <- OldShrink
    MaxPR = 3
    MaxBranches = 3
    MaxActs = 2
    MaxFaults = 1
INVARIANTS TypeOK OwnDocument NothingMissed OwnFirst NeverTakenForGrow
PROPERTIES NoLostEdit
