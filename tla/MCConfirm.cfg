SPECIFICATION Spec
CONSTANTS
    Path = {1}
    Hash = {h1, h2}
    Device = {1, 2}
    Absent = Absent
    Tombstoned = Tombstoned
    NoManifest = NoManifest
    LineageDepth = 8
    Fold <- SameFold
    Tuning <- EagerTuning
    Keep <- KeepUneven
    Grace = 1
    Conditional = FALSE
    CaseBlind = {}
    Profile <- WholeVault
    MaxGen = 3
    MaxNow = 2
    Budgets <- BudgetConfirm
SYMMETRY Symmetric
INVARIANTS PublishedParses VersionsRetained
PROPERTIES NothingDestroyedUnseen
CHECK_DEADLOCK FALSE
