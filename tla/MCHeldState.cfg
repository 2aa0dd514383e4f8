SPECIFICATION Spec
CONSTANTS
    Path = {1}
    Hash = {h1, h2}
    Device = {1, 2}
    Absent = Absent
    Tombstoned = Tombstoned
    NoManifest = NoManifest
    LineageDepth = 8
    Fold <- SameFold
    Tuning <- QuietTuning
    Keep <- KeepAll
    Grace = 0
    Conditional = FALSE
    CaseBlind = {}
    Profile <- WholeVault
    MaxGen = 4
    MaxNow = 0
    Budgets <- BudgetHeld
SYMMETRY Symmetric
INVARIANTS StateFileReadable
CHECK_DEADLOCK FALSE
