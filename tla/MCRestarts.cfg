SPECIFICATION Spec
CONSTANTS
    Path = {1}
    Hash = {h1, h2}
    Device = {1, 2}
    Absent = Absent
    Tombstoned = Tombstoned
    NoManifest = NoManifest
    LineageDepth = 8
    Fold <- SameFold
    Tuning <- QuietTuning
    Keep <- KeepAll
    Grace = 0
    Conditional = FALSE
    CaseBlind = {}
    Profile <- TwoProfiles
    MaxGen = 4
    MaxNow = 0
    Budgets <- BudgetRestarts
SYMMETRY Symmetric
INVARIANTS TypeOK NoEditLost TombstonesAreDeletions BaseWasHeld VersionsRetained
PROPERTIES BaseNeverGoesBack
CHECK_DEADLOCK FALSE
