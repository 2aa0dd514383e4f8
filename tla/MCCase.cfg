SPECIFICATION Spec
CONSTANTS
    Path = {1, 2}
    Hash = {h1, h2}
    Device = {1, 2}
    Absent = Absent
    Tombstoned = Tombstoned
    NoManifest = NoManifest
    LineageDepth = 8
    Fold <- OneFold
    Tuning <- QuietTuning
    Keep <- KeepAll
    Grace = 0
    Conditional = FALSE
    CaseBlind = {2}
    Profile <- WholeVault
    MaxGen = 3
    MaxNow = 0
    Budgets <- Quiet
SYMMETRY Symmetric
INVARIANTS TombstonesAreDeletions
CHECK_DEADLOCK FALSE
