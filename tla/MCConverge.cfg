SPECIFICATION TimelySpec
CONSTANTS
    Path = {1}
    Hash = {h1, h2}
    Device = {1, 2}
    Absent = Absent
    Tombstoned = Tombstoned
    NoManifest = NoManifest
    LineageDepth = 8
    Fold <- SameFold
    Tuning <- QuietTuning
    Keep <- KeepAll
    Grace = 0
    Conditional = TRUE
    CaseBlind = {}
    Profile <- WholeVault
    MaxGen = 7
    MaxNow = 0
    MaxOvertaken = 1
    Budgets <- BudgetHeld
PROPERTIES Convergence
CHECK_DEADLOCK FALSE
