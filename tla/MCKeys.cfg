CONSTANTS
    Client = {c1, c2}
    Contents = {1, 2}
    Large = {2}
    MaxSalts = 2
    Key <- SmallKeys
    Nothing = Nothing
    Honours <- AllHonoured
    MaxRetries = 1
    Parts = 2
    PageSize = 1
    MaxUploads = 4
    Budgets <- PassBudgets
SPECIFICATION Spec
SYMMETRY Alike
INVARIANTS StoredIsThere NoStray ListWhole Readable
PROPERTIES SaltChosenOnce
CHECK_DEADLOCK FALSE
