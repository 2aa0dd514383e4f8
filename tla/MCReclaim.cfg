CONSTANTS
    Device = {1, 2}
    Sweeper = {1}
    Object = {1, 2}
    Keep = 1
    Grace = 2
    MaxMarked = 1
    MaxNow = 2
    Conditional = TRUE
    Budgets <- SafeBudgets
    Unmarked = Unmarked
    Nothing = Nothing
SPECIFICATION Spec
INVARIANTS Fetchable LoserFindsOut
CHECK_DEADLOCK FALSE
