CONSTANTS
    Device = {1, 2}
    Sweeper = {1}
    Object = {1}
    Keep = 1
    Grace = 2
    MaxMarked = 1
    MaxNow = 2
    Conditional = TRUE
    Budgets <- UnsavedMark
    Unmarked = Unmarked
    Nothing = Nothing
SPECIFICATION Spec
INVARIANT Fetchable
CHECK_DEADLOCK FALSE
