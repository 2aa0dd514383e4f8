CONSTANTS
    Content = {1, 2, 3}
    Length <- Lengths
    Granularity = 2
    Second = 2
    MaxNow = 4
    Budgets <- Saves
    Nothing = Nothing
SPECIFICATION Spec
INVARIANTS StaleWithinATick
PROPERTIES OnlyKnownBytesReplaced
CHECK_DEADLOCK FALSE
