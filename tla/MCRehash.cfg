CONSTANTS
    Content = {1, 2}
    Length <- Lengths
    Granularity = 2
    Second = 2
    MaxNow = 2
    Budgets <- Rehash
    Nothing = Nothing
SPECIFICATION Spec
PROPERTIES RehashKeepsBase
CHECK_DEADLOCK FALSE
