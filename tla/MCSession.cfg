CONSTANTS
    Attempt = {1, 2}
    Nobody = Nobody
    Budgets <- PassBudgets
SPECIFICATION Spec
INVARIANTS OneEngine EngineOnShown UnloadedStays NothingUncheckedPublished
PROPERTIES NoBlindProfile EndedStops EditSynced
CHECK_DEADLOCK FALSE
