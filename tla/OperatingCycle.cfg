SPECIFICATION FairSpec
CONSTANTS
    u1 = u1
    u2 = u2
    u3 = u3
    h1 = h1
    h2 = h2
    core = core
    Units <- MCUnits
    Executors = {h1, h2}
    Answers = {"answered", "retryable", "permanent"}
    Faults <- FaultKinds
    Plans <- MCPlans
    Tiers <- MCTiers
    Slow <- MCSlow
    ResponseRetries = 1
    AggregateRetries = 1
INVARIANTS CountedOnce MeasuredUnderFrozenPlan CompletedIsComplete
PROPERTIES ImplementsMeasureOnce OnlyRetriesComeLate RunEnds
CHECK_DEADLOCK FALSE
