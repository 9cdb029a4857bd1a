\* Two handlers, a weekly and a monthly window, a month that ends, and its close.
CONSTANTS
    None = None  c1 = c1  h1 = h1  h2 = h2
    Customers <- OneCustomer
    Handlers <- TwoHandlers
    PeriodDays = 2
    MaxDay = 3
    WeekDays = 2
    MonthDays = 3
    WeeklyCap = 2
    MonthlyCap = 2
    Units = 2
    EstimatedUnit = 1
    GenCosts <- OneCent
    JudgeCosts <- OneCent
    MaxRuns = 2
    RunRetries = 1
    RawFallback = FALSE
    PerJobCache = TRUE
    Scopes <- SmallScope
    CloseRetries = 1
    MaxFaults = 1
SYMMETRY HandlerSymmetry
SPECIFICATION Spec
INVARIANTS OvershootIsBounded SamplesAreDistinct InvoiceMatchesLedger LinesExplainTotal
CHECK_DEADLOCK FALSE
