\* Two dispatchers whose counter rows exist and who finish before midnight.
CONSTANTS
    c1 = c1  c2 = c2  d1 = d1  d2 = d2
    Customers <- OneCustomer
    Generic = c1
    Dispatchers <- TwoDispatchers
    DryRunModes <- BothModes
    StartTime = 6
    MaxTime = 13
    MaxBacklog = 3
    PublishedBefore = TRUE
    SpansMidnight = FALSE
    MaxPerDay = 2
    MaxPerWeek = 3
    MinInterval = 2
    TicksPerDay = 3
    DaysPerWeek = 2
SYMMETRY DispatcherSymmetry
SPECIFICATION Spec
INVARIANTS CapsHold CountersMatchLedger
PROPERTIES BatchesAreSpaced
