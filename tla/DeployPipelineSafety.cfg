\* One asset, and every way its jobs, leases and claims can race.
CONSTANTS
    a1 = a1  w1 = w1  w2 = w2  d1 = d1   j1 = j1  j2 = j2 
    Assets <- OneAsset
    Workers <- TwoWorkers
    Dispatchers <- OneDispatcher
    JobIds <- TwoJobs
    RetryLimit = 1
    DryRunModes <- BothModes
    Outcomes <- Answers
    Faults <- CrashesAndRaces
    LeaseOutlivesJob = FALSE
SYMMETRY ProcessSymmetry
SPECIFICATION Spec
INVARIANTS NoDoublePublish NoCallAfterAccept SlotExclusive PublishedRowIsBacked
PROPERTIES ImplementsPublishOnce
