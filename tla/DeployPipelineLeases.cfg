\* Redelivered jobs and lost enqueues: every lease and every claim is settled, and an
\* approved row is tried until it is.
CONSTANTS
    a1 = a1  w1 = w1  w2 = w2  d1 = d1   j1 = j1  j2 = j2 
    Assets <- OneAsset
    Workers <- TwoWorkers
    Dispatchers <- OneDispatcher
    JobIds <- TwoJobs
    RetryLimit = 1
    DryRunModes <- RealOnly
    Outcomes <- AcceptOrRetry
    Faults <- Unreliable
    LeaseOutlivesJob = FALSE
SPECIFICATION FairSpec
INVARIANTS NoOrphanClaim CallIsAuthorised
PROPERTIES LeaseReleased ApprovedRowIsTried
