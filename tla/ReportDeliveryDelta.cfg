SPECIFICATION Spec
CONSTANTS
    p1 = p1
    p2 = p2
    q1 = q1
    m1 = m1
    m2 = m2
    k1 = k1
    None = None
    Questions = {q1}
    Models = {m1}
    Competitors = {k1}
    Runs <- MCRuns
    Procs = {p1}
    Verdicts <- MCVerdicts
    Wired = TRUE
    CATCH_UP_WEEKS = 2
    RetryLimit = 0
    AggRetries = 0
    MaxJobs = 1
    MaxCrashes = 0
INVARIANT ComparesWithEarlierRun
CHECK_DEADLOCK FALSE
