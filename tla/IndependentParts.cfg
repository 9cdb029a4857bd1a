\* A year of weekly cycles of which two fail; or two publishes that may
\* overlap, each with what can go wrong in it; or one generation, an edit and two
\* commands that interleave, with one death; or two calls over three keys. Each part
\* stops at its bounds.
CONSTANTS
    Count <- MCCount
    IndexSupplied = TRUE
    MaxCycles = 52
    MaxFailures = 2
    a1 = a1  a2 = a2  w1 = w1  w2 = w2  old = old  NoAsset = NoAsset
    Assets = {a1, a2}
    Legacy = {old}
    Workers = {w1, w2}
    RetryLimit = 1
    MaxFaults = 2
    o1 = o1  o2 = o2
    q1 = q1  q2 = q2  q3 = q3  q4 = q4  q5 = q5  q6 = q6
    QuestionIds <- Ids
    Facts <- MCFacts
    likeness <- MCLikeness
    Weights <- MCWeights
    Staff = {o1, o2}
    Industry = "industry"
    Customer = "customer"
    NoSlug = "none"
    SlugArgs = {"industry"}
    Requests = {10, 300}
    Answers <- MCAnswers
    Prices = {1, 3}
    RunCeiling = 2
    Edits <- MCEdits
    MaxVersion = 2
    MaxGenerations = 1
    MaxCrashes = 1
    c1 = c1  c2 = c2
    Calls = {c1, c2}
    NumKeys = 3
    RL_MAX_RETRIES = 2
SPECIFICATION PartsSpec
INVARIANTS CoveredEachRound FailureCostsOneRound NothingDangles LoneCallsListAll
           OnlyReviewedIsAsked WaitsWhenAllAreLimited ActiveIsServed
PROPERTIES VerifyEnds ActiveIsReplaced
CHECK_DEADLOCK FALSE
