SPECIFICATION FairSpec
\* Regenerated: the set of active questions has stayed, grown, lost a question while it
\* gained another, or been replaced altogether.
CONSTANTS
    Units = {u1, u2, u3}
    Executors = {p1, p2}
    Answers = {"answered", "retryable", "permanent"}
    Faults = {"crash", "db", "budget", "assemble"}
    Plans = {{}, {u1, u2}}
    Regenerated = {{u1, u2}, {u1, u2, u3}, {u1, u3}, {u3}}
    MaxKills = 2
    OneAtATime = TRUE
INVARIANTS CompletedExecutesItsPlan
PROPERTIES PlanIsExecuted
CHECK_DEADLOCK FALSE
