-------------------------- MODULE MCDeployPipeline --------------------------
(* Instances of DeployPipeline for TLC. *)
EXTENDS DeployPipeline, TLC

CONSTANTS a1, w1, w2, d1, j1, j2

OneAsset == {a1}
TwoWorkers == {w1, w2}
OneDispatcher == {d1}
TwoJobs == {j1, j2}
RealOnly == {FALSE}
BothModes == {FALSE, TRUE}

\* Handlers are interchangeable, and so are job slots.
ProcessSymmetry == Permutations({w1, w2}) \cup Permutations({j1, j2})

\* A lost enqueue leaves what a dispatcher crash leaves: a leased row without a job.
CrashesAndRaces == {"crash", "db", "expire"}
Unreliable == {"enqueue", "expire"}

\* Accepted, refused for good, released to the next dispatch, or thrown, with the row still
\* leased and a retry to come.
Answers == {"ok", "permanent", "not_configured", "threw"}
\* Accepted, or released and retried when the row is no longer leased.
AcceptOrRetry == {"ok", "retryable"}
=============================================================================
