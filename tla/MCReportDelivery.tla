--------------------------- MODULE MCReportDelivery ---------------------------
(* Small instances of ReportDelivery for TLC. *)
EXTENDS ReportDelivery, TLC

CONSTANTS p1, p2, q1, m1, m2, k1

MCRuns == 1..2

Mention == [mentioned |-> TRUE, cited |-> FALSE, recommended |-> FALSE, rank |-> 2,
            rivals |-> {k1}, provenance |-> "judge", guard |-> "pass"]

\* A mention with a source, downgraded by the guardrails or not: the gate clears the mention
\* and keeps the source.
MCVerdicts == {[Mention EXCEPT !.cited = TRUE, !.rank = 1],
               [Mention EXCEPT !.cited = TRUE, !.mentioned = FALSE, !.rank = 0,
                               !.provenance = "abstain", !.guard = "downgraded_abstain"]}
===============================================================================
