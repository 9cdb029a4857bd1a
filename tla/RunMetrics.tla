------------------------------ MODULE RunMetrics ------------------------------
(***************************************************************************)
(* The figures of a report: what src/metrics/aggregate.ts computes from    *)
(* the current judgments of a run, and the gate that drops a figure that   *)
(* is not one. A share is kept as its numerator and denominator; 1 / rank  *)
(* is scaled to an integer.                                                *)
(*                                                                         *)
(* The judgments of a run are a function from the cells judged so far.     *)
(* A cell that was never judged has no row and still counts in n_total.    *)
(***************************************************************************)
EXTENDS Integers, FiniteSets

CONSTANTS
    Questions, Models,  \* the frozen plan measures every question on every model
    Competitors         \* the competitors of the customer

\* An empty plan ends its run before anything is measured (runCycle.ts:563).
ASSUME MetricsAssumption ==
    /\ IsFiniteSet(Questions) /\ Questions # {}
    /\ IsFiniteSet(Models) /\ Models # {}
    /\ IsFiniteSet(Competitors)

Cells == Questions \X Models
QuestionOf(c) == c[1]
ModelOf(c) == c[2]

NTotal == Cardinality(Cells)

MaxRank == 3
RankScale == 6  \* a common multiple of 1..MaxRank

\* A row of current_judgment. rank 0 stands for a NULL brand_rank; rivals are
\* the competitors found with a rank.
Judgment == [
    mentioned : BOOLEAN,
    cited : BOOLEAN,
    recommended : BOOLEAN,
    rank : 0..MaxRank,
    rivals : SUBSET Competitors,
    provenance : {"judge", "abstain"},
    guard : {"pass", "downgraded_abstain"}]

Passing(j) == {c \in DOMAIN j : j[c].guard = "pass"}

\* Mutation: what the guardrails have downgraded is counted all the same.
AllRows(j) == DOMAIN j

BrandHits(j) == {c \in Passing(j) : j[c].mentioned}

\* What the entries of f for S add up to, counted one by one.
Total(f, S) == Cardinality(UNION {{x} \X (1..f[x]) : x \in S})

-----------------------------------------------------------------------------
InvRank(j) ==
    LET ranked == {c \in BrandHits(j) : j[c].rank # 0}
    IN Total([c \in ranked |-> RankScale \div j[c].rank], ranked)

\* The view run_smr_overall, one row per run.
SmrOverall(j) ==
    LET hits == BrandHits(j) IN
    [brandHits |-> Cardinality(hits),
     citationHits |-> Cardinality({c \in hits : j[c].cited}),
     recommendationHits |-> Cardinality({c \in hits : j[c].recommended}),
     invRankSum |-> InvRank(j)]

\* The rows behind the shares, listed by queries of their own.
SmrEvidence(j) == BrandHits(j)
CitationEvidence(j) == {c \in Passing(j) : j[c].mentioned /\ j[c].cited}
RecommendationEvidence(j) == {c \in Passing(j) : j[c].mentioned /\ j[c].recommended}
VisibilityEvidence(j) == {c \in Passing(j) : j[c].mentioned /\ j[c].rank # 0}

-----------------------------------------------------------------------------
\* Share of voice: mentions of the brand and of each competitor among them all.
BrandMentions(j) == Cardinality({c \in Passing(j) : j[c].mentioned})
RivalMentions(j, k) == Cardinality({c \in Passing(j) : k \in j[c].rivals})
TotalMentions(j) ==
    BrandMentions(j) + Total([k \in Competitors |-> RivalMentions(j, k)], Competitors)

\* The priority gap divides by the rows judged for the question.
GapOf(j, q) ==
    [total |-> Cardinality({c \in DOMAIN j : QuestionOf(c) = q}),
     brandHits |-> Cardinality({c \in BrandHits(j) : QuestionOf(c) = q}),
     rivalRows |-> Cardinality({c \in Passing(j) : QuestionOf(c) = q /\ j[c].rivals # {}})]

PriorityGap(j) ==
    [q \in {x \in Questions : GapOf(j, x).total > 0} |-> GapOf(j, q)]

\* The decomposition: hits of each slice, over the work units planned for it.
ByModel(j, m) == Cardinality({c \in BrandHits(j) : ModelOf(c) = m})
ByQuestion(j, q) == Cardinality({c \in BrandHits(j) : QuestionOf(c) = q})
CitationByModel(j, m) ==
    Cardinality({c \in Passing(j) : j[c].cited /\ j[c].mentioned /\ ModelOf(c) = m})

Decomposition(j) ==
    [byModel |-> [m \in Models |-> ByModel(j, m)],
     byQuestion |-> [q \in Questions |-> ByQuestion(j, q)],
     citationByModel |-> [m \in Models |-> CitationByModel(j, m)]]

AbstainCount(j) ==
    Cardinality({c \in DOMAIN j : \/ j[c].provenance = "abstain"
                                  \/ j[c].guard = "downgraded_abstain"})

-----------------------------------------------------------------------------
\* validateMetricTuple: a share kept as hits over n must lie in [0, 1].
VerifiableShare(hits, n) == n > 0 /\ 0 <= hits /\ hits <= n

\* The shares of voice a report keeps: the others are dropped by the gate.
VerifiedSov(j) ==
    LET total == TotalMentions(j)
        n == IF total > 0 THEN total ELSE NTotal
    IN {k \in Competitors : VerifiableShare(RivalMentions(j, k), n)}
=============================================================================
