----------------------------- MODULE SamplingPlan -----------------------------
(***************************************************************************)
(* The cells of a run: which languages, models and samples the due         *)
(* questions are asked in (src/sampling/plan.ts, languageWeight.ts,        *)
(* density.ts). Which questions are due is RotationPlan's matter.          *)
(*                                                                         *)
(* A language is [code, weight], the weight in hundredths; a model         *)
(* [id, cheap, enabled, chat]; a question [id, tier]. Codes and ids are    *)
(* numbers, in the order in which localeCompare puts them.                 *)
(***************************************************************************)
EXTENDS Integers, Sequences, FiniteSets, FiniteSetsExt, SequencesExt

CONSTANT ESCALATION_JUDGE_MODEL  \* gemini-2.5-pro, which only judges

Tiers == {"core", "secondary", "longtail"}

\* TIER_CONFIGS, as far as the plan goes by them.
TierConfig(tier) ==
    [nSamples |-> IF tier = "core" THEN 5 ELSE 3, cheapModelOnly |-> tier = "longtail"]

\* baselineTierConfig: three samples on any model.
BaselineTierConfig(tier) == [nSamples |-> 3, cheapModelOnly |-> FALSE]

FirstOf(seq, n) == SubSeq(seq, 1, IF n < Len(seq) THEN n ELSE Len(seq))

-----------------------------------------------------------------------------
(* Languages *)

SortByWeight(languages) ==
    SetToSortSeq(languages, LAMBDA k, l : k.weight > l.weight
                                          \/ (k.weight = l.weight /\ k.code < l.code))

\* An operating run takes the heaviest ones.
SelectLanguages(languages, maxLanguages) ==
    ToSet(FirstOf(SortByWeight(languages), maxLanguages))

\* A baseline takes those of weight 1 and more, or the heaviest one; it looks at
\* its cap when all weigh the same, and then takes one at least.
SelectBaselineLanguages(languages, maxLanguages) ==
    LET sorted == SortByWeight(languages)
        weights == {l.weight : l \in languages}
        priority == {l \in languages : l.weight >= 100}
    IN IF languages = {} THEN {}
       ELSE IF Cardinality(weights) = 1
            THEN ToSet(FirstOf(sorted, IF maxLanguages > 1 THEN maxLanguages ELSE 1))
       ELSE IF priority = {} THEN {sorted[1]} ELSE priority

SelectedLanguages(languages, maxLanguages, baseline) ==
    IF baseline THEN SelectBaselineLanguages(languages, maxLanguages)
    ELSE SelectLanguages(languages, maxLanguages)

TrimmedCount(languages, maxLanguages, baseline) ==
    Cardinality(languages) - Cardinality(SelectedLanguages(languages, maxLanguages, baseline))

-----------------------------------------------------------------------------
(* Models *)

Generators(models) == {m \in models : m.enabled /\ m.id # ESCALATION_JUDGE_MODEL}

\* Cheap monitors come last in a baseline and first in an operating run.
Preferred(m, n, baseline) ==
    \/ m.cheap # n.cheap /\ (baseline <=> n.cheap)
    \/ m.cheap = n.cheap /\ m.id < n.id

CappedModels(models, maxModels, baseline) ==
    ToSet(FirstOf(SetToSortSeq(Generators(models),
                               LAMBDA m, n : Preferred(m, n, baseline)), maxModels))

-----------------------------------------------------------------------------
(* Work units *)

\* Answers of a search surface do not vary: one sample is enough.
SamplesOf(model, config) == IF model.chat THEN config.nSamples ELSE 1

\* The due questions by the models of their tier, the languages, and the samples.
\* budget is [maxModels, maxLanguages, maxSamples].
WorkUnits(due, models, languages, budget, baseline) ==
    LET capped == CappedModels(models, budget.maxModels, baseline)
        selected == SelectedLanguages(languages, budget.maxLanguages, baseline)
        config(q) == IF baseline THEN BaselineTierConfig(q.tier) ELSE TierConfig(q.tier)
        tierModels(q) == {m \in capped : config(q).cheapModelOnly => m.cheap}
        samples(q, m) == 0..(SamplesOf(m, config(q)) - 1)
    IN UNION {{[questionId |-> q.id, modelId |-> m.id, language |-> l.code, sampleIdx |-> i] :
                  l \in selected, i \in samples(q, m)} :
                  <<q, m>> \in UNION {{q} \X tierModels(q) : q \in due}}

\* The samples of a cell share their request hash: it leaves the sample out.
RequestHash(u) == <<u.modelId, u.language, u.questionId>>

-----------------------------------------------------------------------------
(* What a plan promises *)

\* The longtail is only asked of cheap monitors, and nothing is asked of the model
\* that is reserved for escalated judgments (plan.ts step 2).
CheapWhereItMustBe(units, due, models, baseline) ==
    \A u \in units :
        /\ u.modelId # ESCALATION_JUDGE_MODEL
        /\ baseline \/ \A q \in due, m \in models :
               (q.id = u.questionId /\ q.tier = "longtail" /\ m.id = u.modelId) => m.cheap

\* Whatever a larger budget plans contains what a smaller one plans: trimming never
\* swaps one cell for another (budget.ts, "trim deterministically").
TrimsOnly(smaller, larger) == smaller \subseteq larger

\* No lighter language is asked while a heavier one is left out.
HeaviestKept(languages, selected) ==
    \A l \in selected, k \in languages \ selected : k.weight <= l.weight

\* "Shape caps are enforced at matrix-build time by the planner" (budget.ts).
KeepsShapeCaps(units, budget) ==
    /\ Cardinality({u.modelId : u \in units}) <= budget.maxModels
    /\ Cardinality({u.language : u \in units}) <= budget.maxLanguages
    /\ \A u \in units : u.sampleIdx < budget.maxSamples
=============================================================================
