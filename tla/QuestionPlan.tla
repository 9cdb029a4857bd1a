---------------------------- MODULE QuestionPlan ----------------------------
(* The pure half of template generation: how many questions are asked for in *)
(* each cell, which of the answers survive, and which of those are core.     *)
(* A generated question is a record of what the rules look at; likeness is   *)
(* the trigram similarity of two normalised texts, in percent.               *)
EXTENDS Integers, Sequences, FiniteSets, SequencesExt, FiniteSetsExt, Functions

CONSTANTS
    QuestionIds,    \* the texts the model may return
    Facts,          \* id -> [lang, norm, group, intent, stage, branded, flawed, salad]
    likeness,       \* id -> id -> 0..100
    Weights         \* language -> weight, in thousandths

ASSUME QuestionPlanAssumption ==
    /\ \A i \in QuestionIds, j \in QuestionIds : likeness[i][j] \in 0..100
    /\ \A l \in DOMAIN Weights : Weights[l] \in 0..1000

Languages == DOMAIN Weights
Intents == <<"brand", "category", "comparison", "alternative", "useCase", "attribute">>
Stages == <<"awareness", "consideration", "decision">>

StageWeights == <<30, 35, 35>>
IntentWeights(s) ==
    CASE s = "awareness"     -> <<10, 35, 3, 2, 30, 20>>
      [] s = "consideration" -> <<7, 10, 30, 25, 25, 3>>
      [] s = "decision"      -> <<20, 7, 30, 25, 15, 3>>

ClampTotal(n) == IF n < 50 THEN 50 ELSE IF n > 200 THEN 200 ELSE n

Total(seq) == FoldFunction(LAMBDA x, y : x + y, 0, seq)

\* The largest remainders get one more each; the earlier index wins a tie.
HamiltonRound(weights, total) ==
    IF Total(weights) = 0
    THEN [i \in DOMAIN weights |-> total \div Len(weights)
                                     + (IF i <= total % Len(weights) THEN 1 ELSE 0)]
    ELSE LET sum == Total(weights)
             part(i) == weights[i] * total
             left == total - Total([i \in DOMAIN weights |-> part(i) \div sum])
             ahead(i) == {j \in DOMAIN weights :
                            \/ part(j) % sum > part(i) % sum
                            \/ (part(j) % sum = part(i) % sum /\ j < i)}
         IN [i \in DOMAIN weights |-> part(i) \div sum
                                        + (IF Cardinality(ahead(i)) < left THEN 1 ELSE 0)]

\* Heaviest language first; the order of the set stands for that of the codes.
SortedLanguages == SetToSortSeq(Languages, LAMBDA a, b : Weights[a] > Weights[b])

LanguageTotals(requested) ==
    LET share == HamiltonRound([i \in DOMAIN SortedLanguages |-> Weights[SortedLanguages[i]]],
                               ClampTotal(requested))
    IN [l \in Languages |-> share[CHOOSE i \in DOMAIN share : SortedLanguages[i] = l]]

StageTotals(total) == HamiltonRound(StageWeights, total)

\* The targets of one language's cells, stage by stage and intent by intent.
IntentMatrix(total) ==
    [s \in DOMAIN Stages |-> HamiltonRound(IntentWeights(Stages[s]), StageTotals(total)[s])]

\* One call for each language that is left with a target.
LanguagesAsked(requested) ==
    SelectSeq(SortedLanguages, LAMBDA l : LanguageTotals(requested)[l] > 0)

-----------------------------------------------------------------------------
(* Duplicates: exact ones by normalised text, near ones by clusters.         *)

NearDupThreshold == 65
MaxSiblings == 3

FirstOfText(qs) ==
    FoldLeft(LAMBDA seen, q :
               IF \E k \in ToSet(seen) : Facts[k].norm = Facts[q].norm THEN seen
               ELSE Append(seen, q), <<>>, qs)

\* The nearest representative, the earliest of equals; 0 when none is near.
Closest(clusters, q) ==
    LET sim(c) == likeness[clusters[c].lead][q]
        near == {c \in DOMAIN clusters : sim(c) >= NearDupThreshold}
    IN IF near = {} THEN 0
       ELSE CHOOSE c \in near :
              \A d \in near : sim(c) > sim(d) \/ (sim(c) = sim(d) /\ c <= d)

\* A restatement of the lead's own group, or of a group already kept, is dropped.
MayJoin(c, q) ==
    /\ \A k \in c.siblings \cup {c.lead} : Facts[k].group # Facts[q].group
    /\ Cardinality(c.siblings) < MaxSiblings

Cluster(clusters, q) ==
    LET c == Closest(clusters, q)
    IN IF c = 0 THEN Append(clusters, [lead |-> q, siblings |-> {}])
       ELSE IF MayJoin(clusters[c], q) THEN [clusters EXCEPT ![c].siblings = @ \cup {q}]
       ELSE clusters

KeptOf(clusters) == UNION {c.siblings \cup {c.lead} : c \in ToSet(clusters)}

DedupLanguage(qs) ==
    LET distinct == FirstOfText(qs)
        kept == KeptOf(FoldLeft(Cluster, <<>>, distinct))
    IN SelectSeq(distinct, LAMBDA q : q \in kept)

OfLanguage(qs, l) == SelectSeq(qs, LAMBDA q : Facts[q].lang = l)

\* Languages are never compared with one another; they keep their order.
Dedup(qs) ==
    LET langs == FoldLeft(LAMBDA seen, q : IF Facts[q].lang \in ToSet(seen) THEN seen
                                           ELSE Append(seen, Facts[q].lang), <<>>, qs)
    IN FlattenSeq([i \in DOMAIN langs |-> DedupLanguage(OfLanguage(qs, langs[i]))])

-----------------------------------------------------------------------------
(* The guards, in their order: the first that rejects decides.               *)

BrandLeading(f) == f.intent # "brand" /\ f.branded
KeywordSalad(f) == f.salad /\ ~f.keywordStyle

PassesGuards(q) ==
    LET f == Facts[q] IN ~BrandLeading(f) /\ ~f.flawed /\ ~KeywordSalad(f)

QuestionGuards(qs) == SelectSeq(qs, PassesGuards)

-----------------------------------------------------------------------------
(* Tiers: core by rule, then cut to a share of each language and of all.     *)

CoreIntents == {"brand", "comparison", "alternative", "category"}
HighWeight == 500

\* Of one phrasing group only the first question of the language leads.
IsSibling(qs, i) ==
    \E j \in 1..(i - 1) : /\ Facts[qs[j]].lang = Facts[qs[i]].lang
                          /\ Facts[qs[j]].group = Facts[qs[i]].group

MapSingleCell(f, sibling) ==
    IF sibling THEN "secondary"
    ELSE IF f.stage = "awareness" /\ f.intent = "attribute" THEN "longtail"
    ELSE IF f.stage = "decision" /\ f.intent \in CoreIntents /\ Weights[f.lang] >= HighWeight
         THEN "core" ELSE "secondary"

Alphabetical == <<"alternative", "attribute", "brand", "category", "comparison", "useCase">>
Rank(seq, x) == CHOOSE i \in DOMAIN seq : seq[i] = x

\* The order of demotion, as one number: weight (across languages), stage, intent, place
\* (below 1000, as the clamped total is).
DemotionKey(f, k, acrossLanguages) ==
    (((IF acrossLanguages THEN Weights[f.lang] ELSE 0) * 4 + Rank(Stages, f.stage)) * 7
        + Rank(Alphabetical, f.intent)) * 1000 + k

\* What is left of the places `core` when only `cap` of them may stay.
CutTo(qs, core, cap, acrossLanguages) ==
    LET key(i) == DemotionKey(Facts[qs[i]], i, acrossLanguages)
    IN {i \in core : Cardinality({j \in core : key(j) < key(i)})
                        >= Cardinality(core) - cap}

GlobalCoreCap(n) == n \div 4
LanguageCoreCap(n) == (35 * n + 99) \div 100

\* The questions of qs that are core.
DensityCore(qs) ==
    LET raw == {i \in DOMAIN qs : MapSingleCell(Facts[qs[i]], IsSibling(qs, i)) = "core"}
        inLanguage(l) == {i \in raw : Facts[qs[i]].lang = l}
        perLanguage == UNION {CutTo(qs, inLanguage(l),
                                    LanguageCoreCap(Len(OfLanguage(qs, l))), FALSE)
                                : l \in Languages}
    IN {qs[i] : i \in CutTo(qs, perLanguage, GlobalCoreCap(Len(qs)), TRUE)}

\* The cells of the matrix that are left with a target, in their order.
Cells(requested) ==
    LET total(l) == IntentMatrix(LanguageTotals(requested)[l])
        row(l, s) == [t \in DOMAIN Intents |-> [lang |-> l, stage |-> Stages[s],
                                               intent |-> Intents[t], count |-> total(l)[s][t]]]
        rows(l) == row(l, 1) \o row(l, 2) \o row(l, 3)
    IN SelectSeq(FlattenSeq([i \in DOMAIN SortedLanguages |-> rows(SortedLanguages[i])]),
                 LAMBDA c : c.count > 0)

Targets(cells, places) == FoldSet(LAMBDA i, sum : sum + cells[i].count, 0, places)

\* Whole cells are demoted, until at most `cap` questions are core.
CutCellsTo(cells, core, cap, acrossLanguages) ==
    LET key(i) == DemotionKey(cells[i], i, acrossLanguages)
    IN {i \in core : Targets(cells, {j \in core : key(j) < key(i)})
                        >= Targets(cells, core) - cap}

ApplyDensityTiers(cells) ==
    LET raw == {i \in DOMAIN cells : MapSingleCell(cells[i], FALSE) = "core"}
        of(l) == {i \in DOMAIN cells : cells[i].lang = l}
        perLanguage == UNION {CutCellsTo(cells, raw \cap of(l),
                                         LanguageCoreCap(Targets(cells, of(l))), FALSE)
                                : l \in Languages}
    IN CutCellsTo(cells, perLanguage, GlobalCoreCap(Targets(cells, DOMAIN cells)), TRUE)

\* A draft of the answers: duplicates out, guards, then tiers of what is left.
Draft(pool) ==
    LET kept == QuestionGuards(Dedup(pool))
    IN [questions |-> ToSet(kept), core |-> DensityCore(kept)]
=============================================================================
