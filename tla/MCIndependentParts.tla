-------------------------- MODULE MCIndependentParts --------------------------
(* Small instances of IndependentParts for TLC, and the checks of pure algorithms that *)
(* need no state: they are assumptions, which TLC evaluates before it starts.          *)
EXTENDS IndependentParts, PureChecks, TLC

CONSTANTS a1, a2, w1, w2, old
CONSTANTS o1, o2, q1, q2, q3, q4, q5, q6
CONSTANTS c1, c2

Pace == INSTANCE Throttle WITH MaxPerDay <- 2, MaxPerWeek <- 3, MinInterval <- 2,
                               TicksPerDay <- 3, DaysPerWeek <- 2

-----------------------------------------------------------------------------
(* Values of the constants *)

\* More and fewer questions than slices, and numbers that slices do not divide.
MCCount == [core |-> 1, secondary |-> 3, longtail |-> 6]

\* Two languages, six questions: enough to prune, to cap and to edit.
Ids == {q1, q2, q3, q4, q5, q6}
Q(lang, norm, group, intent, stage, branded, flawed, salad) ==
    [lang |-> lang, norm |-> norm, group |-> group, intent |-> intent, stage |-> stage,
     branded |-> branded, flawed |-> flawed, salad |-> salad, keywordStyle |-> FALSE]

\* q2 names the brand and restates q1 in its group, q3 in another; q5 is a bare list.
MCFacts ==
    q1 :> Q("en", 1, 1, "comparison", "decision", FALSE, FALSE, FALSE) @@
    q2 :> Q("en", 2, 1, "comparison", "decision", TRUE, FALSE, FALSE) @@
    q3 :> Q("en", 3, 2, "brand", "decision", TRUE, FALSE, FALSE) @@
    q4 :> Q("en", 4, 3, "useCase", "awareness", FALSE, FALSE, FALSE) @@
    q5 :> Q("ko", 1, 4, "attribute", "awareness", FALSE, FALSE, TRUE) @@
    q6 :> Q("ko", 6, 5, "category", "consideration", FALSE, FALSE, FALSE)

MCLikeness == [i \in Ids |-> [j \in Ids |->
    IF i = j THEN 100 ELSE IF {i, j} \subseteq {q1, q2, q3} THEN 70 ELSE 10]]

\* Of fifty questions none is left for "ko", of two hundred there is one.
MCWeights == ("en" :> 995) @@ ("ko" :> 5)
MCAnswers == ("en" :> {<<q1, q2, q3, q4>>}) @@ ("ko" :> {<<q5, q6>>})
MCEdits == {[questions |-> {q1, q6}, core |-> {q1}]}

\* The cells of all languages, stages and intents add up to the clamped total.
ASSUME MatrixAddsUp ==
    \A r \in {0, 50, 51, 97, 120, 199, 300} :
      LET totals == LanguageTotals(r)
      IN /\ totals["en"] + totals["ko"] = ClampTotal(r)
         /\ \A l \in Languages :
              Total([s \in 1..3 |-> Total(IntentMatrix(totals[l])[s])]) = totals[l]

\* Of a draft at most a quarter is core, whatever dedup and the guards took out of the
\* pool and in whatever order the answers came.
ASSUME CoreIsCapped ==
    \A pool \in UNION {{p \in [1..n -> Ids] : Cardinality({p[i] : i \in 1..n}) = n} : n \in 1..5} :
      LET draft == Tpl!Draft(pool)
      IN 4 * Cardinality(draft.core) <= Cardinality(draft.questions)

\* The core cells keep the caps, of each language and of all; and only to keep them is one
\* demoted: the last to go would not have fitted.
ASSUME CellsAreCapped ==
    \A r \in {50, 51, 97, 200} :
      LET cells == Cells(r)
          core == ApplyDensityTiers(cells)
          of(l) == {i \in DOMAIN cells : cells[i].lang = l}
      IN /\ 4 * Targets(cells, core) <= ClampTotal(r)
         /\ \A l \in Languages :
              Targets(cells, core \cap of(l)) <= LanguageCoreCap(Targets(cells, of(l)))
         /\ \A i \in DOMAIN cells \ core :
              MapSingleCell(cells[i], FALSE) = "core" =>
                \E l \in Languages :
                  \/ 4 * (Targets(cells, core) + cells[i].count) > ClampTotal(r)
                  \/ Targets(cells, core \cap of(l)) + cells[i].count
                       > LanguageCoreCap(Targets(cells, of(l)))

\* Small sets of weights, the zero ones included: nothing is lost or handed out twice.
ASSUME RoundingAddsUp ==
    \A w \in [1..3 -> 0..3], t \in 0..7 : Total(HamiltonRound(w, t)) = t

\* canPublishNow, which only the tests call, and the claim transaction agree on
\* whether a customer may publish at all (DESIGN-phase3.md:71), whatever its row says.
ASSUME ClaimAgreesWithCanPublishNow ==
    \A row \in [window: 0..2, count: 0..2, week: 0..1, weekCount: 0..3, last: 0..6,
                exists: BOOLEAN], t \in 0..6 :
        Pace!canPublishNow(row, t) <=> Pace!ClaimLimit(row, 1, Pace!currentWindowStart(t), t) > 0
===============================================================================
